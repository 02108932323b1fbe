----------------------- MODULE GenericThreadPoolProofs -----------------------
(***************************************************************************)
(* Proofs about GenericThreadPool for any number of workers, any clients,  *)
(* workers of other pools, tasks and programs: no task is lost, duplicated *)
(* or run twice, whatever is stolen, pause holds, and the pool keeps the   *)
(* promises of TaskPool.  The lemmas about the stacks of calls are those   *)
(* of BasicThreadPoolProofs, for this pool's variables.                    *)
(***************************************************************************)
EXTENDS GenericThreadPool, FiniteSetTheorems, TLAPS

-----------------------------------------------------------------------------
(* The invariant: what TaskConserved says, without cardinalities.  A task  *)
(* is at most in one place of one queue, or of one stack.                  *)

PoolHolds(i, u) == i \in DOMAIN poolWorkQueue /\ poolWorkQueue[i] = u
LocalHolds(q, i, u) == i \in DOMAIN local[q] /\ local[q][i] = u
InPool(u) == \E i \in Nat : PoolHolds(i, u)
InLocal(u) == \E q \in HasLocal, i \in Nat : LocalHolds(q, i, u)
Queued(u) == InPool(u) \/ InLocal(u)
Holds(t, k, u) == k \in DOMAIN stack[t] /\ stack[t][k].task = u
In(q, u) == \E i \in Nat : LocalHolds(q, i, u)
On(t, u) == \E k \in Nat : Holds(t, k, u)
OnStack(u) == \E t \in Threads, k \in Nat : Holds(t, k, u)

QueuedOnce ==
    \A u \in Tasks :
       /\ \A i, j \in Nat : PoolHolds(i, u) /\ PoolHolds(j, u) => i = j
       /\ \A q, r \in HasLocal, i, j \in Nat :
             LocalHolds(q, i, u) /\ LocalHolds(r, j, u) => q = r /\ i = j
       /\ ~(InPool(u) /\ InLocal(u))

RunsOnce ==
    \A u \in Tasks : \A s, t \in Threads : \A j, k \in Nat :
       Holds(s, j, u) /\ Holds(t, k, u) => s = t /\ j = k

PendingPlaced ==
    \A u \in Tasks : /\ ~(Queued(u) /\ OnStack(u))
                     /\ future[u] = "pending" <=> Queued(u) \/ OnStack(u)

\* A client's program is at the bottom of its own stack and nowhere else.
ClientsAtBottom ==
    \A t \in Threads : \A k \in DOMAIN stack[t] :
       stack[t][k].task \in Clients => stack[t][k].task = t /\ k = 1

\* What has still to be submitted has not been: the submission of u at place i
\* of c's program lies ahead while c has not started, or not come to i.
Submits(c, i, u) ==
    i \in DOMAIN program[c] /\ program[c][i].call = "submit" /\ program[c][i].task = u
Ahead(c, i) ==
    \/ c \in Tasks /\ (future[c] = "none" \/ Queued(c))
    \/ \E t \in Threads, k \in Nat : Holds(t, k, c) /\ stack[t][k].ip <= i
NotYetSubmitted ==
    \A u \in Tasks, c \in Callables, i \in Nat :
       Submits(c, i, u) /\ Ahead(c, i) => future[u] = "none"

IInv == TypeOK /\ QueuedOnce /\ RunsOnce /\ PendingPlaced /\ ClientsAtBottom /\ NotYetSubmitted

-----------------------------------------------------------------------------
(* The stacks of calls.                                                    *)

LEMMA StackFacts ==
    ASSUME TasksTypeOK, NEW t \in Threads
    PROVE  /\ stack[t] \in Seq(Frames) /\ Len(stack[t]) \in Nat
           /\ DOMAIN stack[t] = 1 .. Len(stack[t])
           /\ \A k \in DOMAIN stack[t] : /\ stack[t][k] \in Frames
                                         /\ stack[t][k].task \in Callables
                                         /\ stack[t][k].ip \in Nat \ {0}
           /\ stack[t] # <<>> => Len(stack[t]) \in DOMAIN stack[t]
<1>1. stack[t] \in Seq(Frames)
  BY DEF TasksTypeOK
<1>2. Len(stack[t]) \in Nat /\ DOMAIN stack[t] = 1 .. Len(stack[t])
  BY <1>1
<1>3. \A k \in DOMAIN stack[t] : stack[t][k] \in Frames
  BY <1>1
<1>4. \A k \in DOMAIN stack[t] : stack[t][k].task \in Callables /\ stack[t][k].ip \in Nat \ {0}
  BY <1>3 DEF Frames
<1>5. stack[t] # <<>> => Len(stack[t]) \in DOMAIN stack[t]
  BY <1>1
<1> QED BY <1>1, <1>2, <1>3, <1>4, <1>5

LEMMA ProgramFacts ==
    ASSUME TasksTypeOK, NEW c \in Callables
    PROVE  /\ program[c] \in Seq(Instructions) /\ DOMAIN program[c] = 1 .. Len(program[c])
           /\ Len(program[c]) \in Nat
           /\ program[EmptyTask] = <<>>
           /\ \A i \in DOMAIN program[c] :
                program[c][i].call = "submit" => program[c][i].task \in Tasks
           /\ \A d \in Callables, i, j \in Nat, u \in Tasks :
                Submits(c, i, u) /\ Submits(d, j, u) => c = d /\ i = j
<1>1. program \in Programs
  BY DEF TasksTypeOK
<1>2. program \in [Callables -> Seq(Instructions)] /\ program[EmptyTask] = <<>>
  BY <1>1, ProgramAssumption
<1>3. program[c] \in Seq(Instructions)
  BY <1>2
<1>4. DOMAIN program[c] = 1 .. Len(program[c]) /\ Len(program[c]) \in Nat
  BY <1>3
<1>5. \A i \in DOMAIN program[c] : program[c][i].call = "submit" => program[c][i].task \in Tasks
  BY <1>1, ProgramAssumption
<1>6. ASSUME NEW d \in Callables, NEW i \in Nat, NEW j \in Nat, NEW u \in Tasks,
             Submits(c, i, u), Submits(d, j, u)
      PROVE  c = d /\ i = j
  BY <1>1, <1>6, ProgramAssumption DEF Submits
<1> QED BY <1>2, <1>3, <1>4, <1>5, <1>6

\* Start puts one frame on top of one stack.
LEMMA StartFacts ==
    ASSUME TasksTypeOK, NEW t \in Threads, NEW u \in Callables, Start(t, u)
    PROVE  /\ stack' \in [Threads -> Seq(Frames)]
           /\ \A s \in Threads, k \in Nat :
                k \in DOMAIN stack'[s] <=> k \in DOMAIN stack[s] \/ (s = t /\ k = Len(stack[t]) + 1)
           /\ \A s \in Threads : \A k \in DOMAIN stack[s] : stack'[s][k] = stack[s][k]
           /\ Len(stack[t]) + 1 \notin DOMAIN stack[t] /\ Len(stack[t]) + 1 \in Nat
           /\ stack'[t][Len(stack[t]) + 1] = [task |-> u, ip |-> 1]
<1> DEFINE f == [task |-> u, ip |-> 1]
<1>0. f \in Frames
  BY DEF Frames
<1>1. /\ stack \in [Threads -> Seq(Frames)]
      /\ stack' = [stack EXCEPT ![t] = Append(@, f)]
  BY DEF TasksTypeOK, Start
<1>2. stack[t] \in Seq(Frames) /\ DOMAIN stack[t] = 1 .. Len(stack[t]) /\ Len(stack[t]) \in Nat
  BY StackFacts
<1> HIDE DEF f
<1>3. /\ Append(stack[t], f) \in Seq(Frames)
      /\ DOMAIN Append(stack[t], f) = 1 .. Len(stack[t]) + 1
      /\ \A k \in 1 .. Len(stack[t]) : Append(stack[t], f)[k] = stack[t][k]
      /\ Append(stack[t], f)[Len(stack[t]) + 1] = f
  BY <1>0, <1>2
<1>4. stack'[t] = Append(stack[t], f) /\ \A s \in Threads : s # t => stack'[s] = stack[s]
  BY <1>1
<1>5. stack' \in [Threads -> Seq(Frames)]
  BY <1>1, <1>3
<1>6. ASSUME NEW s \in Threads, NEW k \in Nat
      PROVE  k \in DOMAIN stack'[s] <=> k \in DOMAIN stack[s] \/ (s = t /\ k = Len(stack[t]) + 1)
  <2>1. CASE s = t BY <2>1, <1>2, <1>3, <1>4
  <2>2. CASE s # t BY <2>2, <1>4
  <2> QED BY <2>1, <2>2
<1>7. ASSUME NEW s \in Threads, NEW k \in DOMAIN stack[s]
      PROVE  stack'[s][k] = stack[s][k]
  <2>1. CASE s = t BY <2>1, <1>2, <1>3, <1>4
  <2>2. CASE s # t BY <2>2, <1>4
  <2> QED BY <2>1, <2>2
<1>8. stack'[t][Len(stack[t]) + 1] = f
  BY <1>3, <1>4
<1> QED BY <1>2, <1>5, <1>6, <1>7, <1>8 DEF f

\* Finish takes the top frame off one stack.
LEMMA FinishFacts ==
    ASSUME TasksTypeOK, NEW t \in Threads, Finish(t)
    PROVE  /\ stack' \in [Threads -> Seq(Frames)]
           /\ Len(stack[t]) \in DOMAIN stack[t]
           /\ \A s \in Threads, k \in Nat :
                k \in DOMAIN stack'[s] <=> k \in DOMAIN stack[s] /\ ~(s = t /\ k = Len(stack[t]))
           /\ \A s \in Threads : \A k \in DOMAIN stack'[s] : stack'[s][k] = stack[s][k]
<1>1. /\ stack \in [Threads -> Seq(Frames)] /\ stack[t] # <<>>
      /\ stack' = [stack EXCEPT ![t] = SubSeq(@, 1, Len(@) - 1)]
  BY DEF TasksTypeOK, Finish
<1>2. /\ stack[t] \in Seq(Frames) /\ DOMAIN stack[t] = 1 .. Len(stack[t]) /\ Len(stack[t]) \in Nat
      /\ Len(stack[t]) \in DOMAIN stack[t]
  BY <1>1, StackFacts
<1>3. /\ SubSeq(stack[t], 1, Len(stack[t]) - 1) \in Seq(Frames)
      /\ DOMAIN SubSeq(stack[t], 1, Len(stack[t]) - 1) = 1 .. Len(stack[t]) - 1
      /\ \A k \in 1 .. Len(stack[t]) - 1 : SubSeq(stack[t], 1, Len(stack[t]) - 1)[k] = stack[t][k]
  BY <1>2
<1>4. /\ stack'[t] = SubSeq(stack[t], 1, Len(stack[t]) - 1)
      /\ \A s \in Threads : s # t => stack'[s] = stack[s]
  BY <1>1
<1>5. stack' \in [Threads -> Seq(Frames)]
  BY <1>1, <1>3
<1>6. ASSUME NEW s \in Threads, NEW k \in Nat
      PROVE  k \in DOMAIN stack'[s] <=> k \in DOMAIN stack[s] /\ ~(s = t /\ k = Len(stack[t]))
  <2>1. CASE s = t BY <2>1, <1>2, <1>3, <1>4
  <2>2. CASE s # t BY <2>2, <1>4
  <2> QED BY <2>1, <2>2
<1>7. ASSUME NEW s \in Threads, NEW k \in DOMAIN stack'[s]
      PROVE  stack'[s][k] = stack[s][k]
  <2>1. CASE s = t BY <2>1, <1>2, <1>3, <1>4
  <2>2. CASE s # t BY <2>2, <1>4
  <2> QED BY <2>1, <2>2
<1> QED BY <1>2, <1>5, <1>6, <1>7

\* Advance moves the top frame of one stack to its next instruction.
LEMMA AdvanceFacts ==
    ASSUME TasksTypeOK, NEW t \in Threads, stack[t] # <<>>, Advance(t)
    PROVE  /\ stack' \in [Threads -> Seq(Frames)]
           /\ \A s \in Threads : DOMAIN stack'[s] = DOMAIN stack[s]
           /\ \A s \in Threads : \A k \in DOMAIN stack[s] :
                /\ stack'[s][k].task = stack[s][k].task
                /\ stack'[s][k].ip >= stack[s][k].ip
           /\ stack'[t][Len(stack[t])].ip = Top(t).ip + 1
<1>1. stack \in [Threads -> Seq(Frames)]
  BY DEF TasksTypeOK
<1>2. /\ stack[t] \in Seq(Frames) /\ DOMAIN stack[t] = 1 .. Len(stack[t]) /\ Len(stack[t]) \in Nat
      /\ Len(stack[t]) \in DOMAIN stack[t]
      /\ \A k \in DOMAIN stack[t] : stack[t][k] \in Frames
  BY StackFacts
<1> DEFINE n == Len(stack[t])
           f == [Top(t) EXCEPT !.ip = @ + 1]
<1>3. stack[t][n] \in Frames /\ Top(t) = stack[t][n]
  BY <1>2 DEF Top
<1>4. f \in Frames /\ f.task = Top(t).task /\ f.ip = Top(t).ip + 1 /\ Top(t).ip \in Nat
  BY <1>3 DEF Frames
<1>5. stack' = [stack EXCEPT ![t] = [stack[t] EXCEPT ![n] = f]]
  BY DEF Advance, Top
<1> HIDE DEF f
<1>6. /\ [stack[t] EXCEPT ![n] = f] \in Seq(Frames)
      /\ DOMAIN [stack[t] EXCEPT ![n] = f] = DOMAIN stack[t]
      /\ \A k \in DOMAIN stack[t] : [stack[t] EXCEPT ![n] = f][k] = IF k = n THEN f ELSE stack[t][k]
  BY <1>2, <1>4
<1>7. stack' \in [Threads -> Seq(Frames)]
  BY <1>1, <1>5, <1>6
<1>8. /\ stack'[t] = [stack[t] EXCEPT ![n] = f]
      /\ \A s \in Threads : s # t => stack'[s] = stack[s]
  BY <1>1, <1>5
<1>9. \A s \in Threads : DOMAIN stack'[s] = DOMAIN stack[s]
  BY <1>6, <1>8
<1>10. ASSUME NEW s \in Threads, NEW k \in DOMAIN stack[s]
       PROVE  stack'[s][k].task = stack[s][k].task /\ stack'[s][k].ip >= stack[s][k].ip
  <2>1. stack[s][k].ip \in Nat
    BY StackFacts
  <2>2. CASE s = t /\ k = n
    <3>1. stack'[s][k] = f BY <2>2, <1>2, <1>6, <1>8
    <3>2. stack[s][k] = Top(t) BY <2>2, <1>3
    <3> QED BY <3>1, <3>2, <1>4
  <2>3. CASE ~(s = t /\ k = n)
    <3>1. stack'[s][k] = stack[s][k] BY <2>3, <1>6, <1>8
    <3> QED BY <3>1, <2>1
  <2> QED BY <2>2, <2>3
<1>11. stack'[t][n] = f
  BY <1>2, <1>6, <1>8
<1> QED BY <1>4, <1>7, <1>9, <1>10, <1>11

\* A thread at a call of its program.
LEMMA CallFacts ==
    ASSUME TasksTypeOK, NEW t \in Threads, NEW l, Calls(t, l)
    PROVE  /\ stack[t] # <<>> /\ Len(stack[t]) \in Nat /\ Holds(t, Len(stack[t]), Top(t).task)
           /\ stack[t][Len(stack[t])] = Top(t)
           /\ Top(t).task \in Callables /\ Top(t).task # EmptyTask
           /\ Top(t).ip \in DOMAIN program[Top(t).task] /\ Top(t).ip \in Nat
           /\ NextCall(t) = program[Top(t).task][Top(t).ip] /\ NextCall(t).call = l
           /\ l = "submit" => NextCall(t).task \in Tasks
<1>1. stack[t] # <<>> /\ ~(Top(t).ip > Len(program[Top(t).task])) /\ NextCall(t).call = l
  BY DEF Calls, AtEnd
<1>2. /\ Len(stack[t]) \in DOMAIN stack[t] /\ Len(stack[t]) \in Nat /\ stack[t][Len(stack[t])] = Top(t)
      /\ Top(t).task \in Callables /\ Top(t).ip \in Nat \ {0}
  BY <1>1, StackFacts DEF Top
<1>3. Top(t).ip \in DOMAIN program[Top(t).task]
  BY <1>1, <1>2, ProgramFacts
<1>4. Top(t).task # EmptyTask
  BY <1>2, <1>3, ProgramFacts
<1>5. l = "submit" => NextCall(t).task \in Tasks
  BY <1>1, <1>2, <1>3, ProgramFacts DEF NextCall
<1> QED BY <1>1, <1>2, <1>3, <1>4, <1>5 DEF NextCall, Holds

-----------------------------------------------------------------------------
(* The queues.                                                             *)

LEMMA TailPlaces ==
    ASSUME NEW S, NEW q \in Seq(S), q # <<>>
    PROVE  /\ Tail(q) \in Seq(S) /\ Head(q) = q[1] /\ 1 \in DOMAIN q /\ Head(q) \in S
           /\ \A i \in Nat : i \in DOMAIN Tail(q) <=> i + 1 \in DOMAIN q /\ i + 1 # 1
           /\ \A i \in DOMAIN Tail(q) : Tail(q)[i] = q[i + 1]
<1>1. /\ Len(q) \in Nat \ {0} /\ DOMAIN q = 1 .. Len(q)
      /\ Tail(q) \in Seq(S) /\ DOMAIN Tail(q) = 1 .. Len(q) - 1
      /\ \A i \in 1 .. Len(q) - 1 : Tail(q)[i] = q[i + 1]
      /\ Head(q) = q[1]
  OBVIOUS
<1>2. 1 \in DOMAIN q /\ q[1] \in S
  BY <1>1
<1>3. \A i \in Nat : i \in DOMAIN Tail(q) <=> i + 1 \in DOMAIN q /\ i + 1 # 1
  BY <1>1
<1> QED BY <1>1, <1>2, <1>3

LEMMA BackPlaces ==
    ASSUME NEW S, NEW q \in Seq(S), q # <<>>
    PROVE  /\ PopBack(q) \in Seq(S) /\ Len(q) \in DOMAIN q /\ Len(q) \in Nat /\ q[Len(q)] \in S
           /\ \A i \in Nat : i \in DOMAIN PopBack(q) <=> i \in DOMAIN q /\ i # Len(q)
           /\ \A i \in DOMAIN PopBack(q) : PopBack(q)[i] = q[i]
<1>1. /\ Len(q) \in Nat \ {0} /\ DOMAIN q = 1 .. Len(q)
      /\ PopBack(q) \in Seq(S) /\ DOMAIN PopBack(q) = 1 .. Len(q) - 1
      /\ \A i \in 1 .. Len(q) - 1 : PopBack(q)[i] = q[i]
  BY DEF PopBack
<1>2. Len(q) \in DOMAIN q /\ q[Len(q)] \in S
  BY <1>1
<1>3. ASSUME NEW i \in Nat PROVE i \in DOMAIN PopBack(q) <=> i \in DOMAIN q /\ i # Len(q)
  <2>1. PICK n \in Nat : n = Len(q)
    BY <1>1
  <2>2. i \in 1 .. n - 1 <=> i \in 1 .. n /\ i # n
    OBVIOUS
  <2> QED BY <2>1, <2>2, <1>1
<1> QED BY <1>1, <1>2, <1>3

LEMMA FrontPlaces ==
    ASSUME NEW q \in Seq(Tasks), NEW u \in Tasks
    PROVE  /\ PushFront(q, u) \in Seq(Tasks)
           /\ \A i \in Nat : i \in DOMAIN PushFront(q, u) <=> i = 1 \/ (i > 1 /\ i - 1 \in DOMAIN q)
           /\ PushFront(q, u)[1] = u
           /\ \A i \in DOMAIN PushFront(q, u) : i # 1 => PushFront(q, u)[i] = q[i - 1]
<1>1. /\ Len(q) \in Nat /\ DOMAIN q = 1 .. Len(q)
      /\ PushFront(q, u) \in Seq(Tasks) /\ DOMAIN PushFront(q, u) = 1 .. Len(q) + 1
      /\ \A i \in 1 .. Len(q) + 1 : PushFront(q, u)[i] = IF i = 1 THEN u ELSE q[i - 1]
  <2>1. <<u>> \in Seq(Tasks) /\ Len(<<u>>) = 1 /\ <<u>>[1] = u
    OBVIOUS
  <2> QED BY <2>1 DEF PushFront
<1>2. \A i \in Nat : i \in DOMAIN PushFront(q, u) <=> i = 1 \/ (i > 1 /\ i - 1 \in DOMAIN q)
  BY <1>1
<1> QED BY <1>1, <1>2

\* The task at place m of the queue q leaves it; those behind it move up by d.
LEMMA TakenFromLocal ==
    ASSUME QueuedOnce, NEW q \in HasLocal, NEW u \in Tasks, NEW m \in Nat \ {0}, NEW d \in {0, 1},
           LocalHolds(q, m, u), d = 1 => m = 1,
           DOMAIN local[q] \subseteq Nat \ {0}, poolWorkQueue' = poolWorkQueue,
           \A r \in HasLocal : r # q => local'[r] = local[r],
           \A i \in Nat : \A v : LocalHolds(q, i, v)' <=> LocalHolds(q, i + d, v) /\ i + d # m
    PROVE  /\ Queued(u) /\ ~Queued(u)' /\ QueuedOnce'
           /\ \A v : Queued(v)' => Queued(v)
           /\ \A v : Queued(v) /\ v # u => Queued(v)'
           /\ \A r \in HasLocal : /\ In(r, u) => r = q
                                  /\ \A v : v # u => (In(r, v)' <=> In(r, v))
<1>1. \A i \in Nat : \A v : PoolHolds(i, v)' <=> PoolHolds(i, v)
  BY DEF PoolHolds
<1>2. \A v : InPool(v)' <=> InPool(v)
  BY <1>1 DEF InPool
<1>3. \A r \in HasLocal, i \in Nat : \A v : r # q => (LocalHolds(r, i, v)' <=> LocalHolds(r, i, v))
  BY DEF LocalHolds
<1>4. ASSUME NEW v, NEW r \in HasLocal, In(r, v)' PROVE In(r, v)
  <2>1. PICK i \in Nat : LocalHolds(r, i, v)'
    BY <1>4 DEF In
  <2>2. CASE r = q
    <3>1. i + d \in Nat /\ LocalHolds(q, i + d, v)
      BY <2>1, <2>2
    <3> QED BY <2>2, <3>1 DEF In
  <2>3. CASE r # q BY <2>1, <2>3, <1>3 DEF In
  <2> QED BY <2>2, <2>3
<1>5. ASSUME NEW v, NEW r \in HasLocal, In(r, v), v # u PROVE In(r, v)'
  <2>1. PICK i \in Nat : LocalHolds(r, i, v)
    BY <1>5 DEF In
  <2>2. CASE r = q
    <3>1. i # m /\ i \in Nat \ {0}
      BY <2>1, <2>2, <1>5 DEF LocalHolds
    <3>2. i - d \in Nat /\ (i - d) + d = i
      BY <3>1
    <3>3. LocalHolds(q, i - d, v)'
      BY <2>1, <2>2, <3>1, <3>2
    <3> QED BY <2>2, <3>2, <3>3 DEF In
  <2>3. CASE r # q BY <2>1, <2>3, <1>3 DEF In
  <2> QED BY <2>2, <2>3
<1>6. ASSUME NEW r \in HasLocal, In(r, u) PROVE r = q
  BY <1>6 DEF In, QueuedOnce
<1>7. ASSUME NEW v, InLocal(v)' PROVE InLocal(v)
  BY <1>7, <1>4 DEF InLocal, In
<1>8. ASSUME NEW v, InLocal(v), v # u PROVE InLocal(v)'
  BY <1>8, <1>5 DEF InLocal, In
<1>9. InLocal(u) /\ ~InPool(u)
  BY DEF InLocal, QueuedOnce
<1>10. ASSUME InLocal(u)' PROVE FALSE
  <2>1. PICK r \in HasLocal, i \in Nat : LocalHolds(r, i, u)'
    BY <1>10 DEF InLocal
  <2>2. CASE r = q
    <3>1. i + d \in Nat /\ LocalHolds(q, i + d, u) /\ i + d # m
      BY <2>1, <2>2
    <3> QED BY <3>1 DEF QueuedOnce
  <2>3. CASE r # q
    <3>1. LocalHolds(r, i, u)
      BY <2>1, <2>3, <1>3
    <3> QED BY <3>1, <2>3 DEF QueuedOnce
  <2> QED BY <2>2, <2>3
<1>11. ASSUME NEW v \in Tasks, NEW r \in HasLocal, NEW s \in HasLocal, NEW i \in Nat, NEW j \in Nat,
             LocalHolds(r, i, v)', LocalHolds(s, j, v)'
      PROVE  r = s /\ i = j
  <2> DEFINE a == IF r = q THEN i + d ELSE i
             b == IF s = q THEN j + d ELSE j
  <2>1. a \in Nat /\ b \in Nat /\ LocalHolds(r, a, v) /\ LocalHolds(s, b, v)
    BY <1>3, <1>11
  <2>2. r = s /\ a = b
    BY <2>1 DEF QueuedOnce
  <2> QED BY <2>2
<1>12. QueuedOnce'
  BY <1>1, <1>2, <1>7, <1>11 DEF QueuedOnce
<1> QED BY <1>2, <1>7, <1>8, <1>9, <1>10, <1>12, <1>4, <1>5, <1>6 DEF Queued

LEMMA TakenFromPool ==
    ASSUME QueuedOnce, NEW u \in Tasks, PoolHolds(1, u), UNCHANGED local,
           DOMAIN poolWorkQueue \subseteq Nat \ {0},
           \A i \in Nat : \A v : PoolHolds(i, v)' <=> PoolHolds(i + 1, v) /\ i + 1 # 1
    PROVE  /\ Queued(u) /\ ~Queued(u)' /\ QueuedOnce'
           /\ \A v : Queued(v)' => Queued(v)
           /\ \A v : Queued(v) /\ v # u => Queued(v)'
<1>1. \A q \in HasLocal, i \in Nat : \A v : LocalHolds(q, i, v)' <=> LocalHolds(q, i, v)
  BY DEF LocalHolds
<1>2. \A v : InLocal(v)' <=> InLocal(v)
  BY <1>1 DEF InLocal
<1>3. ASSUME NEW v, InPool(v)' PROVE InPool(v)
  BY <1>3 DEF InPool
<1>4. ASSUME NEW v, InPool(v), v # u PROVE InPool(v)'
  <2>1. PICK i \in Nat : PoolHolds(i, v)
    BY <1>4 DEF InPool
  <2>2. i # 1 /\ i \in Nat \ {0}
    BY <2>1, <1>4 DEF PoolHolds
  <2>3. i - 1 \in Nat /\ (i - 1) + 1 = i
    BY <2>2
  <2>4. PoolHolds(i - 1, v)'
    BY <2>1, <2>2, <2>3
  <2> QED BY <2>3, <2>4 DEF InPool
<1>5. InPool(u) /\ ~InLocal(u)
  BY DEF InPool, QueuedOnce
<1>6. ASSUME InPool(u)' PROVE FALSE
  <2>1. PICK i \in Nat : PoolHolds(i, u)'
    BY <1>6 DEF InPool
  <2>2. i + 1 \in Nat /\ PoolHolds(i + 1, u) /\ i + 1 # 1
    BY <2>1
  <2> QED BY <2>2 DEF QueuedOnce
<1>7. ASSUME NEW v \in Tasks, NEW i \in Nat, NEW j \in Nat, PoolHolds(i, v)', PoolHolds(j, v)'
      PROVE  i = j
  <2>1. PoolHolds(i + 1, v) /\ PoolHolds(j + 1, v) /\ i + 1 \in Nat /\ j + 1 \in Nat
    BY <1>7
  <2>2. i + 1 = j + 1
    BY <2>1 DEF QueuedOnce
  <2> QED BY <2>2
<1>8. QueuedOnce'
  BY <1>1, <1>2, <1>3, <1>7 DEF QueuedOnce
<1> QED BY <1>2, <1>3, <1>4, <1>5, <1>6, <1>8 DEF Queued

-----------------------------------------------------------------------------
(* The steps of the tasks.                                                 *)

\* A thread takes u from wherever it is queued, and starts it.
LEMMA TakeStep ==
    ASSUME IInv, NEW t \in Threads, NEW u \in Tasks, Start(t, u),
           UNCHANGED <<program, future>>, TypeOK',
           Queued(u), ~Queued(u)', QueuedOnce',
           \A v : Queued(v)' => Queued(v),
           \A v : Queued(v) /\ v # u => Queued(v)'
    PROVE  IInv'
<1> DEFINE n == Len(stack[t])
<1>1. /\ TypeOK /\ QueuedOnce /\ RunsOnce /\ PendingPlaced /\ ClientsAtBottom /\ NotYetSubmitted
      /\ TasksTypeOK
  BY DEF IInv, TypeOK
<1>2. u \in Callables /\ u \notin Clients
  BY TaskAssumption DEF Callables
<1>3. /\ \A s \in Threads, k \in Nat :
           k \in DOMAIN stack'[s] <=> k \in DOMAIN stack[s] \/ (s = t /\ k = n + 1)
      /\ \A s \in Threads : \A k \in DOMAIN stack[s] : stack'[s][k] = stack[s][k]
      /\ n + 1 \notin DOMAIN stack[t] /\ n + 1 \in Nat
      /\ stack'[t][n + 1] = [task |-> u, ip |-> 1]
  BY <1>1, <1>2, StartFacts
<1>4. stack' \in [Threads -> Seq(Frames)]
  BY DEF TypeOK, TasksTypeOK
<1> HIDE DEF n
<1>5. \A s \in Threads, k \in Nat : \A v :
         Holds(s, k, v)' <=> Holds(s, k, v) \/ (s = t /\ k = n + 1 /\ v = u)
  BY <1>3 DEF Holds
<1>6. \A v : OnStack(v)' <=> OnStack(v) \/ v = u
  BY <1>3, <1>5 DEF OnStack
<1>7. ~OnStack(u)
  BY <1>1 DEF PendingPlaced
<1>8. RunsOnce'
  <2> SUFFICES ASSUME NEW v \in Tasks, NEW s \in Threads, NEW r \in Threads, NEW j \in Nat, NEW k \in Nat,
                      Holds(s, j, v)', Holds(r, k, v)'
               PROVE  s = r /\ j = k
    BY DEF RunsOnce
  <2>1. CASE v = u
    BY <2>1, <1>5, <1>7 DEF OnStack
  <2>2. CASE v # u
    BY <2>2, <1>1, <1>5 DEF RunsOnce
  <2> QED BY <2>1, <2>2
<1>9. PendingPlaced'
  <2> SUFFICES ASSUME NEW v \in Tasks
               PROVE  /\ ~(Queued(v)' /\ OnStack(v)')
                      /\ (future[v] = "pending" <=> Queued(v)' \/ OnStack(v)')
    BY DEF PendingPlaced
  <2>1. /\ ~(Queued(v) /\ OnStack(v))
        /\ (future[v] = "pending" <=> Queued(v) \/ OnStack(v))
    BY <1>1 DEF PendingPlaced
  <2> QED BY <2>1, <1>6
<1>10. ClientsAtBottom'
  <2> SUFFICES ASSUME NEW s \in Threads, NEW k \in DOMAIN stack'[s], stack'[s][k].task \in Clients
               PROVE  stack'[s][k].task = s /\ k = 1
    BY DEF ClientsAtBottom
  <2>1. k \in Nat
    BY <1>4
  <2>2. k \in DOMAIN stack[s]
    BY <2>1, <1>2, <1>3
  <2> QED BY <2>2, <1>1, <1>3 DEF ClientsAtBottom
<1>11. NotYetSubmitted'
  <2> SUFFICES ASSUME NEW v \in Tasks, NEW c \in Callables, NEW i \in Nat,
                      Submits(c, i, v)', Ahead(c, i)'
               PROVE  future[v] = "none"
    BY DEF NotYetSubmitted
  <2>1. Submits(c, i, v)
    BY DEF Submits
  <2>2. CASE c \in Tasks /\ (future[c] = "none" \/ Queued(c)')
    BY <2>1, <2>2, <1>1 DEF NotYetSubmitted, Ahead
  <2>3. ASSUME NEW s \in Threads, NEW k \in Nat, Holds(s, k, c)', stack'[s][k].ip <= i
        PROVE  future[v] = "none"
    <3>1. CASE Holds(s, k, c)
      <4>1. stack[s][k].ip <= i
        BY <3>1, <2>3, <1>3 DEF Holds
      <4> QED BY <3>1, <4>1, <2>1, <1>1 DEF NotYetSubmitted, Ahead
    <3>2. CASE c = u
      BY <3>2, <2>1, <1>1 DEF NotYetSubmitted, Ahead
    <3> QED BY <2>3, <3>1, <3>2, <1>5
  <2> QED BY <2>2, <2>3, <1>1 DEF Ahead
<1> QED BY <1>8, <1>9, <1>10, <1>11 DEF IInv

\* A thread submits the task u of its next call: the task is queued somewhere.
LEMMA AddStep ==
    ASSUME IInv, NEW t \in Threads, Calls(t, "submit"), Advance(t),
           future' = [future EXCEPT ![NextCall(t).task] = "pending"],
           UNCHANGED program, TypeOK',
           ~Queued(NextCall(t).task) => QueuedOnce',
           \A v : Queued(v)' <=> Queued(v) \/ v = NextCall(t).task
    PROVE  IInv'
<1> DEFINE u == NextCall(t).task
           n == Len(stack[t])
           c == Top(t).task
           i == Top(t).ip
<1>1. /\ TypeOK /\ QueuedOnce /\ RunsOnce /\ PendingPlaced /\ ClientsAtBottom /\ NotYetSubmitted
      /\ TasksTypeOK
      /\ Calls(t, "submit") /\ Advance(t)
      /\ future' = [future EXCEPT ![u] = "pending"]
      /\ UNCHANGED program
  BY DEF IInv, TypeOK
<1>2. /\ stack[t] # <<>> /\ n \in Nat /\ Holds(t, n, c) /\ c \in Callables /\ c # EmptyTask
      /\ i \in DOMAIN program[c] /\ i \in Nat /\ stack[t][n].ip = i
      /\ NextCall(t) = program[c][i] /\ NextCall(t).call = "submit" /\ u \in Tasks
  BY <1>1, CallFacts
<1>3. Submits(c, i, u)
  BY <1>2 DEF Submits
<1>4. /\ stack' \in [Threads -> Seq(Frames)]
      /\ \A s \in Threads : DOMAIN stack'[s] = DOMAIN stack[s]
      /\ \A s \in Threads : \A k \in DOMAIN stack[s] :
           stack'[s][k].task = stack[s][k].task /\ stack'[s][k].ip >= stack[s][k].ip
      /\ stack'[t][n].ip = i + 1
  BY <1>1, <1>2, AdvanceFacts
<1>5. /\ \A v : Queued(v)' <=> Queued(v) \/ v = u
      /\ ~Queued(u) => QueuedOnce'
  OBVIOUS
<1> HIDE DEF u, n, c, i
<1>6. \A s \in Threads, k \in Nat : \A v : Holds(s, k, v)' <=> Holds(s, k, v)
  BY <1>4 DEF Holds
<1>7. \A v : OnStack(v)' <=> OnStack(v)
  BY <1>6 DEF OnStack
<1>8. future \in [Tasks -> {"none", "pending", "ready", "broken"}]
  BY <1>1 DEF TypeOK, TasksTypeOK
<1>9. future[u] = "none"
  <2>1. Ahead(c, i)
    BY <1>2 DEF Ahead
  <2> QED BY <2>1, <1>1, <1>2, <1>3 DEF NotYetSubmitted
<1>10. ~Queued(u) /\ ~OnStack(u)
  BY <1>1, <1>2, <1>9 DEF PendingPlaced
<1>11. RunsOnce'
  BY <1>1, <1>6 DEF RunsOnce
<1>12. PendingPlaced'
  <2> SUFFICES ASSUME NEW v \in Tasks
               PROVE  /\ ~(Queued(v)' /\ OnStack(v)')
                      /\ (future'[v] = "pending" <=> Queued(v)' \/ OnStack(v)')
    BY DEF PendingPlaced
  <2>1. /\ ~(Queued(v) /\ OnStack(v))
        /\ (future[v] = "pending" <=> Queued(v) \/ OnStack(v))
    BY <1>1 DEF PendingPlaced
  <2>2. CASE v = u
    BY <2>2, <1>1, <1>2, <1>5, <1>7, <1>8, <1>10
  <2>3. CASE v # u
    <3>1. future'[v] = future[v]
      BY <2>3, <1>1, <1>8
    <3> QED BY <2>1, <2>3, <3>1, <1>5, <1>7
  <2> QED BY <2>2, <2>3
<1>13. ClientsAtBottom'
  <2> SUFFICES ASSUME NEW s \in Threads, NEW k \in DOMAIN stack'[s], stack'[s][k].task \in Clients
               PROVE  stack'[s][k].task = s /\ k = 1
    BY DEF ClientsAtBottom
  <2>1. k \in DOMAIN stack[s] /\ stack'[s][k].task = stack[s][k].task
    BY <1>4
  <2> QED BY <2>1, <1>1 DEF ClientsAtBottom
<1>14. NotYetSubmitted'
  <2> SUFFICES ASSUME NEW v \in Tasks, NEW d \in Callables, NEW j \in Nat,
                      Submits(d, j, v)', Ahead(d, j)'
               PROVE  future'[v] = "none"
    BY DEF NotYetSubmitted
  <2>1. Submits(d, j, v)
    BY <1>1 DEF Submits
  <2>2. CASE v = u
    <3>1. d = c /\ j = i
      BY <2>1, <2>2, <1>1, <1>2, <1>3, ProgramFacts
    <3>2. ASSUME d \in Tasks, future'[d] = "none" \/ Queued(d)' PROVE FALSE
      <4>1. OnStack(d)
        BY <3>1, <1>2 DEF OnStack
      <4>2. future[d] = "pending" /\ ~Queued(d) /\ d # u
        BY <3>2, <4>1, <1>1, <1>10 DEF PendingPlaced
      <4> QED BY <3>2, <4>2, <1>1, <1>5, <1>8
    <3>3. ASSUME NEW s \in Threads, NEW k \in Nat, Holds(s, k, d)', stack'[s][k].ip <= j PROVE FALSE
      <4>1. Holds(s, k, c)
        BY <3>1, <3>3, <1>6
      <4>2. CASE c \in Tasks
        <5>1. s = t /\ k = n
          BY <4>1, <4>2, <1>1, <1>2 DEF RunsOnce
        <5> QED BY <3>1, <5>1, <3>3, <1>2, <1>4
      <4>3. CASE c \in Clients
        <5>1. s = t /\ k = n
          BY <4>1, <4>3, <1>1, <1>2 DEF ClientsAtBottom, Holds
        <5> QED BY <3>1, <5>1, <3>3, <1>2, <1>4
      <4> QED BY <4>2, <4>3, <1>2 DEF Callables
    <3> QED BY <2>2, <3>1, <3>2, <3>3 DEF Ahead
  <2>3. CASE v # u
    <3>1. future'[v] = future[v]
      BY <2>3, <1>1, <1>8
    <3>2. CASE d \in Tasks /\ (future'[d] = "none" \/ Queued(d)')
      <4>1. future[d] = "none" \/ Queued(d)
        BY <3>2, <1>1, <1>2, <1>5, <1>8, <1>9
      <4>2. Ahead(d, j)
        BY <3>2, <4>1 DEF Ahead
      <4> QED BY <3>1, <4>2, <2>1, <1>1 DEF NotYetSubmitted
    <3>3. ASSUME NEW s \in Threads, NEW k \in Nat, Holds(s, k, d)', stack'[s][k].ip <= j
          PROVE  future'[v] = "none"
      <4>1. Holds(s, k, d)
        BY <3>3, <1>6
      <4>2. stack[s][k].ip <= j
        <5>1. k \in DOMAIN stack[s]
          BY <4>1 DEF Holds
        <5>2. stack[s][k].ip \in Nat
          BY <5>1, <1>1, StackFacts
        <5>3. stack'[s][k].ip \in Nat
          <6>1. stack'[s] \in Seq(Frames) /\ k \in DOMAIN stack'[s]
            BY <5>1, <1>4
          <6>2. stack'[s][k] \in Frames
            BY <6>1
          <6> QED BY <6>2 DEF Frames
        <5> QED BY <5>1, <5>2, <5>3, <3>3, <1>4
      <4> QED BY <3>1, <4>1, <4>2, <2>1, <1>1 DEF NotYetSubmitted, Ahead
    <3> QED BY <3>2, <3>3, <2>3 DEF Ahead
  <2> QED BY <2>2, <2>3
<1> QED BY <1>5, <1>10, <1>11, <1>12, <1>13, <1>14 DEF IInv

\* A callable returns; the future of a task is ready.
LEMMA FinishStep ==
    ASSUME IInv, NEW t \in Threads, Finish(t),
           UNCHANGED <<program, local, poolWorkQueue>>, TypeOK'
    PROVE  IInv'
<1> DEFINE n == Len(stack[t])
           u == Top(t).task
<1>1. /\ TypeOK /\ QueuedOnce /\ RunsOnce /\ PendingPlaced /\ ClientsAtBottom /\ NotYetSubmitted
      /\ TasksTypeOK /\ Finish(t) /\ QueuedOnce'
      /\ UNCHANGED <<program, local, poolWorkQueue>>
  BY DEF IInv, TypeOK, QueuedOnce, InPool, InLocal, PoolHolds, LocalHolds
<1>2. /\ stack' \in [Threads -> Seq(Frames)]
      /\ n \in DOMAIN stack[t] /\ n \in Nat
      /\ \A s \in Threads, k \in Nat :
           k \in DOMAIN stack'[s] <=> k \in DOMAIN stack[s] /\ ~(s = t /\ k = n)
      /\ \A s \in Threads : \A k \in DOMAIN stack'[s] : stack'[s][k] = stack[s][k]
  BY <1>1, FinishFacts, StackFacts
<1>3. Holds(t, n, u) /\ u \in Callables
  BY <1>1, <1>2, StackFacts DEF Holds, Top
<1>4. /\ future \in [Tasks -> {"none", "pending", "ready", "broken"}]
      /\ future' = IF u \in Tasks THEN [future EXCEPT ![u] = "ready"] ELSE future
  BY <1>1 DEF TypeOK, TasksTypeOK, Finish
<1> HIDE DEF n, u
<1>5. \A s \in Threads, k \in Nat : \A v : Holds(s, k, v)' <=> Holds(s, k, v) /\ ~(s = t /\ k = n)
  BY <1>2 DEF Holds
<1>6. \A v : OnStack(v)' => OnStack(v)
  BY <1>5 DEF OnStack
<1>7. \A v \in Tasks : OnStack(v)' <=> OnStack(v) /\ v # u
  <2> SUFFICES ASSUME NEW v \in Tasks PROVE OnStack(v)' <=> OnStack(v) /\ v # u
    OBVIOUS
  <2>1. CASE v = u
    BY <2>1, <1>1, <1>2, <1>3, <1>5 DEF OnStack, RunsOnce
  <2>2. CASE v # u
    <3>1. \A s \in Threads, k \in Nat : Holds(s, k, v) => ~(s = t /\ k = n)
      BY <2>2, <1>3 DEF Holds
    <3> QED BY <2>2, <3>1, <1>5 DEF OnStack
  <2> QED BY <2>1, <2>2
<1>8. u \in Tasks => future[u] = "pending" /\ ~Queued(u)
  BY <1>1, <1>2, <1>3 DEF PendingPlaced, OnStack
<1>9. \A v \in Tasks : (future'[v] = "none" <=> future[v] = "none")
  BY <1>4, <1>8
<1>10. \A v : Queued(v)' <=> Queued(v)
  BY <1>1 DEF Queued, InPool, InLocal, PoolHolds, LocalHolds
<1>11. RunsOnce'
  BY <1>1, <1>5 DEF RunsOnce
<1>12. PendingPlaced'
  <2> SUFFICES ASSUME NEW v \in Tasks
               PROVE  /\ ~(Queued(v)' /\ OnStack(v)')
                      /\ (future'[v] = "pending" <=> Queued(v)' \/ OnStack(v)')
    BY DEF PendingPlaced
  <2>1. /\ ~(Queued(v) /\ OnStack(v))
        /\ (future[v] = "pending" <=> Queued(v) \/ OnStack(v))
    BY <1>1 DEF PendingPlaced
  <2>2. CASE v = u
    <3>1. future'[v] = "ready" /\ ~Queued(v)
      BY <2>2, <1>4, <1>8
    <3> QED BY <2>2, <3>1, <1>7, <1>10
  <2>3. CASE v # u
    <3>1. future'[v] = future[v]
      BY <2>3, <1>4
    <3> QED BY <2>1, <2>3, <3>1, <1>7, <1>10
  <2> QED BY <2>2, <2>3
<1>13. ClientsAtBottom'
  <2> SUFFICES ASSUME NEW s \in Threads, NEW k \in DOMAIN stack'[s], stack'[s][k].task \in Clients
               PROVE  stack'[s][k].task = s /\ k = 1
    BY DEF ClientsAtBottom
  <2>1. k \in Nat
    BY <1>2
  <2> QED BY <2>1, <1>1, <1>2 DEF ClientsAtBottom
<1>14. NotYetSubmitted'
  <2> SUFFICES ASSUME NEW v \in Tasks, NEW c \in Callables, NEW i \in Nat,
                      Submits(c, i, v)', Ahead(c, i)'
               PROVE  future[v] = "none"
    BY <1>9 DEF NotYetSubmitted
  <2>1. Submits(c, i, v)
    BY <1>1 DEF Submits
  <2>2. CASE c \in Tasks /\ (future'[c] = "none" \/ Queued(c)')
    BY <2>1, <2>2, <1>1, <1>9, <1>10 DEF NotYetSubmitted, Ahead
  <2>3. ASSUME NEW s \in Threads, NEW k \in Nat, Holds(s, k, c)', stack'[s][k].ip <= i
        PROVE  future[v] = "none"
    <3>1. Holds(s, k, c) /\ stack[s][k].ip <= i
      BY <2>3, <1>2, <1>5 DEF Holds
    <3> QED BY <3>1, <2>1, <1>1 DEF NotYetSubmitted, Ahead
  <2> QED BY <2>2, <2>3 DEF Ahead
<1> QED BY <1>1, <1>11, <1>12, <1>13, <1>14 DEF IInv

\* A call that only goes on, and one that changes neither stacks, queues nor
\* futures.
LEMMA AdvanceStep ==
    ASSUME IInv, NEW t \in Threads, stack[t] # <<>>, Advance(t),
           UNCHANGED <<program, future, local, poolWorkQueue>>, TypeOK'
    PROVE  IInv'
<1>1. /\ TypeOK /\ QueuedOnce /\ RunsOnce /\ PendingPlaced /\ ClientsAtBottom /\ NotYetSubmitted
      /\ TasksTypeOK
  BY DEF IInv, TypeOK
<1>2. /\ stack' \in [Threads -> Seq(Frames)]
      /\ \A s \in Threads : DOMAIN stack'[s] = DOMAIN stack[s]
      /\ \A s \in Threads : \A k \in DOMAIN stack[s] :
           stack'[s][k].task = stack[s][k].task /\ stack'[s][k].ip >= stack[s][k].ip
  BY <1>1, AdvanceFacts
<1>3. \A s \in Threads, k \in Nat : \A v : Holds(s, k, v)' <=> Holds(s, k, v)
  BY <1>2 DEF Holds
<1>4. /\ \A v : OnStack(v)' <=> OnStack(v)
      /\ \A v : Queued(v)' <=> Queued(v)
  BY <1>3 DEF OnStack, Queued, InPool, InLocal, PoolHolds, LocalHolds
<1>5. QueuedOnce' /\ RunsOnce' /\ PendingPlaced'
  BY <1>1, <1>3, <1>4 DEF QueuedOnce, RunsOnce, PendingPlaced, InPool, InLocal, PoolHolds, LocalHolds
<1>6. ClientsAtBottom'
  <2> SUFFICES ASSUME NEW s \in Threads, NEW k \in DOMAIN stack'[s], stack'[s][k].task \in Clients
               PROVE  stack'[s][k].task = s /\ k = 1
    BY DEF ClientsAtBottom
  <2>1. k \in DOMAIN stack[s] /\ stack'[s][k].task = stack[s][k].task
    BY <1>2
  <2> QED BY <2>1, <1>1 DEF ClientsAtBottom
<1>7. NotYetSubmitted'
  <2> SUFFICES ASSUME NEW v \in Tasks, NEW c \in Callables, NEW i \in Nat,
                      Submits(c, i, v)', Ahead(c, i)'
               PROVE  future[v] = "none"
    BY DEF NotYetSubmitted
  <2>1. Submits(c, i, v)
    BY DEF Submits
  <2>2. CASE c \in Tasks /\ (future'[c] = "none" \/ Queued(c)')
    BY <2>1, <2>2, <1>1, <1>4 DEF NotYetSubmitted, Ahead
  <2>3. ASSUME NEW s \in Threads, NEW k \in Nat, Holds(s, k, c)', stack'[s][k].ip <= i
        PROVE  future[v] = "none"
    <3>1. Holds(s, k, c) /\ k \in DOMAIN stack[s]
      BY <2>3, <1>3, SMTT(30) DEF Holds
    <3>2. stack[s][k].ip \in Nat
      BY <3>1, <1>1, StackFacts
    <3>3. stack'[s] \in Seq(Frames) /\ k \in DOMAIN stack'[s]
      BY <3>1, <1>2
    <3>4. stack'[s][k] \in Frames
      BY <3>3
    <3>5. stack'[s][k].ip \in Nat
      BY <3>4 DEF Frames
    <3>6. stack[s][k].ip <= i
      BY <2>3, <3>1, <3>2, <3>5, <1>2
    <3> QED BY <3>1, <3>6, <2>1, <1>1 DEF NotYetSubmitted, Ahead
  <2> QED BY <2>2, <2>3 DEF Ahead
<1> QED BY <1>5, <1>6, <1>7 DEF IInv

LEMMA TasksUntouched ==
    ASSUME IInv, UNCHANGED <<program, stack, future, local, poolWorkQueue>>, TypeOK'
    PROVE  IInv'
<1>1. QueuedOnce /\ RunsOnce /\ PendingPlaced /\ ClientsAtBottom /\ NotYetSubmitted
  BY DEF IInv
<1>2. \A v : Queued(v)' <=> Queued(v)
  BY DEF Queued, InPool, InLocal, PoolHolds, LocalHolds
<1>3. QueuedOnce' /\ RunsOnce' /\ ClientsAtBottom'
  BY <1>1 DEF QueuedOnce, InPool, InLocal, PoolHolds, LocalHolds, RunsOnce, ClientsAtBottom, Holds
<1>4. PendingPlaced'
  BY <1>1, <1>2 DEF PendingPlaced, OnStack, Holds
<1>5. NotYetSubmitted'
  BY <1>1, <1>2 DEF NotYetSubmitted, Submits, Ahead, Holds
<1> QED BY <1>3, <1>4, <1>5 DEF IInv

-----------------------------------------------------------------------------
(* The actions that take a task.                                           *)

LEMMA TypeFacts ==
    ASSUME TypeOK
    PROVE  /\ program \in Programs /\ stack \in [Threads -> Seq(Frames)]
           /\ future \in [Tasks -> {"none", "pending", "ready", "broken"}]
           /\ poolWorkQueue \in Seq(Tasks) /\ local \in [HasLocal -> Seq(Tasks)]
           /\ pc \in [Threads -> Steps] /\ scan \in [Threads -> 0 .. NumThreads]
           /\ ranPaused \in [Workers -> Nat] /\ NumThreads \in Nat
           /\ Workers \subseteq HasLocal /\ HasLocal \subseteq Threads
           /\ DOMAIN poolWorkQueue \subseteq Nat \ {0}
           /\ \A q \in HasLocal : local[q] \in Seq(Tasks) /\ DOMAIN local[q] \subseteq Nat \ {0}
<1>1. poolWorkQueue \in Seq(Tasks) /\ local \in [HasLocal -> Seq(Tasks)]
  BY DEF TypeOK
<1>2. \A q \in HasLocal : local[q] \in Seq(Tasks) /\ DOMAIN local[q] \subseteq Nat \ {0}
  BY <1>1
<1>3. DOMAIN poolWorkQueue \subseteq Nat \ {0}
  BY <1>1
<1> QED
  BY <1>1, <1>2, <1>3, TaskAssumption, PoolAssumption DEF TypeOK, TasksTypeOK, HasLocal, Threads

LEMMA BeginTypes ==
    ASSUME TypeOK, NEW t \in Threads, NEW u \in Tasks, Begin(t, u)
    PROVE  /\ stack' \in [Threads -> Seq(Frames)] /\ Start(t, u)
           /\ pc' \in [Threads -> Steps] /\ ranPaused' \in [Workers -> Nat]
<1>1. TasksTypeOK /\ u \in Callables /\ pc \in [Threads -> Steps] /\ ranPaused \in [Workers -> Nat]
  BY DEF TypeOK, Callables
<1>2. Start(t, u) /\ pc' \in [Threads -> Steps]
  BY <1>1 DEF Begin, Goto, Steps
<1>3. ranPaused' \in [Workers -> Nat]
  <2>1. ranPaused' = IF pausedQ /\ t \in Workers /\ stack[t] = <<>>
                     THEN [ranPaused EXCEPT ![t] = @ + 1] ELSE ranPaused
    BY DEF Begin
  <2> QED BY <1>1, <2>1
<1> QED BY <1>1, <1>2, <1>3, StartFacts

\* A queue loses its first task, or its last one.
LEMMA LocalTailTaken ==
    ASSUME IInv, NEW q \in HasLocal, NEW u \in Tasks, u = Head(local[q]), local[q] # <<>>,
           local' = [local EXCEPT ![q] = Tail(@)], poolWorkQueue' = poolWorkQueue
    PROVE  /\ local' \in [HasLocal -> Seq(Tasks)]
           /\ Queued(u) /\ ~Queued(u)' /\ QueuedOnce'
           /\ \A v : Queued(v)' => Queued(v)
           /\ \A v : Queued(v) /\ v # u => Queued(v)'
           /\ \A r \in HasLocal : /\ In(r, u) => r = q
                                  /\ \A v : v # u => (In(r, v)' <=> In(r, v))
<1>1. /\ local \in [HasLocal -> Seq(Tasks)] /\ local[q] \in Seq(Tasks)
      /\ DOMAIN local[q] \subseteq Nat \ {0} /\ QueuedOnce
  BY TypeFacts DEF IInv
<1>2. /\ Tail(local[q]) \in Seq(Tasks) /\ Head(local[q]) = local[q][1] /\ 1 \in DOMAIN local[q]
      /\ \A i \in Nat : i \in DOMAIN Tail(local[q]) <=> i + 1 \in DOMAIN local[q] /\ i + 1 # 1
      /\ \A i \in DOMAIN Tail(local[q]) : Tail(local[q])[i] = local[q][i + 1]
  BY <1>1, TailPlaces
<1>3. local'[q] = Tail(local[q]) /\ \A r \in HasLocal : r # q => local'[r] = local[r]
  BY <1>1
<1>4. \A i \in Nat : \A v : LocalHolds(q, i, v)' <=> LocalHolds(q, i + 1, v) /\ i + 1 # 1
  BY <1>2, <1>3 DEF LocalHolds
<1>5. LocalHolds(q, 1, u)
  BY <1>2 DEF LocalHolds
<1>6. local' \in [HasLocal -> Seq(Tasks)]
  BY <1>1, <1>2
<1> QED BY <1>1, <1>3, <1>4, <1>5, <1>6, TakenFromLocal

LEMMA LocalBackTaken ==
    ASSUME IInv, NEW q \in HasLocal, NEW u \in Tasks, u = local[q][Len(local[q])], local[q] # <<>>,
           local' = [local EXCEPT ![q] = PopBack(@)], poolWorkQueue' = poolWorkQueue
    PROVE  /\ local' \in [HasLocal -> Seq(Tasks)]
           /\ Queued(u) /\ ~Queued(u)' /\ QueuedOnce'
           /\ \A v : Queued(v)' => Queued(v)
           /\ \A v : Queued(v) /\ v # u => Queued(v)'
           /\ \A r \in HasLocal : /\ In(r, u) => r = q
                                  /\ \A v : v # u => (In(r, v)' <=> In(r, v))
<1>1. /\ local \in [HasLocal -> Seq(Tasks)] /\ local[q] \in Seq(Tasks)
      /\ DOMAIN local[q] \subseteq Nat \ {0} /\ QueuedOnce
  BY TypeFacts DEF IInv
<1>2. PICK m \in Nat \ {0} : m = Len(local[q])
  BY <1>1
<1>3. /\ PopBack(local[q]) \in Seq(Tasks) /\ m \in DOMAIN local[q] /\ u = local[q][m]
      /\ \A i \in Nat : i \in DOMAIN PopBack(local[q]) <=> i \in DOMAIN local[q] /\ i # m
      /\ \A i \in DOMAIN PopBack(local[q]) : PopBack(local[q])[i] = local[q][i]
  BY <1>1, <1>2, BackPlaces
<1>4. local'[q] = PopBack(local[q]) /\ \A r \in HasLocal : r # q => local'[r] = local[r]
  BY <1>1
<1>5. \A i \in Nat : \A v : LocalHolds(q, i, v)' <=> LocalHolds(q, i + 0, v) /\ i + 0 # m
  BY <1>3, <1>4 DEF LocalHolds
<1>6. LocalHolds(q, m, u)
  BY <1>3 DEF LocalHolds
<1>7. local' \in [HasLocal -> Seq(Tasks)]
  BY <1>1, <1>3
<1>8. 0 \in {0, 1} /\ (0 = 1 => m = 1)
  OBVIOUS
<1> HIDE DEF IInv
<1> QED BY <1>1, <1>4, <1>5, <1>6, <1>7, <1>8, TakenFromLocal

LEMMA PopLocalStep ==
    ASSUME IInv, NEW t \in Threads, PopLocal(t)
    PROVE  IInv'
<1>1. /\ TypeOK
      /\ UNCHANGED <<program, future, done, poolWorkQueue, started, life, scan, pausedQ, workersMutex, pausePc>>
  BY DEF IInv, PopLocal
<1>2. CASE t \in HasLocal /\ local[t] # <<>>
  <2>1. PICK u \in Tasks : u = Head(local[t])
    <3>1. local[t] \in Seq(Tasks)
      BY <1>1, <1>2, TypeFacts
    <3> QED BY <3>1, <1>2, TailPlaces
  <2>2. Begin(t, u) /\ local' = [local EXCEPT ![t] = Tail(@)]
    BY <1>2, <2>1 DEF PopLocal
  <2>3. /\ local' \in [HasLocal -> Seq(Tasks)]
        /\ Queued(u) /\ ~Queued(u)' /\ QueuedOnce'
        /\ \A v : Queued(v)' => Queued(v)
        /\ \A v : Queued(v) /\ v # u => Queued(v)'
    BY <1>1, <1>2, <2>1, <2>2, LocalTailTaken
  <2>4. TypeOK' /\ Start(t, u)
    BY <1>1, <2>2, <2>3, BeginTypes DEF TypeOK, TasksTypeOK, P!PauseTypeOK
  <2> QED BY <1>1, <2>3, <2>4, TakeStep
<1>3. CASE ~(t \in HasLocal /\ local[t] # <<>>)
  <2>1. pc' = [pc EXCEPT ![t] = "pool"] /\ UNCHANGED <<stack, local, ranPaused>>
    BY <1>3 DEF PopLocal, Goto
  <2>2. TypeOK'
    BY <1>1, <2>1 DEF TypeOK, TasksTypeOK, P!PauseTypeOK, Steps
  <2> QED BY <1>1, <2>1, <2>2, TasksUntouched
<1> QED BY <1>2, <1>3

LEMMA PopPoolStep ==
    ASSUME IInv, NEW t \in Threads, PopPool(t)
    PROVE  IInv'
<1>1. /\ TypeOK /\ QueuedOnce
      /\ UNCHANGED <<program, future, done, local, started, life, pausedQ, workersMutex, pausePc>>
  BY DEF IInv, PopPool
<1>2. CASE poolWorkQueue # <<>>
  <2>1. poolWorkQueue \in Seq(Tasks) /\ DOMAIN poolWorkQueue \subseteq Nat \ {0}
    BY <1>1, TypeFacts
  <2>2. poolWorkQueue' = Tail(poolWorkQueue) /\ UNCHANGED scan
    BY <1>2 DEF PopPool
  <2>3. /\ Tail(poolWorkQueue) \in Seq(Tasks) /\ Head(poolWorkQueue) \in Tasks
        /\ Head(poolWorkQueue) = poolWorkQueue[1] /\ 1 \in DOMAIN poolWorkQueue
        /\ \A i \in Nat : i \in DOMAIN Tail(poolWorkQueue) <=> i + 1 \in DOMAIN poolWorkQueue /\ i + 1 # 1
        /\ \A i \in DOMAIN Tail(poolWorkQueue) : Tail(poolWorkQueue)[i] = poolWorkQueue[i + 1]
    BY <1>2, <2>1, TailPlaces
  <2>4. PICK u \in Tasks : u = Head(poolWorkQueue)
    BY <2>3
  <2>5. Begin(t, u)
    BY <1>2, <2>4 DEF PopPool
  <2>6. \A i \in Nat : \A v : PoolHolds(i, v)' <=> PoolHolds(i + 1, v) /\ i + 1 # 1
    BY <2>2, <2>3 DEF PoolHolds
  <2>7. PoolHolds(1, u)
    BY <2>3, <2>4 DEF PoolHolds
  <2>8. /\ Queued(u) /\ ~Queued(u)' /\ QueuedOnce'
        /\ \A v : Queued(v)' => Queued(v)
        /\ \A v : Queued(v) /\ v # u => Queued(v)'
    BY <1>1, <2>1, <2>6, <2>7, TakenFromPool
  <2>9. TypeOK' /\ Start(t, u)
    BY <1>1, <2>2, <2>3, <2>5, BeginTypes DEF TypeOK, TasksTypeOK, P!PauseTypeOK
  <2> QED BY <1>1, <2>8, <2>9, TakeStep
<1>3. CASE poolWorkQueue = <<>>
  <2>1. /\ pc' = [pc EXCEPT ![t] = "steal"] /\ scan' = [scan EXCEPT ![t] = 0]
        /\ UNCHANGED <<stack, poolWorkQueue, ranPaused>>
    BY <1>3 DEF PopPool, Goto
  <2>2. TypeOK'
    BY <1>1, <2>1, TaskAssumption DEF TypeOK, TasksTypeOK, P!PauseTypeOK, Steps
  <2> QED BY <1>1, <2>1, <2>2, TasksUntouched
<1> QED BY <1>2, <1>3

LEMMA VictimIsWorker ==
    ASSUME TypeOK, NEW t \in Threads, scan[t] < NumThreads
    PROVE  Victim(t) \in Workers
<1>1. scan[t] \in Nat /\ NumThreads \in Nat /\ NumThreads > 0 /\ myIndex(t) \in Nat
  <2>1. scan[t] \in Nat /\ NumThreads \in Nat /\ NumThreads > 0
    BY TaskAssumption DEF TypeOK
  <2>2. CASE t \in Workers
    BY <2>1, <2>2 DEF myIndex, Workers
  <2>3. CASE t \notin Workers /\ t \in Foreign
    BY <2>1, <2>3, PoolAssumption DEF myIndex
  <2>4. CASE t \notin Workers /\ t \notin Foreign
    BY <2>1, <2>4 DEF myIndex
  <2> QED BY <2>2, <2>3, <2>4
<1>2. myIndex(t) + scan[t] + 1 \in Nat
  BY <1>1
<1>3. \A a \in Nat : a % NumThreads \in 0 .. NumThreads - 1
  BY <1>1
<1> QED BY <1>2, <1>3 DEF Victim, Workers

LEMMA StealStep ==
    ASSUME IInv, NEW t \in Threads, Steal(t)
    PROVE  IInv'
<1>1. /\ TypeOK /\ scan[t] < NumThreads
      /\ UNCHANGED <<program, future, done, poolWorkQueue, started, life, pausedQ, workersMutex, pausePc>>
  BY DEF IInv, Steal
<1>2. PICK r \in HasLocal : r = Victim(t)
  BY <1>1, VictimIsWorker DEF HasLocal
<1>3. CASE local[r] # <<>>
  <2>1. PICK u \in Tasks : u = local[r][Len(local[r])]
    <3>1. local[r] \in Seq(Tasks)
      BY <1>1, <1>2, TypeFacts
    <3> QED BY <3>1, <1>3, BackPlaces
  <2>2. Begin(t, u) /\ local' = [local EXCEPT ![r] = PopBack(@)] /\ UNCHANGED scan
    BY <1>2, <1>3, <2>1 DEF Steal
  <2>3. /\ local' \in [HasLocal -> Seq(Tasks)]
        /\ Queued(u) /\ ~Queued(u)' /\ QueuedOnce'
        /\ \A v : Queued(v)' => Queued(v)
        /\ \A v : Queued(v) /\ v # u => Queued(v)'
    BY <1>1, <1>3, <2>1, <2>2, LocalBackTaken
  <2>4. TypeOK' /\ Start(t, u)
    BY <1>1, <2>2, <2>3, BeginTypes DEF TypeOK, TasksTypeOK, P!PauseTypeOK
  <2> QED BY <1>1, <2>3, <2>4, TakeStep
<1>4. CASE local[r] = <<>>
  <2>1. scan' = [scan EXCEPT ![t] = @ + 1] /\ UNCHANGED <<stack, pc, local, ranPaused>>
    BY <1>2, <1>4 DEF Steal
  <2>2. scan[t] \in 0 .. NumThreads /\ NumThreads \in Nat /\ scan \in [Threads -> 0 .. NumThreads]
    BY <1>1, TypeFacts
  <2>3. scan[t] + 1 \in 0 .. NumThreads
    BY <1>1, <2>2
  <2>4. scan' \in [Threads -> 0 .. NumThreads]
    BY <2>1, <2>2, <2>3
  <2>5. TypeOK'
    BY <1>1, <2>1, <2>4 DEF TypeOK, TasksTypeOK, P!PauseTypeOK
  <2> QED BY <1>1, <2>1, <2>5, TasksUntouched
<1> QED BY <1>3, <1>4

LEMMA ForeignLoopStep ==
    ASSUME IInv, NEW t \in Threads, ForeignLoop(t)
    PROVE  IInv'
<1>1. /\ TypeOK /\ t \in HasLocal /\ local[t] # <<>>
      /\ Start(t, Head(local[t])) /\ pc' = [pc EXCEPT ![t] = "run"]
      /\ local' = [local EXCEPT ![t] = Tail(@)]
      /\ UNCHANGED <<program, future, done, poolWorkQueue, started, life, scan, pauseVars>>
  BY DEF IInv, ForeignLoop, Goto, HasLocal
<1>2. PICK u \in Tasks : u = Head(local[t])
  <2>1. local[t] \in Seq(Tasks)
    BY <1>1, TypeFacts
  <2> QED BY <2>1, <1>1, TailPlaces
<1>3. /\ local' \in [HasLocal -> Seq(Tasks)]
      /\ Queued(u) /\ ~Queued(u)' /\ QueuedOnce'
      /\ \A v : Queued(v)' => Queued(v)
      /\ \A v : Queued(v) /\ v # u => Queued(v)'
  BY <1>1, <1>2, LocalTailTaken
<1>4. Start(t, u) /\ u \in Callables /\ TasksTypeOK
  BY <1>1, <1>2 DEF Callables, TypeOK
<1>5. stack' \in [Threads -> Seq(Frames)]
  BY <1>4, StartFacts
<1>6. TypeOK'
  BY <1>1, <1>3, <1>5 DEF TypeOK, TasksTypeOK, P!PauseTypeOK, Steps, pauseVars
<1> QED BY <1>1, <1>3, <1>4, <1>6, TakeStep

-----------------------------------------------------------------------------
(* The other actions of the threads.                                       *)

LEMMA SubmitStep ==
    ASSUME IInv, NEW t \in Threads, Submit(t)
    PROVE  IInv'
<1>1. /\ TypeOK /\ QueuedOnce /\ Calls(t, "submit") /\ Advance(t)
      /\ future' = [future EXCEPT ![NextCall(t).task] = "pending"]
      /\ UNCHANGED <<program, done, started, life, pc, scan, pauseVars>>
  BY DEF IInv, Submit
<1>2. PICK u \in Tasks : u = NextCall(t).task
  BY <1>1, CallFacts DEF TypeOK
<1>3. /\ poolWorkQueue \in Seq(Tasks) /\ local \in [HasLocal -> Seq(Tasks)]
      /\ DOMAIN poolWorkQueue \subseteq Nat \ {0}
      /\ \A q \in HasLocal : local[q] \in Seq(Tasks) /\ DOMAIN local[q] \subseteq Nat \ {0}
  BY <1>1, TypeFacts
<1>4. /\ poolWorkQueue' \in Seq(Tasks) /\ local' \in [HasLocal -> Seq(Tasks)]
      /\ \A v : Queued(v)' <=> Queued(v) \/ v = u
      /\ ~Queued(u) => QueuedOnce'
  <2>1. CASE t \in HasLocal
    <3>1. local' = [local EXCEPT ![t] = PushFront(@, u)] /\ poolWorkQueue' = poolWorkQueue
      BY <1>2, <2>1 DEF Submit
    <3>2. /\ PushFront(local[t], u) \in Seq(Tasks)
          /\ \A i \in Nat : i \in DOMAIN PushFront(local[t], u)
                              <=> i = 1 \/ (i > 1 /\ i - 1 \in DOMAIN local[t])
          /\ PushFront(local[t], u)[1] = u
          /\ \A i \in DOMAIN PushFront(local[t], u) :
                i # 1 => PushFront(local[t], u)[i] = local[t][i - 1]
      <4>1. PICK q \in Seq(Tasks) : q = local[t]
        BY <1>3, <2>1
      <4>2. /\ PushFront(q, u) \in Seq(Tasks)
            /\ \A i \in Nat : i \in DOMAIN PushFront(q, u) <=> i = 1 \/ (i > 1 /\ i - 1 \in DOMAIN q)
            /\ PushFront(q, u)[1] = u
            /\ \A i \in DOMAIN PushFront(q, u) : i # 1 => PushFront(q, u)[i] = q[i - 1]
        BY FrontPlaces
      <4> QED BY <4>1, <4>2
    <3>3. local'[t] = PushFront(local[t], u) /\ \A r \in HasLocal : r # t => local'[r] = local[r]
      BY <1>3, <2>1, <3>1
    <3>4. \A i \in Nat : \A v : LocalHolds(t, i, v)' <=> (i = 1 /\ v = u) \/ (i > 1 /\ LocalHolds(t, i - 1, v))
      BY <3>2, <3>3 DEF LocalHolds
    <3>5. \A r \in HasLocal, i \in Nat : \A v : r # t => (LocalHolds(r, i, v)' <=> LocalHolds(r, i, v))
      BY <3>3 DEF LocalHolds
    <3>6. /\ \A i \in Nat : \A v : PoolHolds(i, v)' <=> PoolHolds(i, v)
          /\ \A v : InPool(v)' <=> InPool(v)
      BY <3>1 DEF PoolHolds, InPool
    <3>7. \A r \in HasLocal, i \in Nat : \A v : LocalHolds(r, i, v) => i > 0
      BY <1>3 DEF LocalHolds
    <3>8. ASSUME NEW v, InLocal(v)' PROVE InLocal(v) \/ v = u
      <4>1. PICK r \in HasLocal, i \in Nat : LocalHolds(r, i, v)'
        BY <3>8 DEF InLocal
      <4>2. CASE r = t
        <5>1. CASE v = u BY <5>1
        <5>2. CASE v # u
          <6>1. i - 1 \in Nat /\ LocalHolds(t, i - 1, v)
            BY <4>1, <4>2, <5>2, <3>4
          <6> QED BY <2>1, <6>1 DEF InLocal
        <5> QED BY <5>1, <5>2
      <4>3. CASE r # t BY <4>1, <4>3, <3>5 DEF InLocal
      <4> QED BY <4>2, <4>3
    <3>9. ASSUME NEW v, InLocal(v) PROVE InLocal(v)'
      <4>1. PICK r \in HasLocal, i \in Nat : LocalHolds(r, i, v)
        BY <3>9 DEF InLocal
      <4>2. CASE r = t
        <5>1. i + 1 \in Nat /\ i + 1 > 1 /\ (i + 1) - 1 = i
          BY <4>1, <3>7
        <5>2. LocalHolds(t, i + 1, v)'
          BY <4>1, <4>2, <5>1, <3>4
        <5> QED BY <2>1, <5>1, <5>2 DEF InLocal
      <4>3. CASE r # t BY <4>1, <4>3, <3>5 DEF InLocal
      <4> QED BY <4>2, <4>3
    <3>10. InLocal(u)'
      <4>1. LocalHolds(t, 1, u)'
        BY <3>4
      <4> QED BY <2>1, <4>1 DEF InLocal
    <3>11. \A v : Queued(v)' <=> Queued(v) \/ v = u
      BY <3>6, <3>8, <3>9, <3>10 DEF Queued
    <3>12. ASSUME ~Queued(u) PROVE QueuedOnce'
      <4>1. ~InPool(u) /\ ~InLocal(u)
        BY <3>12 DEF Queued
      <4>2. ASSUME NEW v \in Tasks, NEW q \in HasLocal, NEW r \in HasLocal, NEW i \in Nat, NEW j \in Nat,
                   LocalHolds(q, i, v)', LocalHolds(r, j, v)'
            PROVE  q = r /\ i = j
        <5>1. CASE v = u
          <6>1. \A p \in HasLocal, k \in Nat : ~LocalHolds(p, k, u)
            BY <4>1 DEF InLocal
          <6>2. \A p \in HasLocal, k \in Nat : LocalHolds(p, k, u)' => p = t /\ k = 1
            BY <2>1, <3>4, <3>5, <6>1
          <6> QED BY <4>2, <5>1, <6>2
        <5>2. CASE v # u
          <6> DEFINE a == IF q = t THEN i - 1 ELSE i
                     b == IF r = t THEN j - 1 ELSE j
          <6>1. /\ a \in Nat /\ LocalHolds(q, a, v)
                /\ b \in Nat /\ LocalHolds(r, b, v)
            BY <4>2, <5>2, <3>4, <3>5
          <6>2. q = r /\ a = b
            BY <6>1, <1>1 DEF QueuedOnce
          <6> QED BY <6>2
        <5> QED BY <5>1, <5>2
      <4>3. ASSUME NEW v \in Tasks PROVE ~(InPool(v)' /\ InLocal(v)')
        BY <4>1, <3>6, <3>8, <1>1 DEF QueuedOnce
      <4> QED BY <4>2, <4>3, <3>6, <1>1 DEF QueuedOnce
    <3>13. local' \in [HasLocal -> Seq(Tasks)]
      BY <1>3, <3>1, <3>2
    <3> QED BY <1>3, <3>1, <3>11, <3>12, <3>13
  <2>2. CASE t \notin HasLocal
    <3>1. poolWorkQueue' = Append(poolWorkQueue, u) /\ local' = local
      BY <1>2, <2>2 DEF Submit
    <3>2. PICK n \in Nat : n = Len(poolWorkQueue)
      BY <1>3
    <3>3. /\ poolWorkQueue' \in Seq(Tasks) /\ DOMAIN poolWorkQueue = 1 .. n
          /\ DOMAIN poolWorkQueue' = 1 .. n + 1
          /\ \A i \in 1 .. n : poolWorkQueue'[i] = poolWorkQueue[i]
          /\ poolWorkQueue'[n + 1] = u
      BY <1>3, <3>1, <3>2
    <3>4. \A i \in Nat : \A v : PoolHolds(i, v)' <=> PoolHolds(i, v) \/ (i = n + 1 /\ v = u)
      BY <3>3 DEF PoolHolds
    <3>5. \A v : InPool(v)' <=> InPool(v) \/ v = u
      BY <3>4 DEF InPool
    <3>6. \A q \in HasLocal, i \in Nat : \A v : LocalHolds(q, i, v)' <=> LocalHolds(q, i, v)
      BY <3>1 DEF LocalHolds
    <3>7. \A v : InLocal(v)' <=> InLocal(v)
      BY <3>6 DEF InLocal
    <3>8. ASSUME ~Queued(u) PROVE QueuedOnce'
      <4>1. ~InPool(u) /\ ~InLocal(u)
        BY <3>8 DEF Queued
      <4>2. ASSUME NEW v \in Tasks, NEW i \in Nat, NEW j \in Nat, PoolHolds(i, v)', PoolHolds(j, v)'
            PROVE  i = j
        <5>1. CASE v = u
          BY <4>1, <4>2, <5>1, <3>4 DEF InPool
        <5>2. CASE v # u
          BY <4>2, <5>2, <3>4, <1>1 DEF QueuedOnce
        <5> QED BY <5>1, <5>2
      <4>3. ASSUME NEW v \in Tasks PROVE ~(InPool(v)' /\ InLocal(v)')
        BY <4>1, <3>5, <3>7, <1>1 DEF QueuedOnce
      <4> QED BY <4>2, <4>3, <3>6, <1>1 DEF QueuedOnce
    <3> QED BY <1>3, <3>1, <3>3, <3>5, <3>7, <3>8 DEF Queued
  <2> QED BY <2>1, <2>2
<1>5. stack' \in [Threads -> Seq(Frames)]
  BY <1>1, CallFacts, AdvanceFacts DEF TypeOK
<1>6. TypeOK'
  <2>1. future' \in [Tasks -> {"none", "pending", "ready", "broken"}]
    BY <1>1 DEF TypeOK, TasksTypeOK
  <2> QED BY <1>1, <1>4, <1>5, <2>1 DEF TypeOK, TasksTypeOK, P!PauseTypeOK, pauseVars
<1>7. /\ ~Queued(NextCall(t).task) => QueuedOnce'
      /\ \A v : Queued(v)' <=> Queued(v) \/ v = NextCall(t).task
  BY <1>2, <1>4
<1> QED BY <1>1, <1>6, <1>7, AddStep

LEMMA EndTaskStep ==
    ASSUME IInv, NEW t \in Threads, EndTask(t)
    PROVE  IInv'
<1>1. /\ TypeOK /\ Finish(t)
      /\ pc' = [pc EXCEPT ![t] = ReturnTo(t, Len(stack[t]) - 1)]
      /\ UNCHANGED <<program, done, poolWorkQueue, local, started, life, scan, pauseVars>>
  BY DEF IInv, EndTask, Goto, poolVars
<1>2. stack' \in [Threads -> Seq(Frames)]
  BY <1>1, FinishFacts DEF TypeOK
<1>3. future' \in [Tasks -> {"none", "pending", "ready", "broken"}]
  BY <1>1 DEF Finish, TypeOK, TasksTypeOK
<1>4. pc' \in [Threads -> Steps]
  BY <1>1 DEF TypeOK, ReturnTo, Steps
<1>5. TypeOK'
  BY <1>1, <1>2, <1>3, <1>4 DEF TypeOK, TasksTypeOK, P!PauseTypeOK, pauseVars
<1> QED BY <1>1, <1>5, FinishStep

LEMMA PauseTypes ==
    ASSUME TypeOK, NEW t \in Threads,
           P!NotPaused(t) \/ P!LeavePause(t) \/ P!EnterPause(t) \/ P!LockWorkers(t)
             \/ P!StillPaused(t) \/ P!Sleep(t) \/ P!SpuriousWake(t)
             \/ P!Pause(t) \/ P!Resume(t) \/ P!NotifyAll(t)
    PROVE  P!PauseTypeOK'
<1>1. P!PauseTypeOK
  BY DEF TypeOK
<1>2. CASE P!NotifyAll(t)
  BY <1>1, <1>2 DEF P!PauseTypeOK, P!NotifyAll, P!PauseSteps
<1>3. CASE P!NotPaused(t) \/ P!Pause(t)
  BY <1>1, <1>3 DEF P!PauseTypeOK, P!NotPaused, P!Pause, P!pauseVars
<1>4. CASE P!LeavePause(t) \/ P!EnterPause(t) \/ P!LockWorkers(t)
  BY <1>1, <1>4 DEF P!PauseTypeOK, P!LeavePause, P!EnterPause, P!LockWorkers, P!Move, P!PauseSteps
<1>5. CASE P!StillPaused(t) \/ P!Sleep(t) \/ P!SpuriousWake(t) \/ P!Resume(t)
  BY <1>1, <1>5 DEF P!PauseTypeOK, P!StillPaused, P!Sleep, P!SpuriousWake, P!Resume, P!Move, P!PauseSteps
<1> QED BY <1>2, <1>3, <1>4, <1>5

LEMMA LoopStep ==
    ASSUME IInv, NEW t \in Threads, Yield(t) \/ CheckDone(t) \/ CheckPause(t) \/ SpuriousWake(t)
    PROVE  IInv'
<1>1. TypeOK /\ UNCHANGED <<taskVars, poolVars, scan, ranPaused>>
  BY DEF IInv, Yield, CheckDone, CheckPause, SpuriousWake, pauseVars
<1>2. P!PauseTypeOK'
  <2>1. CASE Yield(t) \/ CheckDone(t)
    BY <1>1, <2>1 DEF Yield, CheckDone, TypeOK, P!PauseTypeOK, pauseVars
  <2>2. CASE CheckPause(t) \/ SpuriousWake(t)
    BY <1>1, <2>2, PauseTypes DEF CheckPause, SpuriousWake
  <2> QED BY <2>1, <2>2
<1>3. pc' \in [Threads -> Steps]
  BY <1>1 DEF Yield, CheckDone, CheckPause, SpuriousWake, Goto, ReturnTo, TypeOK, Steps
<1>4. UNCHANGED <<program, stack, future, done, poolWorkQueue, local, started, life, scan, ranPaused>>
  BY <1>1 DEF taskVars, poolVars
<1>5. TypeOK'
  BY <1>1, <1>2, <1>3, <1>4 DEF TypeOK, TasksTypeOK
<1> QED BY <1>4, <1>5, TasksUntouched

LEMMA CallStep ==
    ASSUME IInv, NEW t \in Threads, Get(t) \/ Help(t) \/ CallPause(t) \/ CallResume(t)
    PROVE  IInv'
<1>1. /\ TypeOK /\ UNCHANGED <<program, future, done, poolWorkQueue, local, started, life, scan>>
      /\ stack[t] # <<>>
  BY DEF IInv, Get, Help, CallPause, CallResume, poolVars, Calls
<1>2. P!PauseTypeOK'
  <2>1. CASE Get(t) \/ Help(t)
    BY <1>1, <2>1 DEF Get, Help, TypeOK, P!PauseTypeOK, pauseVars
  <2>2. CASE CallPause(t) \/ CallResume(t)
    BY <1>1, <2>2, PauseTypes DEF CallPause, CallResume
  <2> QED BY <2>1, <2>2
<1>3. pc' \in [Threads -> Steps]
  BY <1>1 DEF Get, Help, CallPause, CallResume, Goto, TypeOK, Steps
<1>4. ranPaused' \in [Workers -> Nat]
  BY <1>1 DEF Get, Help, CallPause, CallResume, TypeOK, pauseVars
<1>5. CASE Advance(t)
  <2>1. stack' \in [Threads -> Seq(Frames)]
    BY <1>1, <1>5, AdvanceFacts DEF TypeOK
  <2>2. TypeOK'
    BY <1>1, <1>2, <1>3, <1>4, <2>1 DEF TypeOK, TasksTypeOK
  <2> QED BY <1>1, <1>5, <2>2, AdvanceStep
<1>6. CASE UNCHANGED stack
  <2>1. TypeOK'
    BY <1>1, <1>2, <1>3, <1>4, <1>6 DEF TypeOK, TasksTypeOK
  <2> QED BY <1>1, <1>6, <2>1, TasksUntouched
<1> QED BY <1>5, <1>6 DEF Get, Help, CallPause, CallResume

-----------------------------------------------------------------------------
(* The constructor and the destructor.                                     *)

LEMMA OwnerKeeps ==
    ASSUME IInv, BuildQueues \/ StartThread \/ ConstructorFails \/ Constructed
                   \/ SetDone \/ DtorResume \/ DtorNotify \/ Finished \/ UNCHANGED vars
    PROVE  IInv'
<1>1. /\ TypeOK /\ NumThreads \in Nat /\ Owner \in Threads
      /\ UNCHANGED <<taskVars, poolWorkQueue, local, scan, ranPaused>>
  BY TaskAssumption DEF IInv, BuildQueues, StartThread, ConstructorFails, Constructed, SetDone,
        DtorResume, DtorNotify, Finished, vars, poolVars, pauseVars, Threads
<1>2. UNCHANGED <<program, stack, future>>
  BY <1>1 DEF taskVars
<1>3. P!PauseTypeOK'
  <2>1. CASE DtorResume \/ DtorNotify
    BY <1>1, <2>1, PauseTypes DEF DtorResume, DtorNotify
  <2>2. CASE UNCHANGED pauseVars
    BY <1>1, <2>2 DEF TypeOK, P!PauseTypeOK, pauseVars
  <2> QED BY <2>1, <2>2 DEF BuildQueues, StartThread, ConstructorFails, Constructed, SetDone, Finished, vars
<1>4. done' \in BOOLEAN /\ life' \in Lives
  BY <1>1 DEF BuildQueues, StartThread, ConstructorFails, Constructed, SetDone,
        DtorResume, DtorNotify, Finished, vars, poolVars, TypeOK, Lives
<1>5. started' \in 0 .. NumThreads /\ pc' \in [Threads -> Steps]
  <2>1. CASE StartThread
    <3>1. started' = started + 1 /\ started < NumThreads /\ started \in 0 .. NumThreads
      BY <1>1, <2>1 DEF StartThread, TypeOK
    <3>2. started' \in 0 .. NumThreads
      BY <1>1, <3>1
    <3>3. pc' \in [Threads -> Steps]
      BY <1>1, <2>1 DEF StartThread, Goto, TypeOK, Steps
    <3> QED BY <3>2, <3>3
  <2>2. CASE UNCHANGED <<started, pc>>
    BY <1>1, <2>2 DEF TypeOK
  <2> QED BY <2>1, <2>2 DEF BuildQueues, ConstructorFails, Constructed, SetDone,
             DtorResume, DtorNotify, Finished, vars, poolVars
<1>6. TypeOK'
  BY <1>1, <1>2, <1>3, <1>4, <1>5 DEF TypeOK, TasksTypeOK
<1> QED BY <1>1, <1>2, <1>6, TasksUntouched

\* What the members' destructors find.
Destroyed(v) == InPool(v) \/ \E q \in Workers, i \in Nat : LocalHolds(q, i, v)

LEMMA JoinFacts ==
    ASSUME TypeOK, Join
    PROVE  /\ \A v \in Tasks : future'[v] = IF Destroyed(v) THEN "broken" ELSE future[v]
           /\ \A q \in HasLocal, i \in Nat : \A v :
                LocalHolds(q, i, v)' <=> q \notin Workers /\ LocalHolds(q, i, v)
<1>1. local' = [q \in HasLocal |-> IF q \in Workers THEN <<>> ELSE local[q]]
  BY DEF Join
<1>2. /\ \A q \in HasLocal : local[q] \in Seq(Tasks)
      /\ poolWorkQueue \in Seq(Tasks) /\ Workers \subseteq HasLocal
  BY TypeFacts
<1>3. ASSUME NEW S, NEW q \in Seq(S), NEW v PROVE InQueue(v, q) > 0 <=> \E i \in Nat : i \in DOMAIN q /\ q[i] = v
  <2> DEFINE D == {i \in DOMAIN q : q[i] = v}
  <2>1. PICK n \in Nat : n = Len(q) /\ DOMAIN q = 1 .. n
    OBVIOUS
  <2>2. IsFiniteSet(1 .. n)
    BY FS_Interval
  <2>3. IsFiniteSet(D)
    BY <2>1, <2>2, FS_Subset
  <2>4. Cardinality(D) \in Nat /\ (Cardinality(D) = 0 <=> D = {})
    BY <2>3, FS_CardinalityType, FS_EmptySet
  <2>5. InQueue(v, q) = Cardinality(D)
    BY DEF InQueue
  <2>6. D # {} <=> \E i \in Nat : i \in DOMAIN q /\ q[i] = v
    BY <2>1
  <2> QED BY <2>4, <2>5, <2>6
<1>4. \A v \in Tasks : future'[v] = IF Destroyed(v) THEN "broken" ELSE future[v]
  <2> SUFFICES ASSUME NEW v \in Tasks
               PROVE  future'[v] = IF Destroyed(v) THEN "broken" ELSE future[v]
    OBVIOUS
  <2>1. InQueue(v, poolWorkQueue) > 0 <=> InPool(v)
    BY <1>2, <1>3 DEF InPool, PoolHolds
  <2>2. (\E q \in Workers : InQueue(v, local[q]) > 0) <=> \E q \in Workers, i \in Nat : LocalHolds(q, i, v)
    BY <1>2, <1>3 DEF LocalHolds
  <2>3. future'[v] = IF InQueue(v, poolWorkQueue) > 0 \/ \E q \in Workers : InQueue(v, local[q]) > 0
                     THEN "broken" ELSE future[v]
    BY DEF Join
  <2> QED BY <2>1, <2>2, <2>3 DEF Destroyed
<1>5. \A q \in HasLocal, i \in Nat : \A v : LocalHolds(q, i, v)' <=> q \notin Workers /\ LocalHolds(q, i, v)
  <2> SUFFICES ASSUME NEW q \in HasLocal, NEW i \in Nat, NEW v
               PROVE  LocalHolds(q, i, v)' <=> q \notin Workers /\ LocalHolds(q, i, v)
    OBVIOUS
  <2>1. local'[q] = IF q \in Workers THEN <<>> ELSE local[q]
    BY <1>1
  <2> QED BY <2>1 DEF LocalHolds
<1> QED BY <1>4, <1>5

\* What is still queued is destroyed: broken, and in no place.  The local queues
\* of other pools' workers outlive the pool.
LEMMA JoinStep ==
    ASSUME IInv, Join
    PROVE  IInv'
<1>1. /\ TypeOK /\ QueuedOnce /\ RunsOnce /\ PendingPlaced /\ ClientsAtBottom /\ NotYetSubmitted
      /\ poolWorkQueue' = <<>> /\ life' \in Lives
      /\ local' = [q \in HasLocal |-> IF q \in Workers THEN <<>> ELSE local[q]]
      /\ UNCHANGED <<program, stack, done, started, pc, scan, pauseVars>>
  BY DEF IInv, Join, Lives
<1>2. /\ \A q \in HasLocal : local[q] \in Seq(Tasks) /\ DOMAIN local[q] \subseteq Nat \ {0}
      /\ poolWorkQueue \in Seq(Tasks) /\ DOMAIN poolWorkQueue \subseteq Nat \ {0}
      /\ Workers \subseteq HasLocal
  BY <1>1, TypeFacts
<1>3. \A v \in Tasks : future'[v] = IF Destroyed(v) THEN "broken" ELSE future[v]
  BY <1>1, JoinFacts
<1>4. future' \in [Tasks -> {"none", "pending", "ready", "broken"}]
  <2>1. future \in [Tasks -> {"none", "pending", "ready", "broken"}]
    BY <1>1 DEF TypeOK, TasksTypeOK
  <2>2. future' = [v \in Tasks |->
          IF InQueue(v, poolWorkQueue) > 0 \/ \E w \in Workers : InQueue(v, local[w]) > 0
          THEN "broken" ELSE future[v]]
    BY DEF Join
  <2> QED BY <2>1, <2>2
<1>5. poolWorkQueue' \in Seq(Tasks) /\ local' \in [HasLocal -> Seq(Tasks)]
  BY <1>1, <1>2
<1>6. TypeOK'
  BY <1>1, <1>4, <1>5 DEF TypeOK, TasksTypeOK, P!PauseTypeOK, pauseVars
<1>7. \A i \in Nat : \A v : ~PoolHolds(i, v)'
  BY <1>1 DEF PoolHolds
<1>8. \A q \in HasLocal, i \in Nat : \A v : LocalHolds(q, i, v)' <=> q \notin Workers /\ LocalHolds(q, i, v)
  BY <1>1, JoinFacts
<1>9. \A v : ~InPool(v)' /\ (InLocal(v)' => InLocal(v))
  BY <1>7, <1>8 DEF InPool, InLocal
<1>10. QueuedOnce'
  BY <1>1, <1>7, <1>8, <1>9 DEF QueuedOnce
<1>11. \A v \in Tasks : Queued(v)' <=> Queued(v) /\ ~Destroyed(v)
  <2> SUFFICES ASSUME NEW v \in Tasks PROVE Queued(v)' <=> Queued(v) /\ ~Destroyed(v)
    OBVIOUS
  <2>1. ASSUME Queued(v)' PROVE Queued(v) /\ ~Destroyed(v)
    <3>1. PICK q \in HasLocal, i \in Nat : LocalHolds(q, i, v)'
      BY <2>1, <1>9 DEF Queued, InLocal
    <3>2. q \notin Workers /\ LocalHolds(q, i, v)
      BY <3>1, <1>8
    <3>3. InLocal(v) /\ ~InPool(v)
      BY <3>2, <1>1 DEF InLocal, QueuedOnce
    <3>4. \A r \in HasLocal, j \in Nat : LocalHolds(r, j, v) => r = q
      BY <3>2, <1>1 DEF QueuedOnce
    <3> QED BY <3>2, <3>3, <3>4, <1>2 DEF Queued, Destroyed
  <2>2. ASSUME Queued(v), ~Destroyed(v) PROVE Queued(v)'
    <3>1. PICK q \in HasLocal, i \in Nat : LocalHolds(q, i, v)
      BY <2>2 DEF Queued, Destroyed, InLocal
    <3>2. q \notin Workers
      BY <2>2, <3>1 DEF Destroyed
    <3> QED BY <3>1, <3>2, <1>8 DEF Queued, InLocal
  <2> QED BY <2>1, <2>2
<1>12. \A v : Destroyed(v) => Queued(v)
  BY <1>2 DEF Destroyed, Queued, InLocal
<1>13. \A v : OnStack(v)' <=> OnStack(v)
  BY <1>1 DEF OnStack, Holds
<1>14. RunsOnce' /\ ClientsAtBottom'
  BY <1>1 DEF RunsOnce, ClientsAtBottom, Holds
<1>15. PendingPlaced'
  <2> SUFFICES ASSUME NEW v \in Tasks
               PROVE  /\ ~(Queued(v)' /\ OnStack(v)')
                      /\ (future'[v] = "pending" <=> Queued(v)' \/ OnStack(v)')
    BY DEF PendingPlaced
  <2>1. /\ ~(Queued(v) /\ OnStack(v))
        /\ (future[v] = "pending" <=> Queued(v) \/ OnStack(v))
    BY <1>1 DEF PendingPlaced
  <2>2. CASE Destroyed(v)
    <3>1. future'[v] = "broken" /\ ~Queued(v)' /\ ~OnStack(v)
      BY <2>1, <2>2, <1>3, <1>11, <1>12
    <3> QED BY <3>1, <1>13
  <2>3. CASE ~Destroyed(v)
    <3>1. future'[v] = future[v] /\ (Queued(v)' <=> Queued(v))
      BY <2>3, <1>3, <1>11
    <3> QED BY <2>1, <3>1, <1>13
  <2> QED BY <2>2, <2>3
<1>16. \A v \in Tasks : future'[v] = "none" <=> future[v] = "none"
  BY <1>1, <1>3, <1>12 DEF PendingPlaced
<1>17. NotYetSubmitted'
  <2> SUFFICES ASSUME NEW v \in Tasks, NEW c \in Callables, NEW i \in Nat,
                      Submits(c, i, v)', Ahead(c, i)'
               PROVE  future[v] = "none"
    BY <1>16 DEF NotYetSubmitted
  <2>1. Submits(c, i, v)
    BY <1>1 DEF Submits
  <2>2. Ahead(c, i)
    BY <1>1, <1>11, <1>16 DEF Ahead, Holds
  <2> QED BY <2>1, <2>2, <1>1 DEF NotYetSubmitted
<1> QED BY <1>6, <1>10, <1>14, <1>15, <1>17 DEF IInv

-----------------------------------------------------------------------------
(* The theorems.                                                           *)

LEMMA Starts == Init => IInv
<1> SUFFICES ASSUME Init PROVE IInv
  OBVIOUS
<1>1. /\ program \in Programs
      /\ stack = [t \in Threads |-> IF t \in Clients THEN <<[task |-> t, ip |-> 1]>> ELSE <<>>]
      /\ future = [u \in Tasks |-> "none"]
      /\ poolWorkQueue = <<>> /\ local = [q \in HasLocal |-> <<>>]
      /\ done = FALSE /\ started = 0 /\ life = "ctor"
      /\ scan = [t \in Threads |-> 0] /\ ranPaused = [w \in Workers |-> 0] /\ P!PauseInit
      /\ pc = [t \in Threads |-> IF t \in Clients THEN "run" ELSE "none"]
  BY DEF Init, TasksInit
<1>2. ASSUME NEW t \in Threads
      PROVE  /\ stack[t] \in Seq(Frames)
             /\ \A k \in DOMAIN stack[t] : t \in Clients /\ k = 1 /\ stack[t][k].task = t
  <2>1. CASE t \in Clients
    <3>1. [task |-> t, ip |-> 1] \in Frames
      BY <2>1 DEF Frames, Callables
    <3>2. stack[t] = <<[task |-> t, ip |-> 1]>>
      BY <2>1, <1>1
    <3> QED BY <2>1, <3>1, <3>2
  <2>2. CASE t \notin Clients
    BY <2>2, <1>1
  <2> QED BY <2>1, <2>2
<1>3. TypeOK
  <2>1. stack \in [Threads -> Seq(Frames)]
    BY <1>1, <1>2
  <2>2. poolWorkQueue \in Seq(Tasks) /\ local \in [HasLocal -> Seq(Tasks)]
    BY <1>1
  <2>3. future \in [Tasks -> {"none", "pending", "ready", "broken"}]
    BY <1>1
  <2>4. pc \in [Threads -> Steps]
    BY <1>1 DEF Steps
  <2>5. /\ started \in 0 .. NumThreads /\ scan \in [Threads -> 0 .. NumThreads]
        /\ ranPaused \in [Workers -> Nat]
    BY <1>1, TaskAssumption
  <2>6. P!PauseTypeOK
    BY <1>1 DEF P!PauseInit, P!PauseTypeOK, P!PauseSteps
  <2> QED BY <1>1, <2>1, <2>2, <2>3, <2>4, <2>5, <2>6 DEF TypeOK, TasksTypeOK, Lives
<1>4. ASSUME NEW u \in Tasks PROVE ~Queued(u) /\ ~OnStack(u)
  <2>1. u \notin Clients
    BY TaskAssumption
  <2>2. ~Queued(u)
    BY <1>1 DEF Queued, InPool, InLocal, PoolHolds, LocalHolds
  <2>3. ~OnStack(u)
    BY <1>2, <2>1 DEF OnStack, Holds
  <2> QED BY <2>2, <2>3
<1>5. QueuedOnce /\ RunsOnce /\ PendingPlaced
  BY <1>1, <1>4 DEF QueuedOnce, RunsOnce, PendingPlaced, Queued, InPool, InLocal, OnStack
<1>6. ClientsAtBottom
  BY <1>2 DEF ClientsAtBottom
<1>7. NotYetSubmitted
  BY <1>1 DEF NotYetSubmitted
<1> QED BY <1>3, <1>5, <1>6, <1>7 DEF IInv

LEMMA Keeps == IInv /\ [Next]_vars => IInv'
<1> SUFFICES ASSUME IInv, [Next]_vars PROVE IInv'
  OBVIOUS
<1>1. CASE OwnerStep \/ Finished \/ UNCHANGED vars
  <2>1. CASE Join BY <2>1, JoinStep
  <2>2. CASE ~Join BY <1>1, <2>2, OwnerKeeps DEF OwnerStep
  <2> QED BY <2>1, <2>2
<1>2. ASSUME NEW t \in Threads, ThreadStep(t) PROVE IInv'
  <2>1. CASE PopLocal(t) BY <2>1, PopLocalStep
  <2>2. CASE PopPool(t) BY <2>2, PopPoolStep
  <2>3. CASE Steal(t) BY <2>3, StealStep
  <2>4. CASE ForeignLoop(t) BY <2>4, ForeignLoopStep
  <2>5. CASE Submit(t) BY <2>5, SubmitStep
  <2>6. CASE EndTask(t) BY <2>6, EndTaskStep
  <2>7. CASE Yield(t) \/ CheckDone(t) \/ CheckPause(t) BY <2>7, LoopStep
  <2>8. CASE Get(t) \/ Help(t) \/ CallPause(t) \/ CallResume(t) BY <2>8, CallStep
  <2> QED BY <1>2, <2>1, <2>2, <2>3, <2>4, <2>5, <2>6, <2>7, <2>8 DEF ThreadStep
<1>3. ASSUME NEW t \in Threads, SpuriousWake(t) PROVE IInv'
  BY <1>3, LoopStep
<1> QED BY <1>1, <1>2, <1>3 DEF Next

\* The pool's state keeps its types, whatever the programs (ThreadPool.h:112-218).
THEOREM PoolTypes == Spec => []TypeOK
<1>1. IInv => TypeOK
  BY DEF IInv
<1> QED BY <1>1, Starts, Keeps, PTL DEF Spec

\* A set of at most one element has one or none.
LEMMA CardinalityOfOne ==
    ASSUME NEW S, \A x, y \in S : x = y
    PROVE  Cardinality(S) = IF S = {} THEN 0 ELSE 1
<1>1. CASE S = {} BY <1>1, FS_EmptySet
<1>2. CASE S # {}
  <2>1. PICK x \in S : S = {x} BY <1>2
  <2> QED BY <1>2, <2>1, FS_Singleton
<1> QED BY <1>1, <1>2

LEMMA Counting == IInv => TaskConserved
<1> SUFFICES ASSUME IInv, NEW u \in Tasks
             PROVE  InQueue(u, poolWorkQueue) + InLocals(u) + Running(u)
                      = IF future[u] = "pending" THEN 1 ELSE 0
  BY DEF TaskConserved
<1> DEFINE Q == {i \in DOMAIN poolWorkQueue : poolWorkQueue[i] = u}
           L == {f \in UNION {{q} \X DOMAIN local[q] : q \in HasLocal} : local[f[1]][f[2]] = u}
           R == {f \in UNION {{t} \X DOMAIN stack[t] : t \in Threads} : stack[f[1]][f[2]].task = u}
<1>1. /\ QueuedOnce /\ RunsOnce /\ PendingPlaced /\ TypeOK
      /\ \A q \in HasLocal : DOMAIN local[q] \subseteq Nat
      /\ \A t \in Threads : DOMAIN stack[t] \subseteq Nat
      /\ DOMAIN poolWorkQueue \subseteq Nat
  <2>1. TypeOK /\ TasksTypeOK
    BY DEF IInv, TypeOK
  <2>2. \A t \in Threads : DOMAIN stack[t] \subseteq Nat
    BY <2>1, StackFacts
  <2> QED BY <2>1, <2>2, TypeFacts DEF IInv
<1>2. \A i, j \in Q : i = j
  BY <1>1 DEF QueuedOnce, PoolHolds
<1>3. Q = {} <=> ~InPool(u)
  BY <1>1 DEF InPool, PoolHolds
<1>4. \A f : f \in L <=> \E q \in HasLocal, k \in Nat : f = <<q, k>> /\ LocalHolds(q, k, u)
  <2> SUFFICES ASSUME NEW f
               PROVE  f \in L <=> \E q \in HasLocal, k \in Nat : f = <<q, k>> /\ LocalHolds(q, k, u)
    OBVIOUS
  <2>1. ASSUME f \in L
        PROVE  \E q \in HasLocal, k \in Nat : f = <<q, k>> /\ LocalHolds(q, k, u)
    <3>1. PICK q \in HasLocal : f \in {q} \X DOMAIN local[q]
      BY <2>1
    <3>2. PICK k \in DOMAIN local[q] : f = <<q, k>>
      BY <3>1
    <3>3. k \in Nat /\ local[q][k] = u
      BY <2>1, <3>2, <1>1
    <3> QED BY <3>2, <3>3 DEF LocalHolds
  <2>2. ASSUME NEW q \in HasLocal, NEW k \in Nat, f = <<q, k>>, LocalHolds(q, k, u)
        PROVE  f \in L
    <3>1. f \in {q} \X DOMAIN local[q] /\ local[f[1]][f[2]] = u
      BY <2>2 DEF LocalHolds
    <3> QED BY <3>1
  <2> QED BY <2>1, <2>2
<1>5. \A f : f \in R <=> \E t \in Threads, k \in Nat : f = <<t, k>> /\ Holds(t, k, u)
  <2> SUFFICES ASSUME NEW f
               PROVE  f \in R <=> \E t \in Threads, k \in Nat : f = <<t, k>> /\ Holds(t, k, u)
    OBVIOUS
  <2>1. ASSUME f \in R
        PROVE  \E t \in Threads, k \in Nat : f = <<t, k>> /\ Holds(t, k, u)
    <3>1. PICK t \in Threads : f \in {t} \X DOMAIN stack[t]
      BY <2>1
    <3>2. PICK k \in DOMAIN stack[t] : f = <<t, k>>
      BY <3>1
    <3>3. k \in Nat /\ stack[t][k].task = u
      BY <2>1, <3>2, <1>1
    <3> QED BY <3>2, <3>3 DEF Holds
  <2>2. ASSUME NEW t \in Threads, NEW k \in Nat, f = <<t, k>>, Holds(t, k, u)
        PROVE  f \in R
    <3>1. f \in {t} \X DOMAIN stack[t] /\ stack[f[1]][f[2]].task = u
      BY <2>2 DEF Holds
    <3> QED BY <3>1
  <2> QED BY <2>1, <2>2
<1> HIDE DEF Q, L, R
<1>6. (\A f, g \in L : f = g) /\ (L = {} <=> ~InLocal(u))
  <2>1. \A f, g \in L : f = g
    BY <1>1, <1>4 DEF QueuedOnce
  <2>2. L = {} <=> ~InLocal(u)
    BY <1>4 DEF InLocal
  <2> QED BY <2>1, <2>2
<1>7. (\A f, g \in R : f = g) /\ (R = {} <=> ~OnStack(u))
  <2>1. \A f, g \in R : f = g
    BY <1>1, <1>5 DEF RunsOnce
  <2>2. R = {} <=> ~OnStack(u)
    BY <1>5 DEF OnStack
  <2> QED BY <2>1, <2>2
<1>8. /\ Cardinality(Q) = IF InPool(u) THEN 1 ELSE 0
      /\ Cardinality(L) = IF InLocal(u) THEN 1 ELSE 0
      /\ Cardinality(R) = IF OnStack(u) THEN 1 ELSE 0
  BY <1>2, <1>3, <1>6, <1>7, CardinalityOfOne
<1>9. /\ ~(Queued(u) /\ OnStack(u)) /\ ~(InPool(u) /\ InLocal(u))
      /\ (future[u] = "pending" <=> Queued(u) \/ OnStack(u))
      /\ Queued(u) <=> InPool(u) \/ InLocal(u)
  BY <1>1 DEF PendingPlaced, QueuedOnce, Queued
<1>10. Cardinality(Q) + Cardinality(L) + Cardinality(R) = IF future[u] = "pending" THEN 1 ELSE 0
  <2>1. CASE InPool(u) BY <2>1, <1>8, <1>9
  <2>2. CASE InLocal(u) BY <2>2, <1>8, <1>9
  <2>3. CASE OnStack(u) BY <2>3, <1>8, <1>9
  <2>4. CASE ~InPool(u) /\ ~InLocal(u) /\ ~OnStack(u) BY <2>4, <1>8, <1>9
  <2> QED BY <2>1, <2>2, <2>3, <2>4
<1> QED BY <1>10 DEF InQueue, InLocals, Running, Q, L, R

\* No task is lost, duplicated or run twice, for any number of workers, whatever
\* they steal and whoever else has a local queue (ThreadPool.h:177-217).
THEOREM TasksConserved == Spec => []TaskConserved
BY Starts, Keeps, Counting, PTL DEF Spec

-----------------------------------------------------------------------------
(* Pauses.                                                                 *)

\* A worker whose loop has begun a task in this pause runs it, or is in
\* checkPause, which it does not leave while the pool is paused.
PauseInv ==
    /\ pausedQ => \A w \in Workers :
          /\ ranPaused[w] <= 1
          /\ ranPaused[w] = 1 => stack[w] # <<>> \/ pc[w] = "pause"
    /\ \A w \in Workers : w >= started => pc[w] = "none" /\ stack[w] = <<>>

LEMMA PauseStarts == Init => PauseInv
<1> SUFFICES ASSUME Init PROVE PauseInv
  OBVIOUS
<1>1. \A w \in Workers : w \in Threads /\ w \notin Clients
  BY TaskAssumption DEF Threads
<1>2. \A w \in Workers : pc[w] = "none" /\ stack[w] = <<>> /\ ranPaused[w] = 0
  BY <1>1 DEF Init, TasksInit
<1> QED BY <1>2 DEF PauseInv

LEMMA PauseFacts ==
    ASSUME TypeOK
    PROVE  /\ TasksTypeOK /\ NumThreads \in Nat /\ started \in Nat
           /\ pc \in [Threads -> Steps] /\ stack \in [Threads -> Seq(Frames)]
           /\ ranPaused \in [Workers -> Nat]
           /\ Workers \subseteq Threads /\ Workers \subseteq Nat
           /\ \A w \in Workers : w \notin Clients
<1>1. NumThreads \in Nat /\ \A w \in Workers : w \notin Clients
  BY TaskAssumption
<1>2. started \in Nat
  BY <1>1 DEF TypeOK
<1>3. Workers \subseteq Threads /\ Workers \subseteq Nat
  BY <1>1 DEF Workers, Threads
<1> QED BY <1>1, <1>2, <1>3 DEF TypeOK, TasksTypeOK

\* A step of one thread is to be looked at for this thread only.
LEMMA PauseOfOne ==
    ASSUME TypeOK, PauseInv, NEW t \in Threads, started' = started,
           t \in Workers => pc[t] # "none",
           pausedQ' => pausedQ,
           \A w \in Workers : w # t =>
              stack'[w] = stack[w] /\ pc'[w] = pc[w] /\ ranPaused'[w] = ranPaused[w],
           t \in Workers /\ pausedQ =>
              ranPaused'[t] <= 1 /\ (ranPaused'[t] = 1 => stack'[t] # <<>> \/ pc'[t] = "pause")
    PROVE  PauseInv'
<1>1. ASSUME pausedQ', NEW w \in Workers
      PROVE  ranPaused'[w] <= 1 /\ (ranPaused'[w] = 1 => stack'[w] # <<>> \/ pc'[w] = "pause")
  <2>1. CASE w = t BY <2>1, <1>1
  <2>2. CASE w # t
    <3>1. ranPaused[w] <= 1 /\ (ranPaused[w] = 1 => stack[w] # <<>> \/ pc[w] = "pause")
      BY <1>1 DEF PauseInv
    <3> QED BY <2>2, <3>1
  <2> QED BY <2>1, <2>2
<1>2. ASSUME NEW w \in Workers, w >= started'
      PROVE  pc'[w] = "none" /\ stack'[w] = <<>>
  <2>1. pc[w] = "none" /\ stack[w] = <<>>
    BY <1>2 DEF PauseInv
  <2> QED BY <2>1
<1> QED BY <1>1, <1>2 DEF PauseInv

LEMMA BeginPause ==
    ASSUME TypeOK, PauseInv, NEW t \in Threads, NEW u \in Callables, Begin(t, u),
           pc[t] \notin {"none", "pause"}, UNCHANGED <<started, pausedQ>>
    PROVE  PauseInv'
<1>1. TypeOK /\ TasksTypeOK /\ ranPaused \in [Workers -> Nat] /\ pc \in [Threads -> Steps]
      /\ Workers \subseteq Threads /\ stack \in [Threads -> Seq(Frames)]
  BY PauseFacts
<1>2. /\ Start(t, u) /\ pc' = [pc EXCEPT ![t] = "run"]
      /\ ranPaused' = IF pausedQ /\ t \in Workers /\ stack[t] = <<>>
                      THEN [ranPaused EXCEPT ![t] = @ + 1] ELSE ranPaused
  BY DEF Begin, Goto
<1>3. \A w \in Workers : w # t =>
         stack'[w] = stack[w] /\ pc'[w] = pc[w] /\ ranPaused'[w] = ranPaused[w]
  BY <1>1, <1>2 DEF Start
<1>4. stack'[t] # <<>>
  <2>1. stack'[t] = Append(stack[t], [task |-> u, ip |-> 1])
    BY <1>1, <1>2 DEF Start
  <2>2. Len(stack[t]) + 1 \in DOMAIN stack'[t]
    BY <1>1, <1>2, StartFacts, ZenonT(30)
  <2> QED BY <2>2
<1>5. ASSUME t \in Workers, pausedQ PROVE ranPaused'[t] <= 1
  <2>1. ranPaused[t] \in Nat /\ ranPaused[t] <= 1 /\ (ranPaused[t] = 1 => stack[t] # <<>>)
    BY <1>1, <1>5 DEF PauseInv
  <2>2. CASE stack[t] = <<>>
    <3>1. ranPaused'[t] = ranPaused[t] + 1
      BY <1>1, <1>2, <1>5, <2>2
    <3> QED BY <2>1, <2>2, <3>1
  <2>3. CASE stack[t] # <<>>
    BY <1>2, <2>1, <2>3
  <2> QED BY <2>2, <2>3
<1> QED BY <1>1, <1>3, <1>4, <1>5, PauseOfOne

\* A thread goes on without touching its stack.
LEMMA MovePause ==
    ASSUME TypeOK, PauseInv, NEW t \in Threads, NEW l, pc' = [pc EXCEPT ![t] = l],
           UNCHANGED <<started, stack, ranPaused>>, pausedQ' => pausedQ,
           t \in Workers => pc[t] # "none",
           t \in Workers /\ pausedQ' => pc[t] # "pause" \/ l = "pause"
    PROVE  PauseInv'
<1>1. pc \in [Threads -> Steps] /\ Workers \subseteq Threads
  BY PauseFacts
<1>2. CASE pausedQ' /\ t \in Workers
  <2>1. ranPaused[t] <= 1 /\ (ranPaused[t] = 1 => stack[t] # <<>> \/ pc[t] = "pause")
    BY <1>2 DEF PauseInv
  <2>2. pc[t] = "pause" => pc'[t] = "pause"
    BY <1>1, <1>2
  <2>3. pausedQ
    BY <1>2
  <2> QED BY <1>1, <2>1, <2>2, <2>3, PauseOfOne
<1>3. CASE ~(pausedQ' /\ t \in Workers)
  <2>1. ASSUME pausedQ', NEW w \in Workers
        PROVE  ranPaused'[w] <= 1 /\ (ranPaused'[w] = 1 => stack'[w] # <<>> \/ pc'[w] = "pause")
    BY <1>1, <1>3, <2>1 DEF PauseInv
  <2>2. ASSUME NEW w \in Workers, w >= started'
        PROVE  pc'[w] = "none" /\ stack'[w] = <<>>
    BY <1>1, <2>2 DEF PauseInv
  <2> QED BY <2>1, <2>2 DEF PauseInv
<1> QED BY <1>2, <1>3

\* A call of a program goes on.
LEMMA AdvancePause ==
    ASSUME TypeOK, PauseInv, NEW t \in Threads, stack[t] # <<>>, Advance(t),
           UNCHANGED <<started, pc, ranPaused>>, pausedQ' => pausedQ, pc[t] # "none"
    PROVE  PauseInv'
<1>1. TypeOK /\ TasksTypeOK /\ Workers \subseteq Threads /\ stack \in [Threads -> Seq(Frames)]
  BY PauseFacts
<1>2. \A w \in Workers : w # t => stack'[w] = stack[w]
  BY <1>1 DEF Advance
<1>3. stack'[t] # <<>>
  <2>1. DOMAIN stack'[t] = DOMAIN stack[t] /\ Len(stack[t]) \in DOMAIN stack[t]
    BY <1>1, AdvanceFacts, StackFacts
  <2> QED BY <2>1
<1>4. t \in Workers /\ pausedQ => ranPaused[t] <= 1
  BY DEF PauseInv
<1> QED BY <1>2, <1>3, <1>4, PauseOfOne

LEMMA EndTaskPause ==
    ASSUME TypeOK, PauseInv, NEW t \in Threads, EndTask(t)
    PROVE  PauseInv'
<1>1. /\ TasksTypeOK /\ Workers \subseteq Threads /\ stack \in [Threads -> Seq(Frames)]
      /\ pc \in [Threads -> Steps]
      /\ pc[t] = "run" /\ Finish(t) /\ pc' = [pc EXCEPT ![t] = ReturnTo(t, Len(stack[t]) - 1)]
      /\ UNCHANGED <<started, pausedQ, ranPaused>>
  BY PauseFacts DEF EndTask, Goto, poolVars, pauseVars
<1>2. \A w \in Workers : w # t => stack'[w] = stack[w] /\ pc'[w] = pc[w]
  BY <1>1 DEF Finish
<1>3. ASSUME t \in Workers PROVE stack'[t] # <<>> \/ pc'[t] = "pause"
  <2>1. PICK n \in Nat : n = Len(stack[t])
    BY <1>1, StackFacts
  <2>2. CASE n - 1 > 0
    <3>1. n - 1 \in DOMAIN stack[t] /\ n - 1 # n /\ n - 1 \in Nat
      BY <1>1, <2>1, <2>2, StackFacts
    <3>2. n - 1 \in DOMAIN stack'[t]
      BY <1>1, <2>1, <3>1, FinishFacts
    <3> QED BY <3>2
  <2>3. CASE ~(n - 1 > 0)
    <3>1. ReturnTo(t, n - 1) = "pause"
      BY <1>3, <2>3 DEF ReturnTo
    <3> QED BY <1>1, <2>1, <3>1
  <2> QED BY <2>2, <2>3
<1>4. t \in Workers /\ pausedQ => ranPaused[t] <= 1
  BY DEF PauseInv
<1> QED BY <1>1, <1>2, <1>3, <1>4, PauseOfOne

\* A pause begins with nothing run in it.
LEMMA CallPausePause ==
    ASSUME TypeOK, PauseInv, NEW t \in Threads, CallPause(t)
    PROVE  PauseInv'
<1>1. /\ TasksTypeOK /\ Workers \subseteq Threads /\ stack \in [Threads -> Seq(Frames)]
      /\ pc[t] = "run" /\ stack[t] # <<>> /\ Advance(t) /\ UNCHANGED <<started, pc>>
      /\ ranPaused' = IF pausedQ THEN ranPaused ELSE [w \in Workers |-> 0]
  BY PauseFacts DEF CallPause, MayRun, Calls, poolVars
<1>2. CASE pausedQ
  BY <1>1, <1>2, AdvancePause
<1>3. CASE ~pausedQ
  <2>1. \A w \in Workers : ranPaused'[w] = 0
    BY <1>1, <1>3
  <2>2. ASSUME NEW w \in Workers, w >= started'
        PROVE  pc'[w] = "none" /\ stack'[w] = <<>>
    <3>1. pc[w] = "none" /\ stack[w] = <<>>
      BY <1>1, <2>2 DEF PauseInv
    <3> QED BY <1>1, <3>1 DEF Advance
  <2> QED BY <2>1, <2>2 DEF PauseInv
<1> QED BY <1>2, <1>3

LEMMA PauseKept ==
    ASSUME IInv, PauseInv, [Next]_vars
    PROVE  PauseInv'
<1>1. /\ TypeOK /\ TasksTypeOK /\ NumThreads \in Nat /\ started \in Nat
      /\ pc \in [Threads -> Steps] /\ stack \in [Threads -> Seq(Frames)]
      /\ ranPaused \in [Workers -> Nat]
      /\ Workers \subseteq Threads /\ Workers \subseteq Nat
      /\ \A w \in Workers : w \notin Clients
  BY PauseFacts DEF IInv
<1>2. CASE StartThread
  <2>1. /\ pc' = [pc EXCEPT ![started] = "loop"] /\ started' = started + 1
        /\ started \in Workers
        /\ UNCHANGED <<stack, pausedQ, ranPaused>>
    BY <1>1, <1>2 DEF StartThread, Goto, taskVars, pauseVars, Workers
  <2>2. pc[started] = "none" /\ stack[started] = <<>>
    BY <1>1, <2>1 DEF PauseInv
  <2>3. ASSUME pausedQ, NEW w \in Workers
        PROVE  ranPaused[w] <= 1 /\ (ranPaused[w] = 1 => stack[w] # <<>> \/ pc'[w] = "pause")
    BY <1>1, <2>1, <2>2, <2>3 DEF PauseInv
  <2>4. ASSUME NEW w \in Workers, w >= started + 1
        PROVE  pc'[w] = "none" /\ stack[w] = <<>>
    BY <1>1, <2>1, <2>4 DEF PauseInv
  <2> QED BY <2>1, <2>3, <2>4 DEF PauseInv
<1>3. CASE BuildQueues \/ ConstructorFails \/ Constructed \/ SetDone \/ Join \/ Finished \/ UNCHANGED vars
  <2>1. UNCHANGED <<stack, started, pc, pausedQ, ranPaused>>
    BY <1>3 DEF BuildQueues, ConstructorFails, Constructed, SetDone, Join, Finished, vars,
          taskVars, poolVars, pauseVars
  <2> QED BY <2>1 DEF PauseInv
<1>4. CASE DtorResume
  BY <1>4 DEF DtorResume, P!Resume, P!Move, PauseInv, taskVars
<1>5. CASE DtorNotify
  BY <1>5 DEF DtorNotify, P!NotifyAll, PauseInv, taskVars
<1>6. ASSUME NEW t \in Threads, ThreadStep(t) PROVE PauseInv'
  <2>1. CASE PopLocal(t)
    <3>1. pc[t] = "local" /\ UNCHANGED <<started, pausedQ>>
      BY <2>1 DEF PopLocal
    <3>2. CASE t \in HasLocal /\ local[t] # <<>>
      <4>1. Head(local[t]) \in Callables /\ Begin(t, Head(local[t]))
        <5>1. PICK q \in Seq(Tasks) : q = local[t]
          BY <1>1, <3>2, TypeFacts
        <5>2. Head(q) \in Tasks
          BY <3>2, <5>1, TailPlaces
        <5> QED BY <2>1, <3>2, <5>1, <5>2 DEF PopLocal, Callables
      <4> QED BY <1>1, <3>1, <4>1, BeginPause
    <3>3. CASE ~(t \in HasLocal /\ local[t] # <<>>)
      BY <1>1, <2>1, <3>1, <3>3, MovePause DEF PopLocal, Goto
    <3> QED BY <3>2, <3>3
  <2>2. CASE PopPool(t)
    <3>1. pc[t] = "pool" /\ UNCHANGED <<started, pausedQ>>
      BY <2>2 DEF PopPool
    <3>2. CASE poolWorkQueue # <<>>
      <4>1. Head(poolWorkQueue) \in Tasks
        BY <1>1, <3>2, TypeFacts, TailPlaces
      <4> QED BY <1>1, <2>2, <3>1, <3>2, <4>1, BeginPause DEF PopPool, Callables
    <3>3. CASE poolWorkQueue = <<>>
      BY <1>1, <2>2, <3>1, <3>3, MovePause DEF PopPool, Goto
    <3> QED BY <3>2, <3>3
  <2>3. CASE Steal(t)
    <3>1. pc[t] = "steal" /\ UNCHANGED <<started, pausedQ>> /\ Victim(t) \in HasLocal
      BY <1>1, <2>3, VictimIsWorker DEF Steal, HasLocal
    <3>2. PICK q \in Seq(Tasks) : q = local[Victim(t)]
      BY <1>1, <3>1, TypeFacts
    <3>3. CASE q # <<>>
      <4>1. q[Len(q)] \in Callables /\ Begin(t, q[Len(q)])
        BY <2>3, <3>2, <3>3, BackPlaces DEF Steal, Callables
      <4> QED BY <1>1, <3>1, <4>1, BeginPause
    <3>4. CASE q = <<>>
      <4>1. UNCHANGED <<stack, pc, ranPaused>>
        BY <2>3, <3>2, <3>4 DEF Steal
      <4> QED BY <3>1, <4>1 DEF PauseInv
    <3> QED BY <3>3, <3>4
  <2>4. CASE Yield(t)
    <3>1. /\ pc[t] = "steal" /\ UNCHANGED <<started, stack, ranPaused, pausedQ>>
          /\ pc' = [pc EXCEPT ![t] = ReturnTo(t, Len(stack[t]))]
      BY <2>4 DEF Yield, Goto, taskVars, poolVars, pauseVars
    <3> QED BY <1>1, <3>1, MovePause
  <2>5. CASE EndTask(t)
    BY <1>1, <2>5, EndTaskPause
  <2>6. CASE CheckDone(t)
    <3>1. /\ pc[t] = "loop" /\ UNCHANGED <<started, stack, ranPaused, pausedQ>>
          /\ pc' = [pc EXCEPT ![t] = IF done THEN "ended" ELSE "local"]
      BY <2>6 DEF CheckDone, Goto, taskVars, poolVars, pauseVars
    <3> QED BY <1>1, <3>1, MovePause
  <2>7. CASE CheckPause(t)
    <3>1. pc[t] = "pause" /\ UNCHANGED <<started, stack, ranPaused>>
      BY <2>7 DEF CheckPause, taskVars, poolVars
    <3>2. CASE (P!NotPaused(t) \/ P!LeavePause(t)) /\ Goto(t, "loop")
      <4>1. ~pausedQ /\ ~pausedQ' /\ pc' = [pc EXCEPT ![t] = "loop"]
        BY <3>2 DEF P!NotPaused, P!LeavePause, P!pauseVars, Goto
      <4> QED BY <1>1, <3>1, <4>1, MovePause
    <3>3. CASE (P!EnterPause(t) \/ P!LockWorkers(t) \/ P!StillPaused(t) \/ P!Sleep(t)) /\ UNCHANGED pc
      <4>1. pausedQ' = pausedQ
        BY <3>3 DEF P!EnterPause, P!LockWorkers, P!StillPaused, P!Sleep
      <4> QED BY <3>1, <3>3, <4>1 DEF PauseInv
    <3> QED BY <2>7, <3>2, <3>3 DEF CheckPause
  <2>8. CASE Submit(t) \/ Get(t) \/ (Help(t) /\ Settled(NextCall(t).task))
    <3>1. /\ pc[t] = "run" /\ stack[t] # <<>> /\ Advance(t)
          /\ UNCHANGED <<started, pc, ranPaused, pausedQ>>
      BY <2>8 DEF Submit, Get, Help, MayRun, Calls, poolVars, pauseVars, Goto
    <3> QED BY <1>1, <3>1, AdvancePause
  <2>9. CASE Help(t) /\ ~Settled(NextCall(t).task)
    <3>1. pc[t] = "run" /\ pc' = [pc EXCEPT ![t] = "local"] /\ UNCHANGED <<started, stack, ranPaused, pausedQ>>
      BY <2>9 DEF Help, MayRun, Goto, poolVars, pauseVars
    <3> QED BY <1>1, <3>1, MovePause
  <2>10. CASE CallPause(t)
    BY <1>1, <2>10, CallPausePause
  <2>11. CASE CallResume(t)
    <3>1. /\ pc[t] = "run" /\ stack[t] # <<>> /\ UNCHANGED <<started, pc, ranPaused>>
          /\ pausedQ' => pausedQ
      BY <2>11 DEF CallResume, MayRun, Calls, poolVars, P!Resume, P!NotifyAll
    <3>2. CASE UNCHANGED stack
      BY <3>1, <3>2 DEF PauseInv
    <3>3. CASE Advance(t)
      BY <1>1, <3>1, <3>3, AdvancePause
    <3> QED BY <2>11, <3>2, <3>3 DEF CallResume
  <2>12. CASE ForeignLoop(t)
    <3>1. /\ t \in Clients /\ t \notin Workers /\ UNCHANGED <<started, ranPaused, pausedQ>>
          /\ Start(t, Head(local[t])) /\ pc' = [pc EXCEPT ![t] = "run"]
      BY <1>1, <2>12, PoolAssumption DEF ForeignLoop, Goto, pauseVars
    <3>2. \A w \in Workers : stack'[w] = stack[w] /\ pc'[w] = pc[w]
      BY <1>1, <3>1 DEF Start
    <3> QED BY <1>1, <3>1, <3>2, PauseOfOne
  <2> QED BY <1>6, <2>1, <2>2, <2>3, <2>4, <2>5, <2>6, <2>7, <2>8, <2>9, <2>10, <2>11, <2>12
          DEF ThreadStep
<1>7. ASSUME NEW t \in Threads, SpuriousWake(t) PROVE PauseInv'
  <2>1. UNCHANGED <<stack, started, pc, pausedQ, ranPaused>>
    BY <1>7 DEF SpuriousWake, P!SpuriousWake, taskVars, poolVars
  <2> QED BY <2>1 DEF PauseInv
<1> QED BY <1>2, <1>3, <1>4, <1>5, <1>6, <1>7 DEF Next, OwnerStep

\* From pause to resume the loop of each worker begins at most one more task, for
\* any number of workers, whoever pauses (ThreadPool.h:198-201,
\* Utilities.h:142-149).
THEOREM PauseHolding == Spec => []PauseHolds
<1>1. Init => PauseInv
  BY PauseStarts
<1>2. IInv /\ PauseInv /\ [Next]_vars => PauseInv'
  BY PauseKept
<1>3. PauseInv => PauseHolds
  BY DEF PauseInv, PauseHolds
<1> QED BY <1>1, <1>2, <1>3, Starts, Keeps, PTL DEF Spec

-----------------------------------------------------------------------------
(* The promises of TaskPool.                                               *)

\* Between tasks a worker's stack is empty, and that of a client that is
\* through.  Before the pool is built nothing has been submitted; while it is
\* destroyed only threads of other pools run on, and then its workers have been
\* joined.
PoolInv ==
    /\ \A t \in Threads : pc[t] \in {"none", "loop", "pause", "ended"} => stack[t] = <<>>
    /\ life \in {"ctor", "spawn", "unwind", "threw"} => \A u \in Tasks : future[u] = "none"
    /\ life \in {"stop", "notify", "join", "dead"} =>
          \A c \in Clients \ Foreign : pc[c] = "ended"
    /\ life \in {"dead", "threw"} => Joined

LEMMA PoolStarts == Init => PoolInv
<1> SUFFICES ASSUME Init PROVE PoolInv
  OBVIOUS
<1>1. /\ stack = [t \in Threads |-> IF t \in Clients THEN <<[task |-> t, ip |-> 1]>> ELSE <<>>]
      /\ future = [u \in Tasks |-> "none"]
      /\ life = "ctor"
      /\ pc = [t \in Threads |-> IF t \in Clients THEN "run" ELSE "none"]
  BY DEF Init, TasksInit
<1>2. \A t \in Threads : pc[t] \in {"none", "loop", "pause", "ended"} => stack[t] = <<>>
  BY <1>1
<1> QED BY <1>1, <1>2 DEF PoolInv

LEMMA Placed ==
    ASSUME IInv, NEW u \in Tasks
    PROVE  /\ future[u] = "pending" <=> Queued(u) \/ OnStack(u)
           /\ ~(Queued(u) /\ OnStack(u))
BY DEF IInv, PendingPlaced

\* The places of a task by the threads that have it.
LEMMA ByThread ==
    ASSUME NEW u
    PROVE  /\ OnStack(u) <=> \E t \in Threads : On(t, u)
           /\ InLocal(u) <=> \E q \in HasLocal : In(q, u)
BY DEF OnStack, InLocal, On, In

\* Once the pool's threads are joined, a task that runs is with another pool's.
LEMMA JoinedIdle ==
    ASSUME IInv, PauseInv, PoolInv, life \in {"join", "unwind"}, Joined,
           NEW u \in Tasks, NEW t \in Threads, On(t, u)
    PROVE  t \in Foreign
<1> SUFFICES ASSUME t \notin Foreign PROVE FALSE
  OBVIOUS
<1>1. TypeOK /\ started \in Nat /\ \A w \in Workers : w \in Nat /\ w \in Threads
  BY PauseFacts DEF IInv
<1>2. stack[t] # <<>>
  BY DEF On, Holds
<1>3. pc[t] \notin {"none", "ended"}
  BY <1>2 DEF PoolInv
<1>4. t \notin Workers
  <2> SUFFICES ASSUME t \in Workers PROVE FALSE
    OBVIOUS
  <2>1. CASE t < started
    BY <2>1, <1>3 DEF Joined
  <2>2. CASE t >= started
    BY <2>2, <1>3 DEF PauseInv
  <2> QED BY <1>1, <2>1, <2>2
<1>5. life = "unwind"
  BY <1>3, <1>4 DEF PoolInv, Threads
<1>6. future[u] = "none"
  BY <1>5 DEF PoolInv
<1> QED BY <1>6, Placed, ByThread

\* A worker that runs a program, or a client that may, finds the pool open.
LEMMA RunsOpen ==
    ASSUME IInv, PauseInv, PoolInv, NEW t \in Threads, MayRun(t)
    PROVE  life \notin {"dead", "threw"}
<1>1. started \in Nat /\ \A w \in Workers : w \in Nat
  BY PauseFacts DEF IInv
<1>2. CASE t \in Clients
  BY <1>2 DEF MayRun
<1>3. CASE t \in Workers
  <2>1. pc[t] = "run"
    BY DEF MayRun
  <2>2. CASE t < started
    BY <1>3, <2>1, <2>2 DEF PoolInv, Joined
  <2>3. CASE t >= started
    BY <1>3, <2>1, <2>3 DEF PauseInv
  <2> QED BY <1>1, <1>3, <2>2, <2>3
<1> QED BY <1>2, <1>3 DEF Threads

\* Before the pool is built no thread is at a call.
LEMMA NobodyCalls ==
    ASSUME IInv, PoolInv, NEW t \in Threads, MayRun(t), NEW l, Calls(t, l)
    PROVE  life \notin {"ctor", "spawn", "unwind", "threw"}
<1> SUFFICES ASSUME life \in {"ctor", "spawn", "unwind", "threw"} PROVE FALSE
  OBVIOUS
<1>1. TasksTypeOK /\ ClientsAtBottom
  BY DEF IInv, TypeOK
<1>2. t \notin Clients
  BY DEF MayRun
<1>3. /\ Len(stack[t]) \in Nat /\ Holds(t, Len(stack[t]), Top(t).task)
      /\ Top(t).task \in Callables /\ Top(t).task # EmptyTask
  BY <1>1, CallFacts
<1>4. Top(t).task \notin Clients
  BY <1>1, <1>2, <1>3 DEF ClientsAtBottom, Holds
<1>5. Top(t).task \in Tasks /\ OnStack(Top(t).task)
  BY <1>3, <1>4 DEF Callables, OnStack
<1>6. future[Top(t).task] = "none"
  BY <1>5 DEF PoolInv
<1> QED BY <1>5, <1>6, Placed

\* Who returns from its lowest program has an empty stack.
LEMMA EndTaskLeaves ==
    ASSUME IInv, NEW t \in Threads, EndTask(t)
    PROVE  /\ pc'[t] = "run" \/ stack'[t] = <<>>
           /\ Top(t).task \in Tasks => future[Top(t).task] = "pending"
           /\ future' = IF Top(t).task \in Tasks THEN [future EXCEPT ![Top(t).task] = "ready"] ELSE future
<1>1. /\ TypeOK /\ TasksTypeOK /\ pc \in [Threads -> Steps] /\ stack \in [Threads -> Seq(Frames)]
      /\ Finish(t) /\ pc' = [pc EXCEPT ![t] = ReturnTo(t, Len(stack[t]) - 1)]
  BY TypeFacts DEF IInv, TypeOK, EndTask, Goto
<1>2. stack[t] # <<>> /\ stack'[t] = SubSeq(stack[t], 1, Len(stack[t]) - 1)
  BY <1>1 DEF Finish
<1>3. /\ stack[t] \in Seq(Frames) /\ Len(stack[t]) \in Nat /\ Len(stack[t]) \in DOMAIN stack[t]
      /\ DOMAIN stack[t] = 1 .. Len(stack[t])
  BY <1>1, <1>2, StackFacts
<1>4. pc'[t] = "run" \/ stack'[t] = <<>>
  <2>1. PICK n \in Nat : n = Len(stack[t])
    BY <1>3
  <2>2. n \in 1 .. n
    BY <1>3, <2>1
  <2>3. CASE n = 1
    BY <1>2, <1>3, <2>1, <2>3
  <2>4. CASE n # 1
    <3>1. n - 1 > 0
      BY <2>2, <2>4
    <3>2. ReturnTo(t, n - 1) = "run"
      BY <3>1 DEF ReturnTo
    <3> QED BY <1>1, <2>1, <3>2
  <2> QED BY <2>3, <2>4
<1>5. Top(t).task \in Tasks => OnStack(Top(t).task)
  BY <1>3 DEF OnStack, Holds, Top
<1>6. Top(t).task \in Tasks => future[Top(t).task] = "pending"
  BY <1>5, Placed
<1> QED BY <1>1, <1>4, <1>6 DEF Finish

\* What a step does to one thread is to be looked at for this thread only.
LEMMA PoolOfOne ==
    ASSUME IInv, PoolInv, NEW t \in Threads, UNCHANGED <<started, life>>,
           pc[t] # "ended" \/ t \in Foreign,
           \A s \in Threads : s # t => pc'[s] = pc[s] /\ stack'[s] = stack[s],
           pc'[t] \in {"none", "loop", "pause", "ended"} => stack'[t] = <<>>,
           life \in {"ctor", "spawn", "unwind", "threw"} => \A u \in Tasks : future'[u] = future[u]
    PROVE  PoolInv'
<1>1. /\ Workers \subseteq Threads /\ Clients \subseteq Threads
      /\ \A w \in Workers : w \notin Clients
      /\ Foreign \subseteq Clients
  BY PauseFacts, PoolAssumption DEF IInv, Threads
<1>2. \A s \in Threads : pc'[s] \in {"none", "loop", "pause", "ended"} => stack'[s] = <<>>
  BY DEF PoolInv
<1>3. life \in {"stop", "notify", "join", "dead"} => \A c \in Clients \ Foreign : pc'[c] = "ended"
  BY <1>1 DEF PoolInv
<1>4. life \in {"dead", "threw"} => Joined'
  BY <1>1 DEF PoolInv, Joined
<1>5. life \in {"ctor", "spawn", "unwind", "threw"} => \A u \in Tasks : future'[u] = "none"
  BY DEF PoolInv
<1> QED BY <1>2, <1>3, <1>4, <1>5 DEF PoolInv

\* The steps that change no future: a thread starts or goes on with a task, or
\* moves on without touching its stack.
LEMMA MovesOn ==
    ASSUME IInv, PoolInv, NEW t \in Threads, UNCHANGED <<started, life, future>>,
           pc[t] # "ended" \/ t \in Foreign,
           \E l : pc' = [pc EXCEPT ![t] = l],
           \/ Advance(t) \/ \E u : Start(t, u)
           \/ UNCHANGED stack,
           \/ pc'[t] \notin {"none", "loop", "pause", "ended"}
           \/ stack' = stack /\ (stack[t] = <<>> \/ pc[t] \in {"none", "loop", "pause", "ended"})
    PROVE  PoolInv'
<1>1. pc \in [Threads -> Steps] /\ stack \in [Threads -> Seq(Frames)]
  BY PauseFacts DEF IInv
<1>2. \A s \in Threads : s # t => pc'[s] = pc[s] /\ stack'[s] = stack[s]
  BY <1>1 DEF Advance, Start
<1>3. pc'[t] \in {"none", "loop", "pause", "ended"} => stack'[t] = <<>>
  BY DEF PoolInv
<1> QED BY <1>2, <1>3, PoolOfOne

LEMMA PoolKept ==
    ASSUME IInv, PauseInv, PoolInv, [Next]_vars
    PROVE  PoolInv'
<1>1. /\ TypeOK /\ TasksTypeOK /\ NumThreads \in Nat /\ started \in Nat
      /\ pc \in [Threads -> Steps] /\ stack \in [Threads -> Seq(Frames)]
      /\ Workers \subseteq Threads /\ Clients \subseteq Threads /\ Foreign \subseteq Clients
      /\ \A w \in Workers : w \notin Clients /\ w \in Nat
  BY PauseFacts, PoolAssumption DEF IInv, Threads
<1>2. CASE StartThread
  <2>1. /\ life = "spawn" /\ life' = "spawn"
        /\ pc' = [pc EXCEPT ![started] = "loop"] /\ started \in Workers
        /\ UNCHANGED <<stack, future>>
    BY <1>1, <1>2 DEF StartThread, Goto, taskVars, Workers
  <2>2. stack[started] = <<>>
    BY <1>1, <2>1 DEF PauseInv
  <2>3. \A t \in Threads : pc'[t] \in {"none", "loop", "pause", "ended"} => stack[t] = <<>>
    BY <1>1, <2>1, <2>2 DEF PoolInv
  <2> QED BY <2>1, <2>3 DEF PoolInv
<1>3. CASE BuildQueues \/ ConstructorFails \/ Constructed \/ SetDone \/ DtorResume \/ DtorNotify
  <2>1. UNCHANGED <<stack, future, started, pc>>
    BY <1>3 DEF BuildQueues, ConstructorFails, Constructed, SetDone, DtorResume, DtorNotify, taskVars
  <2>2. /\ life' \notin {"ctor", "threw", "dead"}
        /\ life' \in {"spawn", "unwind"} => life \in {"ctor", "spawn"}
        /\ life' \in {"stop", "notify", "join"} =>
             life \in {"stop", "notify"} \/ \A c \in Clients : pc[c] = "ended"
    BY <1>3 DEF BuildQueues, ConstructorFails, Constructed, SetDone, DtorResume, DtorNotify
  <2> QED BY <2>1, <2>2 DEF PoolInv
<1>4. CASE Join
  <2>1. /\ UNCHANGED <<stack, started, pc>> /\ Joined
        /\ (life = "join" /\ life' = "dead") \/ (life = "unwind" /\ life' = "threw")
    BY <1>4 DEF Join
  <2>2. ASSUME life = "unwind", NEW u \in Tasks
        PROVE  future'[u] = "none"
    <3>1. future[u] = "none" /\ ~Queued(u)
      BY <2>2, Placed DEF PoolInv
    <3>2. ~Destroyed(u)
      BY <3>1, <1>1, TypeFacts DEF Destroyed, Queued, InLocal
    <3> QED BY <1>1, <1>4, <3>1, <3>2, JoinFacts
  <2>3. Joined'
    BY <2>1 DEF Joined
  <2> QED BY <2>1, <2>2, <2>3 DEF PoolInv
<1>5. CASE Finished \/ UNCHANGED vars
  BY <1>5 DEF Finished, vars, taskVars, poolVars, PoolInv, Joined
<1>6. ASSUME NEW t \in Threads, ThreadStep(t)
      PROVE  PoolInv'
  <2>0. UNCHANGED <<started, life>> /\ (pc[t] # "ended" \/ t \in Foreign)
    <3>1. UNCHANGED <<started, life>>
      BY <1>6 DEF ThreadStep, PopLocal, PopPool, Steal, Yield, EndTask, CheckDone, CheckPause,
            Submit, Get, Help, CallPause, CallResume, ForeignLoop, poolVars
    <3>2. pc[t] # "ended" \/ t \in Foreign
      BY <1>6 DEF ThreadStep, PopLocal, PopPool, Steal, Yield, EndTask, CheckDone, CheckPause,
            Submit, Get, Help, CallPause, CallResume, ForeignLoop, MayRun
    <3> QED BY <3>1, <3>2
  <2>1. CASE PopLocal(t) \/ PopPool(t) \/ Steal(t) \/ ForeignLoop(t)
    <3>1. UNCHANGED future
      BY <2>1 DEF PopLocal, PopPool, Steal, ForeignLoop
    <3>2. \/ \E u : Start(t, u) /\ pc' = [pc EXCEPT ![t] = "run"]
          \/ UNCHANGED stack /\ \E l \in {"pool", "steal"} : pc' = [pc EXCEPT ![t] = l]
          \/ UNCHANGED <<stack, pc>> /\ pc[t] = "steal"
      BY <2>1 DEF PopLocal, PopPool, Steal, ForeignLoop, Begin, Goto
    <3>3. pc' = [pc EXCEPT ![t] = pc'[t]]
      BY <1>1, <3>2
    <3>4. pc'[t] \in {"run", "pool", "steal"}
      BY <1>1, <3>2
    <3> QED BY <2>0, <3>1, <3>2, <3>3, <3>4, MovesOn
  <2>2. CASE Yield(t)
    <3>1. /\ pc' = [pc EXCEPT ![t] = ReturnTo(t, Len(stack[t]))] /\ UNCHANGED <<stack, future>>
      BY <2>2 DEF Yield, Goto, taskVars
    <3>2. CASE stack[t] = <<>>
      BY <2>0, <3>1, <3>2, MovesOn
    <3>3. CASE stack[t] # <<>>
      <4>1. PICK n \in Nat : n = Len(stack[t]) /\ n > 0
        BY <1>1, <3>3, StackFacts
      <4>2. ReturnTo(t, n) = "run"
        BY <4>1 DEF ReturnTo
      <4>3. pc'[t] = "run"
        BY <1>1, <3>1, <4>1, <4>2
      <4> QED BY <2>0, <3>1, <4>3, MovesOn
    <3> QED BY <3>2, <3>3
  <2>3. CASE EndTask(t)
    <3>1. /\ pc'[t] = "run" \/ stack'[t] = <<>>
          /\ Top(t).task \in Tasks => future[Top(t).task] = "pending"
          /\ future' = IF Top(t).task \in Tasks THEN [future EXCEPT ![Top(t).task] = "ready"] ELSE future
      BY <2>3, EndTaskLeaves
    <3>2. \A s \in Threads : s # t => pc'[s] = pc[s] /\ stack'[s] = stack[s]
      BY <1>1, <2>3 DEF EndTask, Finish, Goto
    <3>3. ASSUME life \in {"ctor", "spawn", "unwind", "threw"}, NEW u \in Tasks
          PROVE  future'[u] = future[u]
      <4>1. Top(t).task \notin Tasks
        BY <3>1, <3>3 DEF PoolInv
      <4> QED BY <3>1, <4>1
    <3> QED BY <2>0, <3>1, <3>2, <3>3, PoolOfOne
  <2>4. CASE CheckDone(t) \/ CheckPause(t)
    <3>1. pc[t] \in {"loop", "pause"} /\ UNCHANGED <<stack, future>>
      BY <2>4 DEF CheckDone, CheckPause, taskVars
    <3>2. \E l : pc' = [pc EXCEPT ![t] = l]
      <4>1. pc = [pc EXCEPT ![t] = pc[t]]
        BY <1>1
      <4> QED BY <2>4, <4>1 DEF CheckDone, CheckPause, Goto
    <3> QED BY <2>0, <3>1, <3>2, MovesOn
  <2>5. CASE Submit(t)
    <3>1. life \notin {"ctor", "spawn", "unwind", "threw"}
      BY <2>5, NobodyCalls DEF Submit
    <3>2. pc[t] = "run" /\ pc' = pc /\ Advance(t)
      BY <2>5 DEF Submit, MayRun
    <3>3. \A s \in Threads : s # t => pc'[s] = pc[s] /\ stack'[s] = stack[s]
      BY <1>1, <3>2 DEF Advance
    <3> QED BY <2>0, <3>1, <3>2, <3>3, PoolOfOne
  <2>6. CASE Get(t) \/ Help(t) \/ CallPause(t) \/ CallResume(t)
    <3>1. /\ pc[t] = "run" /\ UNCHANGED future
          /\ Advance(t) \/ UNCHANGED stack
          /\ pc' = pc \/ pc' = [pc EXCEPT ![t] = "local"]
      BY <2>6 DEF Get, Help, CallPause, CallResume, MayRun, Goto
    <3>2. pc' = [pc EXCEPT ![t] = pc'[t]] /\ pc'[t] \in {"run", "local"}
      BY <1>1, <3>1
    <3> QED BY <2>0, <3>1, <3>2, MovesOn
  <2> QED BY <1>6, <2>1, <2>2, <2>3, <2>4, <2>5, <2>6 DEF ThreadStep
<1>7. ASSUME NEW t \in Threads, SpuriousWake(t) PROVE PoolInv'
  BY <1>7 DEF SpuriousWake, taskVars, poolVars, PoolInv, Joined
<1> QED BY <1>2, <1>3, <1>4, <1>5, <1>6, <1>7 DEF Next, OwnerStep

\* What the calls and returns of a thread do to the tasks on the stacks.
LEMMA StartOn ==
    ASSUME TasksTypeOK, NEW t \in Threads, NEW u \in Callables, Start(t, u)
    PROVE  \A s \in Threads : \A v : On(s, v)' <=> On(s, v) \/ (s = t /\ v = u)
<1>1. /\ \A s \in Threads, k \in Nat :
           k \in DOMAIN stack'[s] <=> k \in DOMAIN stack[s] \/ (s = t /\ k = Len(stack[t]) + 1)
      /\ \A s \in Threads : \A k \in DOMAIN stack[s] : stack'[s][k] = stack[s][k]
      /\ Len(stack[t]) + 1 \notin DOMAIN stack[t] /\ Len(stack[t]) + 1 \in Nat
      /\ stack'[t][Len(stack[t]) + 1] = [task |-> u, ip |-> 1]
  BY StartFacts
<1> DEFINE n == Len(stack[t]) + 1
<1> HIDE DEF n
<1>2. n \in Nat /\ \A s \in Threads, k \in Nat : \A v :
         Holds(s, k, v)' <=> Holds(s, k, v) \/ (s = t /\ k = n /\ v = u)
  BY <1>1 DEF Holds, n
<1> QED BY <1>2 DEF On

LEMMA FinishOn ==
    ASSUME IInv, NEW t \in Threads, Finish(t)
    PROVE  /\ On(t, Top(t).task)
           /\ \A s \in Threads : \A v : v # Top(t).task => (On(s, v)' <=> On(s, v))
<1> DEFINE n == Len(stack[t])
           u == Top(t).task
<1>1. TasksTypeOK
  BY DEF IInv, TypeOK
<1>2. /\ n \in DOMAIN stack[t] /\ n \in Nat
      /\ \A s \in Threads, k \in Nat :
           k \in DOMAIN stack'[s] <=> k \in DOMAIN stack[s] /\ ~(s = t /\ k = n)
      /\ \A s \in Threads : \A k \in DOMAIN stack'[s] : stack'[s][k] = stack[s][k]
  BY <1>1, FinishFacts, StackFacts
<1>3. Holds(t, n, u)
  BY <1>2 DEF Holds, Top
<1> HIDE DEF n, u
<1>4. \A s \in Threads, k \in Nat : \A v : Holds(s, k, v)' <=> Holds(s, k, v) /\ ~(s = t /\ k = n)
  BY <1>2 DEF Holds
<1>5. \A v : v # u => \A s \in Threads, k \in Nat : Holds(s, k, v) => ~(s = t /\ k = n)
  BY <1>3 DEF Holds
<1>6. \A s \in Threads : \A v : v # u => (On(s, v)' <=> On(s, v))
  BY <1>4, <1>5 DEF On
<1>7. On(t, u)
  BY <1>2, <1>3 DEF On
<1> QED BY <1>6, <1>7 DEF u

LEMMA AdvanceOn ==
    ASSUME TasksTypeOK, NEW t \in Threads, stack[t] # <<>>, Advance(t)
    PROVE  \A s \in Threads : \A v : On(s, v)' <=> On(s, v)
<1>1. /\ \A s \in Threads : DOMAIN stack'[s] = DOMAIN stack[s]
      /\ \A s \in Threads : \A k \in DOMAIN stack[s] : stack'[s][k].task = stack[s][k].task
  BY AdvanceFacts
<1>2. \A s \in Threads, k \in Nat : \A v : Holds(s, k, v)' <=> Holds(s, k, v)
  BY <1>1 DEF Holds
<1> QED BY <1>2 DEF On

\* A submission leaves the other tasks where they are.
LEMMA SubmitLeaves ==
    ASSUME IInv, NEW t \in Threads, Submit(t)
    PROVE  /\ NextCall(t).task \in Tasks /\ future[NextCall(t).task] = "none"
           /\ \A s \in Threads : \A v : On(s, v)' <=> On(s, v)
           /\ \A q \in HasLocal : \A v : v # NextCall(t).task => (In(q, v)' <=> In(q, v))
<1>1. /\ TypeOK /\ TasksTypeOK /\ NotYetSubmitted /\ Calls(t, "submit") /\ Advance(t)
      /\ \A q \in HasLocal : local[q] \in Seq(Tasks) /\ DOMAIN local[q] \subseteq Nat \ {0}
      /\ local \in [HasLocal -> Seq(Tasks)]
  BY TypeFacts DEF IInv, TypeOK, Submit
<1> DEFINE n == Len(stack[t])
           c == Top(t).task
           i == Top(t).ip
<1>2. /\ stack[t] # <<>> /\ n \in Nat /\ Holds(t, n, c) /\ c \in Callables
      /\ i \in DOMAIN program[c] /\ i \in Nat /\ stack[t][n].ip = i
      /\ NextCall(t) = program[c][i] /\ NextCall(t).call = "submit" /\ NextCall(t).task \in Tasks
  BY <1>1, CallFacts
<1> HIDE DEF n, c, i
<1>3. PICK u \in Tasks : u = NextCall(t).task
  BY <1>2
<1>4. future[u] = "none"
  <2>1. Submits(c, i, u) /\ Ahead(c, i)
    BY <1>2, <1>3 DEF Submits, Ahead
  <2> QED BY <2>1, <1>1, <1>2 DEF NotYetSubmitted
<1>5. \A s \in Threads : \A v : On(s, v)' <=> On(s, v)
  BY <1>1, <1>2, AdvanceOn
<1>6. ASSUME NEW q \in HasLocal, NEW v, v # u PROVE In(q, v)' <=> In(q, v)
  <2>1. CASE q # t \/ t \notin HasLocal
    <3>1. local'[q] = local[q]
      BY <1>1, <2>1 DEF Submit
    <3> QED BY <3>1 DEF In, LocalHolds
  <2>2. CASE q = t /\ t \in HasLocal
    <3>1. local'[t] = PushFront(local[t], u)
      BY <1>1, <1>3, <2>2 DEF Submit
    <3>2. PICK p \in Seq(Tasks) : p = local[t]
      BY <1>1, <2>2
    <3>3. /\ \A k \in Nat : k \in DOMAIN PushFront(p, u) <=> k = 1 \/ (k > 1 /\ k - 1 \in DOMAIN p)
          /\ PushFront(p, u)[1] = u
          /\ \A k \in DOMAIN PushFront(p, u) : k # 1 => PushFront(p, u)[k] = p[k - 1]
      BY FrontPlaces
    <3>4. \A k \in Nat : LocalHolds(t, k, v)' <=> k > 1 /\ LocalHolds(t, k - 1, v)
      BY <1>6, <3>1, <3>2, <3>3 DEF LocalHolds
    <3>5. \A k \in Nat : LocalHolds(t, k, v) => k > 0
      BY <1>1, <2>2 DEF LocalHolds
    <3>6. ASSUME NEW k \in Nat, LocalHolds(t, k, v)' PROVE In(t, v)
      <4>1. k - 1 \in Nat /\ LocalHolds(t, k - 1, v)
        BY <3>4, <3>6
      <4> QED BY <4>1 DEF In
    <3>7. ASSUME NEW k \in Nat, LocalHolds(t, k, v) PROVE In(t, v)'
      <4>1. k + 1 \in Nat /\ k + 1 > 1 /\ (k + 1) - 1 = k
        BY <3>5, <3>7
      <4>2. LocalHolds(t, k + 1, v)'
        BY <3>4, <3>7, <4>1
      <4> QED BY <4>1, <4>2 DEF In
    <3> QED BY <2>2, <3>6, <3>7 DEF In
  <2> QED BY <2>1, <2>2
<1> QED BY <1>3, <1>4, <1>5, <1>6

\* What has become of the tasks, and which are away, by the places where they are.
StateSays ==
    /\ \A u \in Tasks : TaskState[u] = IF future[u] # "pending" THEN future[u]
                                       ELSE IF OnStack(u) THEN "running" ELSE "waiting"
    /\ \A u : u \in Away <=> /\ u \in Tasks /\ future[u] = "pending"
                             /\ \E t \in Foreign : On(t, u) \/ In(t, u)

LEMMA StateNow == ASSUME TypeOK PROVE StateSays
<1>1. /\ \A t \in Threads : \A k \in DOMAIN stack[t] : k \in Nat
      /\ \A t \in Foreign : t \in Threads /\ t \in HasLocal
      /\ \A q \in HasLocal : DOMAIN local[q] \subseteq Nat
  <2>1. TasksTypeOK
    BY DEF TypeOK
  <2>2. \A t \in Threads : \A k \in DOMAIN stack[t] : k \in Nat
    BY <2>1, StackFacts
  <2> QED BY <2>2, TypeFacts, PoolAssumption DEF HasLocal, Threads
<1>2. \A t \in Threads : \A u : On(t, u) <=> Runs(t, u)
  BY <1>1 DEF On, Holds, Runs
<1>3. \A t \in Foreign : \A u : In(t, u) <=> \E k \in DOMAIN local[t] : local[t][k] = u
  BY <1>1 DEF In, LocalHolds
<1>4. \A u : OnStack(u) <=> \E t \in Threads : Runs(t, u)
  BY <1>2, ByThread
<1>5. \A u \in Tasks : TaskState[u] = IF future[u] # "pending" THEN future[u]
                                      ELSE IF OnStack(u) THEN "running" ELSE "waiting"
  BY <1>4 DEF TaskState
<1>6. \A u : u \in Away <=> /\ u \in Tasks /\ future[u] = "pending"
                            /\ \E t \in Foreign : On(t, u) \/ In(t, u)
  BY <1>1, <1>2, <1>3 DEF Away
<1> QED BY <1>5, <1>6 DEF StateSays

LEMMA StateNext == TypeOK' => StateSays'
<1>1. TypeOK => StateSays
  BY StateNow
<1> QED BY <1>1, PTL

\* A step that leaves a task as it is and where it is.
Stays(v) ==
    /\ future'[v] = future[v]
    /\ \A t \in Threads : On(t, v)' <=> On(t, v)
    /\ \A q \in HasLocal : In(q, v)' <=> In(q, v)

LEMMA Staying ==
    ASSUME TypeOK, TypeOK', NEW v \in Tasks, Stays(v)
    PROVE  TaskState'[v] = TaskState[v] /\ (v \in Away' <=> v \in Away)
<1>1. StateSays /\ StateSays' /\ \A t \in Foreign : t \in Threads /\ t \in HasLocal
  BY StateNow, StateNext, PoolAssumption DEF HasLocal, Threads
<1>2. OnStack(v)' <=> OnStack(v)
  BY ByThread DEF Stays, OnStack, On
<1>3. v \in Away' <=> v \in Away
  BY <1>1 DEF StateSays, Stays
<1> QED BY <1>1, <1>2, <1>3 DEF StateSays, Stays

\* A step that moves one task, and one that moves none.
LEMMA OneMoves ==
    ASSUME TypeOK, TypeOK', NEW u \in Tasks, \A v \in Tasks : v # u => Stays(v)
    PROVE  /\ TaskState' = [TaskState EXCEPT ![u] = TaskState'[u]]
           /\ \A v : v # u => (v \in Away' <=> v \in Away)
<1>1. TaskState = [v \in Tasks |-> TaskState[v]] /\ TaskState' = [v \in Tasks |-> TaskState'[v]]
  BY DEF TaskState
<1>2. \A v \in Tasks : v # u => TaskState'[v] = TaskState[v] /\ (v \in Away' <=> v \in Away)
  BY Staying
<1>3. Away \subseteq Tasks /\ Away' \subseteq Tasks
  BY DEF Away
<1> QED BY <1>1, <1>2, <1>3

LEMMA NoneMoves ==
    ASSUME TypeOK, TypeOK', \A v \in Tasks : Stays(v)
    PROVE  TaskState' = TaskState /\ Away' = Away
<1>1. TaskState = [v \in Tasks |-> TaskState[v]] /\ TaskState' = [v \in Tasks |-> TaskState'[v]]
  BY DEF TaskState
<1>2. \A v \in Tasks : TaskState'[v] = TaskState[v] /\ (v \in Away' <=> v \in Away)
  BY Staying
<1>3. Away \subseteq Tasks /\ Away' \subseteq Tasks
  BY DEF Away
<1> QED BY <1>1, <1>2, <1>3

\* A thread takes a task from some queue and begins it: it is away if the thread
\* is another pool's, and was only if it waited in this thread's queue.
LEMMA BeginMoves ==
    ASSUME IInv, IInv', NEW t \in Threads, NEW u \in Tasks, Start(t, u),
           UNCHANGED <<future, life>>, Queued(u),
           \A q \in Foreign : In(q, u) => q = t,
           \A q \in HasLocal : \A v : v # u => (In(q, v)' <=> In(q, v))
    PROVE  Promised!Begin(u)
<1>1. TypeOK /\ TypeOK' /\ TasksTypeOK /\ StateSays /\ StateSays' /\ u \in Callables
      /\ Foreign \subseteq Threads
  BY StateNow, StateNext, PoolAssumption DEF IInv, TypeOK, Callables, Threads
<1>2. \A s \in Threads : \A v : On(s, v)' <=> On(s, v) \/ (s = t /\ v = u)
  BY <1>1, StartOn
<1>3. \A v \in Tasks : v # u => Stays(v)
  BY <1>2 DEF Stays
<1>4. future[u] = "pending" /\ future'[u] = "pending" /\ ~OnStack(u)
  BY Placed
<1>5. On(t, u)' /\ OnStack(u)' /\ \A s \in Threads : ~On(s, u)
  <2>1. On(t, u)'
    BY <1>2
  <2>2. OnStack(u)'
    BY <2>1 DEF OnStack, On
  <2> QED BY <2>1, <2>2, <1>4, ByThread
<1>6. TaskState[u] = "waiting" /\ TaskState'[u] = "running"
  BY <1>1, <1>4, <1>5 DEF StateSays
<1>7. /\ TaskState' = [TaskState EXCEPT ![u] = "running"]
      /\ \A v : v # u => (v \in Away' <=> v \in Away)
  BY <1>1, <1>3, <1>6, OneMoves
<1>8. u \in Away => u \in Away'
  <2> SUFFICES ASSUME u \in Away PROVE u \in Away'
    OBVIOUS
  <2>1. PICK f \in Foreign : On(f, u) \/ In(f, u)
    BY <1>1 DEF StateSays
  <2>2. f = t
    BY <1>1, <1>5, <2>1
  <2> QED BY <1>1, <1>4, <1>5, <2>2 DEF StateSays
<1>9. Away' \in {Away, Away \cup {u}}
  BY <1>7, <1>8
<1> QED BY <1>6, <1>7, <1>9 DEF Promised!Begin, Promised!Become

LEMMA EndMoves ==
    ASSUME IInv, IInv', NEW t \in Threads, EndTask(t), Top(t).task \in Tasks
    PROVE  Promised!End(Top(t).task)
<1> DEFINE u == Top(t).task
<1>1. TypeOK /\ TypeOK' /\ StateSays /\ StateSays'
  BY StateNow, StateNext DEF IInv
<1>2. /\ Finish(t) /\ UNCHANGED <<local, life>>
      /\ future' = [future EXCEPT ![u] = "ready"] /\ future[u] = "pending"
      /\ future \in [Tasks -> {"none", "pending", "ready", "broken"}]
  BY <1>1, EndTaskLeaves, TypeFacts DEF EndTask, poolVars
<1>3. On(t, u) /\ \A s \in Threads : \A v : v # u => (On(s, v)' <=> On(s, v))
  BY <1>2, FinishOn
<1>4. u \in Tasks
  OBVIOUS
<1> HIDE DEF u
<1>5. future'[u] = "ready" /\ \A v \in Tasks : v # u => future'[v] = future[v]
  BY <1>2, <1>4
<1>6. \A q \in HasLocal : \A v : In(q, v)' <=> In(q, v)
  BY <1>2 DEF In, LocalHolds
<1>7. \A v \in Tasks : v # u => Stays(v)
  BY <1>3, <1>5, <1>6 DEF Stays
<1>8. OnStack(u)
  BY <1>3, ByThread
<1>9. TaskState[u] = "running" /\ TaskState'[u] = "ready" /\ u \notin Away'
  BY <1>1, <1>2, <1>4, <1>5, <1>8 DEF StateSays
<1>10. /\ TaskState' = [TaskState EXCEPT ![u] = "ready"]
       /\ \A v : v # u => (v \in Away' <=> v \in Away)
  BY <1>1, <1>4, <1>7, <1>9, OneMoves
<1>11. Away' = Away \ {u}
  BY <1>9, <1>10
<1>12. Promised!End(u)
  BY <1>2, <1>9, <1>10, <1>11 DEF Promised!End, Promised!Become
<1> QED BY <1>12 DEF u

LEMMA SubmitMoves ==
    ASSUME IInv, PauseInv, PoolInv, IInv', NEW t \in Threads, Submit(t)
    PROVE  NextCall(t).task \in Tasks /\ Promised!Submit(NextCall(t).task)
<1>1. TypeOK /\ TypeOK' /\ StateSays /\ StateSays'
  BY StateNow, StateNext DEF IInv
<1>2. PICK u \in Tasks : u = NextCall(t).task
  BY SubmitLeaves
<1>3. /\ future[u] = "none"
      /\ \A s \in Threads : \A v : On(s, v)' <=> On(s, v)
      /\ \A q \in HasLocal : \A v : v # u => (In(q, v)' <=> In(q, v))
  BY <1>2, SubmitLeaves
<1>4. /\ future' = [future EXCEPT ![u] = "pending"] /\ life' = life
      /\ future \in [Tasks -> {"none", "pending", "ready", "broken"}]
  BY <1>2, <1>1, TypeFacts DEF Submit
<1>5. life \notin {"dead", "threw"}
  BY RunsOpen DEF Submit
<1>6. future'[u] = "pending" /\ \A v \in Tasks : v # u => future'[v] = future[v]
  BY <1>3, <1>4
<1>7. \A v \in Tasks : v # u => Stays(v)
  BY <1>3, <1>6 DEF Stays
<1>8. ~OnStack(u) /\ ~OnStack(u)'
  <2>1. ~OnStack(u)
    BY <1>3, Placed
  <2> QED BY <2>1, <1>3 DEF OnStack, On
<1>9. TaskState[u] = "none" /\ TaskState'[u] = "waiting" /\ u \notin Away
  <2>1. future[u] = "none" /\ future'[u] = "pending" /\ ~OnStack(u)'
    BY <1>3, <1>6, <1>8
  <2>2. TaskState[u] = "none" /\ u \notin Away
    BY <1>1, <2>1 DEF StateSays
  <2>3. TaskState'[u] = "waiting"
    BY <1>1, <2>1 DEF StateSays
  <2> QED BY <2>2, <2>3
<1>10. /\ TaskState' = [TaskState EXCEPT ![u] = "waiting"]
      /\ \A v : v # u => (v \in Away' <=> v \in Away)
  BY <1>1, <1>3, <1>7, <1>9, OneMoves
<1>11. Away' \in {Away, Away \cup {u}}
  BY <1>9, <1>10
<1>12. Promised!Submit(u)
  BY <1>4, <1>5, <1>9, <1>10, <1>11 DEF Promised!Submit, Promised!Become
<1> QED BY <1>2, <1>12

\* When the queues are destroyed, what waits in another pool's queue stays.
LEMMA CloseMoves ==
    ASSUME IInv, PauseInv, PoolInv, IInv', Join
    PROVE  Promised!Close
<1>1. TypeOK /\ TypeOK' /\ StateSays /\ StateSays' /\ QueuedOnce
      /\ Foreign \subseteq HasLocal /\ Foreign \subseteq Threads
      /\ \A q \in Foreign : q \notin Workers
  BY StateNow, StateNext, PauseFacts, PoolAssumption DEF IInv, HasLocal, Threads
<1>2. /\ life \in {"join", "unwind"} /\ life' \in {"dead", "threw"} /\ Joined /\ stack' = stack
  BY DEF Join
<1>3. /\ \A v \in Tasks : future'[v] = IF Destroyed(v) THEN "broken" ELSE future[v]
      /\ \A q \in HasLocal, i \in Nat : \A v :
           LocalHolds(q, i, v)' <=> q \notin Workers /\ LocalHolds(q, i, v)
  BY <1>1, JoinFacts
<1>4. \A t \in Foreign : \A v : (In(t, v)' <=> In(t, v)) /\ (On(t, v)' <=> On(t, v))
  BY <1>1, <1>2, <1>3 DEF In, On, Holds
<1>5. ASSUME NEW v \in Tasks
      PROVE  /\ TaskState[v] = "running" => v \in Away
             /\ TaskState'[v] = IF TaskState[v] = "waiting" /\ v \notin Away
                                THEN "broken" ELSE TaskState[v]
             /\ v \in Away' <=> v \in Away
  <2>1. OnStack(v) => \E t \in Foreign : On(t, v)
    BY <1>2, JoinedIdle, ByThread
  <2>2. future[v] \in {"none", "pending", "ready", "broken"}
    BY <1>1, TypeFacts
  <2>3. OnStack(v)' <=> OnStack(v)
    BY <1>2 DEF OnStack, Holds
  <2>4. CASE Destroyed(v)
    <3>1. Queued(v)
      BY <1>1, <2>4, TypeFacts DEF Destroyed, Queued, InLocal
    <3>2. future[v] = "pending" /\ ~OnStack(v)
      BY <3>1, Placed
    <3>3. \A t \in Foreign : ~On(t, v) /\ ~In(t, v)
      <4>1. \A t \in Foreign : ~On(t, v)
        BY <1>1, <3>2, ByThread
      <4>2. ASSUME NEW t \in Foreign, In(t, v) PROVE FALSE
        <5>1. ~InPool(v) /\ t \in HasLocal
          BY <1>1, <4>2, ByThread DEF QueuedOnce
        <5>2. PICK q \in Workers, i \in Nat : LocalHolds(q, i, v)
          BY <2>4, <5>1 DEF Destroyed
        <5>3. q \in HasLocal /\ t # q
          BY <1>1, <5>2 DEF HasLocal
        <5> QED BY <1>1, <4>2, <5>1, <5>2, <5>3 DEF QueuedOnce, In
      <4> QED BY <4>1, <4>2
    <3>4. v \notin Away /\ TaskState[v] = "waiting" /\ TaskState'[v] = "broken" /\ v \notin Away'
      BY <1>1, <1>3, <2>4, <3>2, <3>3 DEF StateSays
    <3> QED BY <3>4
  <2>5. CASE ~Destroyed(v)
    <3>1. future'[v] = future[v]
      BY <1>3, <2>5
    <3>2. v \in Away' <=> v \in Away
      BY <1>1, <1>4, <3>1 DEF StateSays
    <3>3. TaskState'[v] = TaskState[v]
      BY <1>1, <2>3, <3>1 DEF StateSays
    <3>4. TaskState[v] = "running" => v \in Away
      BY <1>1, <2>1, <2>2 DEF StateSays
    <3>5. ASSUME TaskState[v] = "waiting" PROVE v \in Away
      <4>1. future[v] = "pending" /\ ~OnStack(v)
        BY <1>1, <2>2, <3>5 DEF StateSays
      <4>2. Queued(v)
        BY <4>1, Placed
      <4>3. PICK q \in HasLocal, i \in Nat : LocalHolds(q, i, v)
        BY <2>5, <4>2 DEF Queued, Destroyed, InLocal
      <4>4. q \in Foreign /\ In(q, v)
        BY <2>5, <4>3 DEF Destroyed, HasLocal, In
      <4> QED BY <1>1, <4>1, <4>4 DEF StateSays
    <3> QED BY <3>2, <3>3, <3>4, <3>5
  <2> QED BY <2>4, <2>5
<1>6. TaskState' = [v \in Tasks |-> IF TaskState[v] = "waiting" /\ v \notin Away
                                    THEN "broken" ELSE TaskState[v]]
  BY <1>5 DEF TaskState
<1>7. Away' = Away
  <2>1. Away \subseteq Tasks /\ Away' \subseteq Tasks
    BY DEF Away
  <2> QED BY <2>1, <1>5
<1> QED BY <1>2, <1>5, <1>6, <1>7 DEF Promised!Close, Promised!Waiting, Promised!Running

\* The steps of the pool are steps of TaskPool, or none.
LEMMA PromisesKept ==
    ASSUME IInv, PauseInv, PoolInv, IInv', [Next]_vars
    PROVE  [Promised!Next]_(Promised!vars)
<1> DEFINE isOpen == life \notin {"dead", "threw"}
<1>1. /\ TypeOK /\ TypeOK' /\ TasksTypeOK
      /\ \A q \in HasLocal : local[q] \in Seq(Tasks)
      /\ poolWorkQueue \in Seq(Tasks) /\ DOMAIN poolWorkQueue \subseteq Nat \ {0}
      /\ Workers \subseteq HasLocal /\ Foreign \subseteq HasLocal
      /\ \A q \in Workers : q \notin Foreign
  BY TypeFacts, PauseFacts, PoolAssumption DEF IInv, TypeOK, HasLocal
<1>2. ASSUME UNCHANGED <<future, local>>, isOpen' = isOpen,
             \A s \in Threads : \A v : On(s, v)' <=> On(s, v)
      PROVE  UNCHANGED Promised!vars
  <2>1. \A v \in Tasks : Stays(v)
    BY <1>2 DEF Stays, In, LocalHolds
  <2>2. TaskState' = TaskState /\ Away' = Away
    BY <1>1, <2>1, NoneMoves
  <2> QED BY <1>2, <2>2 DEF Promised!vars
<1>3. CASE UNCHANGED <<future, local, stack>> /\ isOpen' = isOpen
  BY <1>2, <1>3 DEF On, Holds
<1>4. CASE Join
  BY <1>4, CloseMoves DEF Promised!Next
<1>5. CASE OwnerStep /\ ~Join
  <2>1. UNCHANGED <<future, local, stack>> /\ isOpen' = isOpen
    BY <1>5 DEF OwnerStep, BuildQueues, StartThread, ConstructorFails, Constructed, SetDone,
          DtorResume, DtorNotify, taskVars
  <2> QED BY <2>1, <1>3
<1>6. CASE Finished \/ UNCHANGED vars
  <2>1. UNCHANGED <<future, local, stack>> /\ isOpen' = isOpen
    BY <1>6 DEF Finished, vars, taskVars, poolVars
  <2> QED BY <2>1, <1>3
<1>7. ASSUME NEW t \in Threads, ThreadStep(t)
      PROVE  [Promised!Next]_(Promised!vars)
  <2>1. CASE PopLocal(t) \/ ForeignLoop(t)
    <3>1. CASE UNCHANGED <<stack, local>>
      <4>1. UNCHANGED <<future, local, stack>> /\ isOpen' = isOpen
        BY <2>1, <3>1 DEF PopLocal, ForeignLoop
      <4> QED BY <4>1, <1>3
    <3>2. CASE ~UNCHANGED <<stack, local>>
      <4>1. /\ t \in HasLocal /\ local[t] # <<>> /\ Start(t, Head(local[t]))
            /\ local' = [local EXCEPT ![t] = Tail(@)]
            /\ UNCHANGED <<future, life, poolWorkQueue>>
        BY <2>1, <3>2 DEF PopLocal, ForeignLoop, Begin, HasLocal
      <4>2. PICK u \in Tasks : u = Head(local[t])
        BY <1>1, <4>1, TailPlaces
      <4>3. /\ Queued(u)
            /\ \A r \in HasLocal : /\ In(r, u) => r = t
                                   /\ \A v : v # u => (In(r, v)' <=> In(r, v))
        BY <4>1, <4>2, LocalTailTaken
      <4>4. Promised!Begin(u)
        BY <1>1, <4>1, <4>2, <4>3, BeginMoves
      <4> QED BY <4>2, <4>4 DEF Promised!Next
    <3> QED BY <3>1, <3>2
  <2>2. CASE PopPool(t)
    <3>1. CASE poolWorkQueue = <<>>
      <4>1. UNCHANGED <<future, local, stack>> /\ isOpen' = isOpen
        BY <2>2, <3>1 DEF PopPool
      <4> QED BY <4>1, <1>3
    <3>2. CASE poolWorkQueue # <<>>
      <4>1. Start(t, Head(poolWorkQueue)) /\ UNCHANGED <<future, life, local>>
        BY <2>2, <3>2 DEF PopPool, Begin
      <4>2. PICK u \in Tasks : u = Head(poolWorkQueue)
        BY <1>1, <3>2, TailPlaces
      <4>3. PoolHolds(1, u)
        BY <1>1, <3>2, <4>2, TailPlaces DEF PoolHolds
      <4>4. InPool(u) /\ Queued(u) /\ ~InLocal(u)
        BY <4>3 DEF InPool, Queued, IInv, QueuedOnce
      <4>5. /\ \A q \in Foreign : ~In(q, u)
            /\ \A q \in HasLocal : \A v : In(q, v)' <=> In(q, v)
        BY <1>1, <4>1, <4>4, ByThread DEF In, LocalHolds
      <4>6. Promised!Begin(u)
        BY <4>1, <4>2, <4>4, <4>5, BeginMoves
      <4> QED BY <4>2, <4>6 DEF Promised!Next
    <3> QED BY <3>1, <3>2
  <2>3. CASE Steal(t)
    <3>1. PICK r \in Workers : r = Victim(t)
      BY <1>1, <2>3, VictimIsWorker DEF Steal
    <3>2. CASE local[r] = <<>>
      <4>1. UNCHANGED <<future, local, stack>> /\ isOpen' = isOpen
        BY <2>3, <3>1, <3>2 DEF Steal
      <4> QED BY <4>1, <1>3
    <3>3. CASE local[r] # <<>>
      <4>1. /\ Start(t, local[r][Len(local[r])]) /\ local' = [local EXCEPT ![r] = PopBack(@)]
            /\ UNCHANGED <<future, life, poolWorkQueue>> /\ r \in HasLocal
        BY <1>1, <2>3, <3>1, <3>3 DEF Steal, Begin
      <4>2. PICK u \in Tasks : u = local[r][Len(local[r])]
        BY <1>1, <3>3, <4>1, BackPlaces
      <4>3. /\ Queued(u)
            /\ \A q \in HasLocal : /\ In(q, u) => q = r
                                   /\ \A v : v # u => (In(q, v)' <=> In(q, v))
        BY <3>3, <4>1, <4>2, LocalBackTaken, ZenonT(30)
      <4>4. \A q \in Foreign : ~In(q, u)
        BY <1>1, <4>3
      <4>5. Promised!Begin(u)
        BY <4>1, <4>2, <4>3, <4>4, BeginMoves
      <4> QED BY <4>2, <4>5 DEF Promised!Next
    <3> QED BY <3>2, <3>3
  <2>4. CASE EndTask(t)
    <3>1. CASE Top(t).task \in Tasks
      BY <2>4, <3>1, EndMoves DEF Promised!Next
    <3>2. CASE Top(t).task \notin Tasks
      <4>1. UNCHANGED <<future, local, life>> /\ Finish(t)
        BY <2>4, <3>2 DEF EndTask, Finish, poolVars
      <4>2. \A v \in Tasks : Stays(v)
        BY <3>2, <4>1, FinishOn DEF Stays, In, LocalHolds
      <4>3. TaskState' = TaskState /\ Away' = Away
        BY <1>1, <4>2, NoneMoves
      <4> QED BY <4>1, <4>3 DEF Promised!vars
    <3> QED BY <3>1, <3>2
  <2>5. CASE Submit(t)
    BY <2>5, SubmitMoves DEF Promised!Next
  <2>6. CASE Yield(t) \/ CheckDone(t) \/ CheckPause(t)
    <3>1. UNCHANGED <<future, local, stack>> /\ isOpen' = isOpen
      BY <2>6 DEF Yield, CheckDone, CheckPause, taskVars, poolVars
    <3> QED BY <3>1, <1>3
  <2>7. CASE Get(t) \/ Help(t) \/ CallPause(t) \/ CallResume(t)
    <3>1. /\ UNCHANGED <<future, local>> /\ isOpen' = isOpen /\ stack[t] # <<>>
          /\ Advance(t) \/ UNCHANGED stack
      BY <2>7 DEF Get, Help, CallPause, CallResume, Calls, poolVars
    <3>2. CASE UNCHANGED stack
      BY <3>1, <3>2, <1>3
    <3>3. CASE Advance(t)
      BY <1>1, <1>2, <3>1, <3>3, AdvanceOn
    <3> QED BY <3>1, <3>2, <3>3
  <2> QED BY <1>7, <2>1, <2>2, <2>3, <2>4, <2>5, <2>6, <2>7 DEF ThreadStep
<1>8. ASSUME NEW t \in Threads, SpuriousWake(t)
      PROVE  [Promised!Next]_(Promised!vars)
  <2>1. UNCHANGED <<future, local, stack>> /\ isOpen' = isOpen
    BY <1>8 DEF SpuriousWake, taskVars, poolVars
  <2> QED BY <2>1, <1>3
<1> QED BY <1>4, <1>5, <1>6, <1>7, <1>8 DEF Next

\* The pool keeps its promises for any number of workers, whoever steals, helps,
\* pauses or submits from another pool: each submitted task begins once and ends,
\* or is destroyed when every worker has been joined; what is with another
\* pool's thread by then is untouched, and nothing else is left to wait
\* (ThreadPool.h:147-217).
THEOREM PromisesHold == Spec => ImplementsTaskPool
<1>1. Init => Promised!Init
  <2> SUFFICES ASSUME Init PROVE Promised!Init
    OBVIOUS
  <2>1. future = [u \in Tasks |-> "none"] /\ life = "ctor"
    BY DEF Init, TasksInit
  <2>2. TaskState = [u \in Tasks |-> "none"] /\ Away = {}
    BY <2>1 DEF TaskState, Away
  <2> QED BY <2>1, <2>2 DEF Promised!Init
<1>2. Init => PauseInv
  BY PauseStarts
<1>3. IInv /\ PauseInv /\ [Next]_vars => PauseInv'
  BY PauseKept
<1>4. IInv /\ PauseInv /\ PoolInv /\ [Next]_vars => PoolInv'
  BY PoolKept
<1>5. IInv /\ PauseInv /\ PoolInv /\ IInv' /\ [Next]_vars => [Promised!Next]_(Promised!vars)
  BY PromisesKept
<1> QED BY <1>1, <1>2, <1>3, <1>4, <1>5, Starts, Keeps, PoolStarts, PTL
        DEF Spec, ImplementsTaskPool, Promised!Spec, Promised!vars
=============================================================================
