# LibraryLink Utilities: formal models

LibraryLink Utilities (LLU) is a C++ library on top of the LibraryLink C
interface of the Wolfram kernel. This directory holds TLA+ models of it, the TLC
configurations that check them on small instances, and TLAPS proofs for every
instance. `PROJECT.json` lists which lines of `src/` every definition
translates, the runs, the mutants that each property rejects, the hazards and
the findings.

## 1. The system

| Part | State | Operations | Hard behaviour |
|---|---|---|---|
| `Async::ThreadsafeQueue` (`Async/Queue.h`) | a list of nodes with a dummy tail, `head_mutex`, `tail_mutex`, `data_cond` | `push`, `waitPop` (2), `tryPop` (2), `empty` | two locks on one list, a result read after the lock is gone, lost wakeups |
| `Async::BasicThreadPool`, `ThreadJoiner` (`ThreadPool.h`, `Utilities.h`) | `done`, a `ThreadsafeQueue` of tasks, the threads | constructor, `submit`, `runPendingTask`, worker loop, destructor | shutdown while workers block, a constructor that fails half-way, tasks that call the pool |
| `Async::GenericThreadPool`, `WorkStealingQueue`, `Pausable` | `done`, a pool queue, one deque per worker, thread-local pointers, `pausedQ` and its condition variable | the same, `pause`, `resume` | stealing, pausing against shutdown, thread-local state shared by all pools of a type |
| Container wrappers (`Containers/Generic/*`) | raw container and its owner: kernel, library, or shared | create, receive, clone, move, abandon, pass, destroy, store in a list | every container released exactly once, whatever the path |
| `MArgumentManager` | arguments, result, acquired strings, one static result buffer | typed getters with a passing mode, setters, `getTuple` | a mode that disagrees with the kernel's, an argument read twice, the buffer taken by a nested call |
| `DataList`, `DataVector` | the kernel's list and column | iteration, `push_back`, construction from arrays | several wrappers of one list, appending while an iterator walks; failures after ownership was given up |
| `MArrayDimensions`, `MArray`, `Tensor`, `NumericArray`, `Image` | dimensions, offsets, length | flat index, checked and unchecked, dispatch on the type | overflow, bounds, rank, layouts of images |
| `WSStream` (`WSTP/*`) | the active link, a stack of loopback links, a dropped flag | `BeginExpr`, `DropExpr`, `EndExpr` | nesting, dropping, a failure half-way |
| `WSStream`, `WS::List`, `Array`, `StringData`, `String<E>` | the link, buffers of WSTP | `operator<<` and `operator>>` for values | reading another type than was sent, which release function a buffer needs, encodings |
| `ErrorManager`, `LibraryLinkError` (`ErrorLog/*`) | the map of registered errors, the next id, a loopback link in each exception | register, throw by name, copy, move, send parameters | unknown names, ids after duplicates, parameters left behind for the next failure, several threads on one link |
| `Logger` | one mutex | `log` | only the logger takes its mutex |
| `ManagedExpressionStore` | map from id to instance | kernel callback, create, get, release | an id released while its instance is constructed, an instance replaced while in use, nested calls |
| `ProgressMonitor`, `FileUtilities`, `LibraryData`, `UniquePtr` | a shared number; none; global function tables; none | set and test abort; validate and open | an abort that a loop does not notice; the rest are sequential wrappers |
| `LibraryLinkUtilities.wl`, CMake files, docs, tests | kernel side and build | load functions, format failures | not C++; read for what they promise |

How they meet: the kernel calls a library function, the macro of
`LibraryLinkFunctionMacro.h` builds an `MArgumentManager`, which wraps arguments
in containers; the result is passed back through it; any exception becomes an
error code. Exceptions come from `ErrorManager`, whose parameters travel through
`WSStream` on a loopback link. Library code may run tasks on a pool, which runs on a
`ThreadsafeQueue` or on `WorkStealingQueue`s, and log from there. The only
concurrency of the library is the `Async` part plus whatever tasks do with the
kernel's link; everything else runs on the kernel's thread, one call at a time.

What makes each part correct, as properties: the queue is linearizable, touches
no node from two threads and loses no wakeup; a pool conserves tasks, settles
futures and can be destroyed; a container has one responsible owner and is
released once; the loopback stack mirrors the nesting of the expressions;
errors have unique ids and throwing a documented name throws that name; the
store holds the ids the kernel has created and not released, and what a function
holds stays alive; a call returns its own string; the flat index is a bijection
onto `0 .. length - 1`; what is written to a link and read as the same type is
the same value, and a failed read has no effect on the variable; iterators visit every
element once.

## 2. Modules

| Module | Models | Built on |
|---|---|---|
| `FifoQueue` | what the queue promises: a FIFO whose operations take effect at one moment between call and return | |
| `ThreadsafeQueue` | `Async/Queue.h`: every lock, write to a shared node, wait and notification is a step | refines `FifoQueue` |
| `ThreadsafeQueueProofs` | theorems about it | `ThreadsafeQueue`, TLAPS |
| `TaskPrograms` | what clients and tasks do: programs of pool calls, call stacks, futures | |
| `TaskPool` | what both pools promise: each task waits, runs once and ends, and closing leaves none to wait | |
| `BasicThreadPool` | the pool on one blocking queue, with constructor and destructor | `TaskPrograms`; refines `TaskPool` |
| `BasicThreadPoolProofs` | theorems about it | `BasicThreadPool`, TLAPS |
| `Pausable` | `pause`, `resume`, `checkPause` | |
| `GenericThreadPool` | the pool with local queues and stealing | `TaskPrograms`, `Pausable`; refines `TaskPool` |
| `GenericThreadPoolProofs` | theorems about it | `GenericThreadPool`, TLAPS |
| `ContainerOwnership` | the container wrappers and the library calls that use them | |
| `ContainerOwnershipProofs` | theorems about it | `ContainerOwnership`, TLAPS |
| `OpenExpressions` | what the stream promises: nested open expressions | |
| `WSStream` | `BeginExpr`, `DropExpr`, `EndExpr` on the stack of loopback links | refines `OpenExpressions` |
| `WSStreamProofs` | theorems about it and about `Buffers` | `WSStream`, `Buffers`, TLAPS |
| `ErrorManager` | the registry: the library's table, a paclet's errors, codes, the Wolfram Language side's copy | |
| `ErrorReporting` | exceptions with their loopback links, `sendParameters`, `Logger`, the failures made of codes | `ErrorManager` |
| `ErrorReportingProofs` | theorems about both | `ErrorReporting`, TLAPS |
| `ManagedExpressions` | `ManagedExpressionStore` and the kernel behind it | |
| `LibraryCalls` | nested library calls: arguments, results, managed expressions, progress and abort | `ManagedExpressions` |
| `LibraryCallsProofs` | theorems about it | `LibraryCalls`, TLAPS |
| `WireTypes` | the tables of the functions of WSTP that get, put and release values of a type | |
| `TypedData` | `operator<<` and `operator>>` for values, as functions on token sequences | `WireTypes` |
| `Buffers` | the buffers WSTP hands out, and the variable that owns them | `WireTypes` |
| `TypedLink` | a sender and a reader | `TypedData`, `Buffers` |
| `Arrays` | dimensions, indices, images, types and their dispatch, as operators | |
| `Arguments` | slots of `get` and `getTuple`, types made of other types, widths of integers | `Arrays` |
| `Elements` | one array, image or type at a time for the operators of `Arrays` | `Arrays` |
| `ArgumentPacks` | one pack or integer at a time for those of `Arguments` | `Arguments`, `Elements` |
| `DataLists` | lists over shared stores, and their iterators | |
| `DataProofs` | theorems about `DataLists`, `Elements` and `ArgumentPacks` | all three, TLAPS |
| `MC*` | constants for TLC | `MCDataLists` composes `DataLists` with `ArgumentPacks` |

### ThreadsafeQueue

Variables are the members of the class (`head`, `tail`, the two mutexes, the
wait set of `data_cond`), the fields of all nodes (`data`, `next`, `free` for the
heap) and per thread its step, call, argument or result, and the node it owns
(`new_tail` in `push`, `old_head` in the pops). `chain` is a history variable, the
nodes from head to tail; no guard reads it.

`push` is `CallPush` (the node is allocated before any lock is taken),
`LockTail`, `SetData`, `SetNext`, `SetTail` (the dummy moves, the lock is
released) and `NotifyOne` (a second critical section on `head_mutex`: nothing is
written between its lock and its unlock, so it is one step). `waitPop`,
`tryPop` and `empty` are `CallPop`, `LockHead`, then `CompareEmpty` or
`CompareData` (`getTail` under `tail_mutex`, compared with `head`), then `Block`
or `PopHead`, and `Return`, where the overloads with a `shared_ptr` read the
value from the old head, outside of any lock. `SpuriousWake` is the standard's
licence for `condition_variable::wait`.

`FifoQueue` knows only items and calls. The mapping: `items` is the data of the
chain without its dummy; a call is applied once it has passed `SetTail`,
`PopHead`, or the look at the tail that found nothing. That look happens at the
moment of `getTail`, so "empty" was true then though it may be false at the
return.

Left out: an exception thrown by an allocation, which leaves `push` before it
has taken a lock; the element type, whose move does not throw.

### BasicThreadPool

One step per queue operation, as the refinement above allows. `life` follows the owner through
constructor (`StartThread`, `StartFails`, `Constructed`) and destructor (`SetDone`,
`PushEmptyTask`, `AllPushed`, `Join`); a constructor that throws skips the destructor's body and
goes through the joiner. A worker is `CheckDone`, `RunPendingTask`, the task's own calls,
`EndTask`. Tasks and clients run programs of `submit`, `get` (blocks on the future) and `help`
(calls `runPendingTask` until the future is ready, as `rangeLcm` in
`tests/UnitTests/Async/TestSources/PoolTest.cpp` does), so a thread has a stack of tasks. The
clients have returned from the pool before its owner destroys it, as the lifetime rules of C++
ask.

### GenericThreadPool

`runPendingTask` looks at the local queue (`PopLocal`), the pool's (`PopPool`)
and the other workers' (`Steal`, one step per queue, from `scan`), then yields.
`Pausable` keeps `pausedQ` and the condition variable apart, so that
`resume`'s store and notification fall between a worker's test and its sleep.
`localWorkQueue` and `myIndex` are `static thread_local`: `Foreign` clients are
workers of another pool of the same type, which have a local queue and an index
of that pool (`ForeignIndex`) but belong to no queue of this one.

### TaskPool

`state` is what has become of each task (`none`, `waiting`, `running`, `ready`, `broken`), `away`
the tasks in the hands of threads of other pools, `open` until the pool is gone. A step is
`Submit`, `Begin` or `End` of one task, or `Close`: it comes once, when no task runs but those
that are away, and breaks the promise of each that waits here. So a task is never lost, run
twice, run after the pool is gone, or left to wait by it; and submitting is over when it closes.

Both pools implement it (`ImplementsTaskPool`). `TaskState` reads the state from futures and
stacks: a pending task on some stack is running, one on none is waiting, in whatever queue; `open` is
that `life` is neither `dead` nor `threw`. In `BasicThreadPool` no task is
away. In `GenericThreadPool` those are `Away` that a `Foreign` client has on its stack or in its own
queue; they go through the same states when the pool is gone. All steps in between
(looking for a task, pausing, starting and joining threads, the empty tasks) are stutters.

### ContainerOwnership

`heap` and `shares` are what LibraryLink knows: for each raw container, whether
it is allocated and who must free it, and how many shares the library must give
back. `wrapper` holds the `MContainer` objects, each a raw container (or null)
and an `Ownership`; they are what the code goes by, and the properties compare
the two. `Static` wrappers live across calls, as the `unique_ptr`s of
`SharedData.cpp` and `NumericArrayOperations.cpp` in the tests do.

A call is `CallFunction` (the kernel picks containers and passing modes; a Manual
argument is handed over, a Shared one adds a share), any sequence of the
library's actions, and `Return`, or `Throw`, the destructors and `Fail`.
`Release` is `free` or `disown` by owner; `Destroy` is the destructor,
`MoveConstruct` and `MoveAssign` the moves, the latter with the comparison of
`reset` that skips the release. `Pass` and `ToMArgument` are the two ways into the
output argument, `HandOver` is `abandonContainer` with a taker (a list or a
column). All container kinds are one: a `DataStore` or a column is never Shared,
which takes away behaviours and adds none.

Taken from LibraryLink, and stated in the module: what the passing modes mean;
that a list or column settles the duty of what it takes; that a result with an
error code is ignored; that `MSparseArray_resetImplicitValue` answers with a new
array when the caller is not the owner. Taken of the library function: it reads
an argument once, in the mode it was passed in, and does not hand over a view
while the owner of its container lives (`Presentable`). Addresses that a wrapper,
an argument or the result still names are not reused.

### WSStream

`m`, `loopbackStack` and `currentExprDropped` are the stream's members, `content`
and `open` the state of the links: a link holds the sequence of heads put on it,
each with the number of arguments it announces, which is all that counting and
nesting depend on; an atom announces none. One action is one `operator<<`, with an
action of its own for each early return and each WSTP call that fails.
`EndExpr` transfers complete expressions one by one to a helper link to count
them (`Ends` says where a complete expression ends); `EndMiscounts` is the loop
stopped by a failing transfer, which the code does not tell from the end;
`EndFailsToCount` and `EndFailsToSend` are exceptions between the pop and the
`WSClose`. `Construct` and `Destroy` are a stream per library call; the destructor
closes nothing.

`client` is the caller: its expressions that have begun and not ended, and what has become of
each: `begun` has its link, `dropped` the flag, `gone` neither. It may begin, end and drop in
any order, end an argument that is not complete, or leave the function at any point. A
`BeginExpr` resets the flag and makes a dropped expression `gone` (`Forgotten`); a `DropExpr` or
an `EndExpr` takes the innermost link, whichever expression it was meant for (`Taken`).
`unfinished` counts the expressions that were neither ended nor dropped.

`OpenExpressions` is the promise without links and flag: a stack of open expressions, each with
its complete arguments, their number, and the start of one that is not complete. A failed call
may deliver a first part of an expression, or, without an exception, one with fewer arguments
(`EndShort`); without a failure all of them arrive, under a head that announces their exact
number, and a dropped expression leaves no trace. A drop is remembered until the next `Begin`,
`Drop` or end (`Kept`), which is all the stream can promise with one flag. `DeliversExpressions`
is the refinement.

Taken from WSTP: `WSTransferExpression` moves a complete expression or nothing; an
open that reports an error returns no link. Nothing reads a stranded link, so its
content is not kept.

### ErrorManager and ErrorReporting

`ErrorManager` keeps the map of errors in two parts: `LLUErrors` is the table of
`ErrorManager.cpp` in the order of its lines, where `MArrayElementIndexError`
stands in the place of `MArrayDimensionIndexError` (line 79); `paclet` is what
`registerPacletErrors` added. `Place` is what `emplace` does with a repeated name:
the first row stays, though a code is used up by each. A list is inserted one error at a
time (`SetNew`, `SetExisting`), and `SendRegisteredErrors` copies the codes to the
Wolfram Language side (`lut`).

`ErrorReporting` has places for exception objects (`obj`): whose throw, the name found and the
loopback link with the parameters. `Copy`, `Move` and `Destroy` are the special members; an
object that no thread has in `hand` is one that a `std::exception_ptr` or a variable keeps.
`ThrowWithParameters` opens a loopback link, which may fail without a word (`OpenLoopback`), and
goes on to send at once if `sendParametersImmediately`. `sendParameters` is `SendParameters`,
`SendHead` and `SendTransfer`, because each WSTP call may fail or be followed by another
thread's; `Log`, `LogEnds` and `LogThrows` are `Logger::log` with its mutex. `garbled` says that
packets on the kernel's link are mixed or cut short, and `EndPacket` that the kernel may drop
what it cannot make sense of. `Return` is the macro's catch clause with what
`LibraryLinkUtilities.wl` makes of the code: it reads and resets `$LastFailureParameters`
(`details`) if it knows the code and the code is negative. A code for which it reads none leaves
the symbol set: `unread`, as is an exception that is caught after its parameters were sent.
`SetSendParametersImmediately` may come at any time. A second `sendParameters` of one exception
finds the link `Drained` and leaves half a packet.

`Careful` restricts the caller as the tutorial does: parameters are sent by the
kernel's thread alone.

### ManagedExpressions and LibraryCalls

`kernel` knows whether an id is new, live or gone; `KernelCreates` and `KernelReleases` are the
callback `manageInstance`. `calls` is the stack of library calls, the innermost last, each with
its arguments, the strings it has to disown, the managed expressions it holds, its result and
its mode: it runs, waits for an evaluation (at any moment, with a result set or not), or reports
progress. While the innermost call waits the kernel may call another function, create or release
expressions. `CreateInstance` and `InstanceMade` are apart because the constructor of the
instance runs between the test of the id and the store; an id released meanwhile comes back and
stays: `resurrected`. `CreateFromPointer` is the other `createInstance`: one object may be filed
under two ids, and a null pointer is filed before the exception. `libData`, the store and
`stringResultBuffer` (`buffer`) are shared by all calls; `overtaken` is a history variable, the
calls whose string was there when a nested one set its own. `SetProgress` is the
`ProgressMonitor` in a loop, with the exception after an abort.

`Careful` names what C++ cannot: while a function holds a plain reference it neither
evaluates nor lets the instance be replaced.

### WireTypes, TypedData, Buffers and TypedLink

A type is a record whose field `c` names the overload; a value on a link is a sequence
of tokens, each with the number of arguments it announces. `Put` and `Get` follow the
overloads: scalars by width, Booleans as symbols, strings by encoding (with the
fast path of UTF8, the NUL that ends a Native string and the substitute for characters a
reader's encoding lacks), `WS::List`, `WS::Array`, vectors, sets, maps, pointers,
`As(encoding)`, and heads with and without an expected name or argument count. A failing
read says what is left on the link and what the variable has become. `TypedLink` sends
any value of the types in `Sent` and also expressions other programs send, reads them as any
type in `Read` and goes on after failures. `Buffers` counts what WSTP has handed out by the
function that has to release it (`Kind`) and says which one the deleters call (`ReleasedAs`).
It needs of a variable its type only, and knows no tokens; each action of `TypedLink`
that touches buffers conjoins one of its actions (`LetGo`, `TakeOver`), the others
leave its variables unchanged; `BuffersSpec`, which `TypedLink` implements, says so of its steps.

Reals are not told apart from integers, the heads of arrays are always `List`, nobody
reads a `vector<bool>` but as a vector, and WSTP calls that put do not fail here (they do in
`WSStream`). A WSTP read that fails is taken to consume nothing.

### Arrays, Arguments, Elements and ArgumentPacks

Pure operators. `Wrap` is what is left of a number in a `mint` of `Width` bits, so that
products of dimensions and strides overflow as in the code. `Listed` is the constructor
from an initializer list, which looks at the rank only; `Checked` are the others, with the
test they make (`Acceptable`). `totalLengthFromDims` multiplies from the left and wraps after each
factor, `fillOffsets` goes from the right, as their loops do; both are recursive functions over
positions, as are `Sums` and `Extent`, the true sums and products.
`KernelPixel` is the kernel's way to a pixel, `getValueAt` the library's.

In `Arguments` a C++ type is a number: `Basic` for those LLU reads from one argument, and 1, 2, ...
for the library function's own, whose `CorrespondingTypes` each come before it (a type
cannot be made of itself). `get` and `getTuple` give the positions of the arguments a value is made of, in
order, or `Error`. `getArgSlotCount` and `getOffsets` are as in the code, where a type of
one's own counts for as many arguments as it has types. `setMintAndCheck` and the others work on
integers of any width up to that of a `mint`; `Common` is the type C++ compares in.

`Elements` and `ArgumentPacks` take up one input at a time and state the reference definitions
(`Size`, `WellMade`, `PackReadsInOrder`, `IntegerKept`).

### DataLists

`content` is the nodes of each store, `lists` the wrappers with the type they are instances of,
`its` the iterators (a node, or the null pointer past the end). Several wrappers, copies of one
another or `Any`, may append to one store. `MakeTyped` is the constructor that looks at the
nodes, `WrapRaw` the inherited one that does not; `doubtful`, a history variable, is the nodes
that a typed list never looked at. `Advance` is `++` of all the iterators, whose last step is
`NodeIterator`'s; `Dereference` throws on a node of another type and the loop ends. `seen`, the
nodes an iterator has stood on and the length it started with, is a history variable.

## 3. Runs

Each `.cfg` is one run. Deadlock is checked in all of them but the pool runs, which
switch it off, since a client that calls `runPendingTask` on an idle
`BasicThreadPool`, or a worker whose wakeup was lost, may really stop there.

| Run | Instance | Properties |
|---|---|---|
| `Queue` | 2 producers (one of which also pops without waiting and asks `empty`), 2 consumers, 3 nodes, 2 values | `NodeRaceFree`, `WakeupsCover`, `ImplementsFifo`, `NoStuckSleeper` |
| `BasicPool` | 3 workers, 2 clients, 3 tasks, a program that scatters and one where a client helps | `ImplementsTaskPool`, `EmptyTasksCover`, `TaskConserved`, `DestructorReturns`, `FutureSettles` |
| `BasicPoolCtor` | the same with a thread that fails to start | violates `JoinerReturns` |
| `GenericPool` | 2 workers, 2 clients (one of another pool), 3 tasks, four programs | `ImplementsTaskPool`, `TaskConserved`, `PauseHolds`, `FutureSettles`, `DestructorReturns` |
| `GenericPoolPause` | the same | violates `WorkersJoined` |
| `Ownership` | 2 arguments, 2 local wrappers and a static one, 2 containers, 2 shares | `SingleOwner`, `SharesBacked`, `ResultAllocated`, `NothingElseLost` |
| `OwnershipColumn` | the same | violates `ColumnOwnsArray` |
| `Stream` | 4 loopback links, up to 3 expressions not ended, 2 heads, atoms and heads of two arguments, 4 tokens, one failing call | `CurrentLinkUsable`, `StrandedExactly`, `NestingKnown`, `DeliversExpressions` |
| `Errors` | the kernel's thread and a worker, 2 exception objects, 2 loopback links, 2 throws, a paclet with three errors of two names in lists of up to two | `ErrorIdentified`, `LoopbacksOwned`, `LogsApart`, `FailureShowsItsOwn` |
| `Calls` | calls nested twice, an argument and an expression in use in each, 2 ids, 2 instances | `StoreMatchesKernel`, `RefsAlive`, `ResultOwn`, `AbortNoticed` |
| `Typed` | some 20 types sent, as many read, nested vectors and maps, 6 texts, 4 encodings, 6 expressions of other programs | `BuffersOwned`, `BuffersSpec`, `OneExpression`, `KeptOnFailure`, `RoundTrip` |
| `Data` | 2 lists, an iterator, 2 stores of up to 3 nodes; and every array up to rank 3, every image up to 8 elements, every pack of up to 3 types among five of the user's own and LLU's, every integer of every width up to 5 bits | `ListsTyped`, `WalkComplete`, `ArraysSound`, `ArgumentsSound` |

What some of the properties say, beyond their comments in the modules:

- `ImplementsTaskPool`: conservation says where a task is, this what may happen to it next; also that
  both destructors come after every task that runs in the pool, and what they break.
- `ErrorIdentified`: the Wolfram Language side finds an error by its code alone. A
  repeated name uses up a code without taking it; no code is ever given twice.
- `LoopbacksOwned`: the hand-written special members neither leak nor share a link; only a
  second `setMessageParameters` leaves one open (`LibraryLinkError.h`), which the model counts
  as `lost`.
- `LogsApart`: the mutex is enough among logs, before and after exceptions. It is not between a log
  and `sendParameters`, which does not take it, nor when a log throws: these are the
  steps that the property names.
- `FailureShowsItsOwn`: parameters do not show up in the failure of a later exception
  but for those of codes the layer reads none for (`VersionError` is positive), and of
  exceptions that were caught after they had sent them.
- `NestingKnown`: for every caller, what flag and stack say of its expressions. Two expressions get
  out of step with the stack only when something begins, or is dropped, in place of a dropped one.
- `ListsTyped`: a list of one type is trusted for what it has looked at, node by node. Nothing more
  is true: the inherited constructor (`DataList.h:54`) and other wrappers bring in any node.
- `StoreMatchesKernel`: also the one way to an entry that stays for ever, an
  expression released while its instance is being constructed.
- `RefsAlive`: what the caller has to respect is exactly `Careful`; with
  `Careful = FALSE` it fails in a few steps.
- `ResultOwn`: which calls deliver their own string, for functions that evaluate whenever they like. Those
  that set it last always do.
- `OneExpression`, `KeptOnFailure`: after a read of the wrong type the stream goes on
  with the next expression, or with the arguments of the failed one; a map keeps what it had read.
- `ArraysSound`: the kernel refuses every size for which `flattenedLength` would
  wrap, so the missing check in `MArrayDimensions.cpp:74` does no harm to an array that exists.
- `ArgumentsSound`: what `setMintAndCheck` does not report it delivers unchanged, in every
  width. That it reports nothing else holds only for types other than the unsigned ones as wide
  as a `mint` (section 4). A user's type made of user's types counts for too few arguments
  (`getArgSlotCount` is not recursive), so the type after it in a pack begins too early.
  `Straight` names the packs for which this does not happen: only the last type may be one that
  counts for less than it takes.

Bounds. Three nodes hold a queue of two values, or one value while a push is about to link
another and a pop still holds an old head: the list is empty, single and longer, and nodes are
reused. Two consumers let one take the value the other was notified for. Two values are enough
to see an order. Each thread calls again and again, so no bound on the number of calls is
needed. Three workers in the basic pool let one be in each place of the loop while the
destructor queues its empty tasks. Each task is submitted at one place at most
(`ProgramAssumption`); with three tasks one can run, one wait and one be submitted by the first.
`BasicPool` has 7,804 states, `GenericPool` 64,263. In `Ownership` two wrappers are what moves
and assignments need and the third keeps a container or share of an earlier call meanwhile; two
containers let one replace the other; two shares let one container be passed twice, in one call
or in two. Calls may follow each other without a bound, and the only bound in a guard is
`MaxShares`. Since wrappers meet in pairs and names of containers are interchangeable, more of
either adds no new meeting; the properties also hold, in a longer run, with three containers. In
`Stream` four loopback links make three expressions inside each other and a helper link; four
tokens leave, beside the heads of two open expressions, a head of two arguments and one of them:
counts differ from numbers of tokens, and an argument stays incomplete. `MaxTokens` (in `Room`)
bounds what is put, leaving room for the heads that `EndExpr` will add; `Spare` keeps one link
for the helper; `MaxFailures` bounds failures. `MaxOpen` bounds what a caller has begun and not
ended, which without links on the stack could grow: three are one around the dropped one and one
in its place. Streams follow each other without a bound, so links stranded by one call meet the
next (77,357 states). In `Errors` two objects and two links are what a copy, a move or an
assignment needs, and two throws what it takes to find the parameters of one in the failure of
another. `MaxThrows` bounds throws in the guards. The constraint `FewErrors` separates the two
halves of the model: any registry may be built, but exceptions are only followed from the
registries with at most the error `P`, since what they do depends on a name being known and on
the sign of its code. Places of objects and links are interchangeable (`ReportingSymmetry`; the
property on steps names neither). In `Calls` a call inside a call shows what nesting does;
`MaxDepth`, `MaxArgs` and `MaxRefs` are the bounds in guards. Two ids and two instances let one
be replaced or released while the other is in use. An id is never given twice by the kernel, so
each behaviour creates at most two expressions while calls go on without a bound (1,555,233
states). In `Typed` each type is sent and read, and every pair of a sent and a read type occurs;
the widths (2, 3 bits) make numbers that fit one type and not the next; `MaxLen` bounds lists.
One value is on the link at a time, the variable keeps what earlier reads gave it. In `Data`
three nodes make a list that grows behind, under and before an iterator; an array of `Capacity`
8 under 5-bit `mint`s has products of dimensions that wrap (3 * 3 * 3 = 27 > 15), and ranks up
to 3 are what images need. The five types of the user's own (`MCTypes`) are made of one, two and
three of LLU's, of another one, and of one after one of LLU's, so some count for less than they
take; packs of 3 (`MaxPack`) put them before, between and after others, and 5 arguments
(`MaxArgc`) are enough for some and not for others (2,588,894 states).

Fairness. In the queue, a thread inside a call keeps running (`WF` on its
steps) and gets a mutex that becomes free again and again (`SF` on the three
lock acquisitions: `std::mutex` promises no order, but a waiter is not overtaken
for ever on the platforms the library is built for). No fairness is assumed of
calls or of spurious wakeups. In the pools each thread runs (`WF`): the
scheduler's promise, and, for the pop, what `NoStuckSleeper` gives. In `LibraryCalls`
only `SetProgress` is fair: a loop that reports progress goes on; that functions end or
return from an evaluation is not assumed. `Stream`, `Ownership`, `Errors`, `Typed` and
`Data` state no fairness: nothing in them waits.

## 4. What the violating runs show

- `BasicPoolCtor`: if starting a thread throws, the constructor sets `done` and rethrows
  (`ThreadPool.h:47-50`). No empty task is queued, because the destructor does not run; the
  workers already started are in `waitPop` for ever, and `~ThreadJoiner` joins them for ever.
  `GenericThreadPool` does not have this (its workers never block on a queue), which its
  `DestructorReturns` checks.
- `GenericPoolPause`: `resume` writes `pausedQ` and notifies without
  `workersMutex` (`Utilities.h:157-160`). A worker between the predicate and the
  sleep misses both `resume` and the destructor's, and the join does not end.
  `DestructorReturns` of the passing run states what remains true.
- `OwnershipColumn`: the constructor of a column from an array abandons the
  array first and looks at the type afterwards (`DataVector.cpp:49-57`); with
  another type it throws, and the array has no owner left.

Two more disagreements are kept out of the passing runs by what these assume of the
caller, and have no run of their own:

- A task that helps: the destructor of `BasicThreadPool` queues one empty task per worker, but a task
  that calls `runPendingTask` meanwhile may pop one and go on (`ThreadPool.h:65`), and the
  worker it was meant for stays blocked. In the programs of `BasicPool` only clients help.
- A pool used from another: `submit` called from a worker of another `GenericThreadPool` of the
  same type pushes to that worker's own queue (`ThreadPool.h:167-168`, the
  pointers are `static thread_local`); the task is evaluated outside of the pool, or never
  if that thread is gone. `GenericPool` has such a client; its properties hold because the task
  is taken from that queue by its owner.

These are in the models as the code has them; the properties of the passing runs say what is
true beside them, and where it ends:

- An expression in place of a dropped one: there is one flag for all dropped expressions.
  `BeginExpr` resets it (`WSStream.hpp:645`), and a second `DropExpr` looks at the size of the
  stack only (660-674) and takes the link of the expression around the dropped one. In both
  cases a later `EndExpr` ends another expression than its caller means. `NestingKnown` and
  `OpenExpressions` say which.
- Arguments lost without an exception: `countExpressionsInLoopbackLink` takes any failure of
  `WSTransferExpression` for the end of the arguments (`Utilities.cpp:65`), where
  `docs/modules/wstp.rst:26` has every call of WSTP checked. It is `EndMiscounts`, and `EndShort` of
  the promise.
- One string buffer for all calls: `setString` assigns to a `static`
  (`MArgumentManager.cpp:69`). A function that sets its string and then evaluates code which
  calls the library may return the string of that call; `ResultOwn` says exactly when.
- A list of a type over a raw store: `DataList<T>(store, owner)` is inherited (`DataList.h:54`)
  and looks at no node. `ListsTyped` excepts the nodes that were there.
- `setMintAndCheck` promises true "iff overflow occurred and the value had to be clipped"
  (`MArgumentManager.h:401`). It also reports the two limits of `mint`, which fit; and for an
  unsigned type as wide as a `mint` the comparison converts `MINT_MIN` to that type, so that
  every number is reported and the small ones are delivered as `MINT_MIN`. `IntegerKept` claims
  of such types only what holds.
- `getInteger<T>` of a `mint` that `T` does not hold is a `static_cast` (`MArgumentManager.h:937`) and
  narrows without a word. `IntegerKept` reads back only numbers of the type's own range, which
  the kernel cannot be held to.
- `MArrayDimensionIndexError` is declared (`Errors.h:97`) and thrown
  (`MArrayDimensions.cpp:48`), and not in the table, which has `MArrayElementIndexError` twice
  (`ErrorManager.cpp:79`): throwing it reports `ErrorManagerThrowNameError`.
- `Logger` and `sendParameters` write to one link under different rules, so packets mix; see `LogsApart`.

`NothingElseLost` of the passing run names the other steps that lose a container or
a share, all of them in the code as it stands: an assignment between two Shared
wrappers of one container (`reset` does not disown), a Shared container sent out
by `toMArgument`, a result passed before a later exception or replaced by a
second result, and Manual or Shared arguments that were never read.

## 5. Proofs

`ThreadsafeQueueProofs` proves, for any finite set of threads, any values and
nodes (the assumption `QueueAssumption`, which TLC evaluates in the run `Queue`):

- `TypeCorrect`: `Spec => []TypeOK`
- `NodeSafety`: `Spec => []NodeRaceFree`
- `WakeupsHold`: `Spec => []WakeupsCover`
- `Refinement`: `Spec => ImplementsFifo`

None of the first two is inductive. `IInv` adds: who holds which mutex at which
step (`LockInv`); what the steps of a call imply about its operation and value
(`CallInv`); `chain` has no repetition, is allocated, starts at `head`, ends at
`tail` and is linked by `next`, with a value in every node but the last
(`ChainInv`); the nodes that threads own are off the chain, allocated and
pairwise different (`OwnInv`); how far a push has filled the dummy node, and
that a pop about to unlink has seen `head # tail` (`LinkInv`). `OwnInv` is what
makes reading the old head outside of the lock safe; `LinkInv` is what makes
the two locks safe, since the push writes only the node `tail`, which a pop never
touches while `head # tail`, and `tail` only moves away from `head`. There is
one lemma per action and, in it, one step per conjunct.

`WakeupsCover` counts: the values in the queue are at most the pushes that have
yet to notify plus the awake waits. Together with `IInv` it is inductive; the
counting rests on the library's theorems on cardinality.

The refinement maps every step to one of `FifoQueue` or to a stutter; `IInv`
supplies that the data of the chain are not touched by writes to owned nodes.

`BasicThreadPoolProofs` proves, for any number of workers, any clients, tasks and
programs (`TaskAssumption`, and `ProgramAssumption`: a program submits a task at one
place at most; both evaluated in the runs of the pools):

- `PoolTypes`: `Spec => []TypeOK`
- `TasksConserved`: `Spec => []TaskConserved`
- `EmptyTasksSuffice`: `Spec => []EmptyTasksCover`, if tasks do not help
- `PromisesHold`: `Spec => ImplementsTaskPool`

`TaskConserved` is not inductive: that a task is pending once does not say that it
will not be submitted again. `NotYetSubmitted` does: while a call of `submit`
lies ahead in the program of something that has not started, or has not come so
far, its task has no future. It rests on `ClientsAtBottom`, since the same
program on two stacks would pass the call twice. The rest of `IInv` states conservation place by
place; cardinalities come in at the end. `CoverInv` counts for the empty tasks: from
`SetDone` on, the blocked workers and the empty tasks queued are together at most the
length of the queue and the number of threads. A client that still helped could take one away, but
all have ended; a task that helps is what the assumption rules out.

`PromisesHold` is the refinement. `IInv` says that a task which starts was waiting and one which ends
was running; `PoolInv` says the rest: a thread between tasks has an empty stack, so that
when the workers are joined nothing runs; nothing has a future before the pool is built, so
that a constructor that throws breaks no promise; and the clients are through when the
destructor begins. `OneMoves` is how a step that moves one task changes `TaskState`, `NoneMoves` how any
other leaves it alone, and `PromisesKept` has a case for each action of the pool.

`GenericThreadPoolProofs` proves, under the same assumptions and `PoolAssumption`:

- `PoolTypes`: `Spec => []TypeOK`
- `TasksConserved`: `Spec => []TaskConserved`
- `PauseHolding`: `Spec => []PauseHolds`
- `PromisesHold`: `Spec => ImplementsTaskPool`

The invariant is that of the basic pool with the places of all queues; what a step takes from a
queue's front or back leaves the other tasks in their order (`TakenFromLocal`), and the queues
that foreign threads keep when the pool is destroyed are the reason why `Join` breaks some of
the promises only. `PauseInv` adds that a worker whose loop has begun a task in this pause has
it on its stack or is in `checkPause`, which nobody leaves while `pausedQ` is set.
`PromisesHold` rests on all of `IInv`, `PauseInv` and its own `PoolInv`, which here must leave
room for foreign threads that still run when the pool is gone. What is running, waiting or away
is followed thread by thread, so that a task which a foreign thread steals goes away by the step
with which it begins, one it submits to its own queue by its submission, and `Join` breaks the
promises of exactly those that wait and are not away. The lemmas about stacks are those of
`BasicThreadPoolProofs`: the two modules prove them each for its own variables.

`ContainerOwnershipProofs` proves, for any containers, wrappers and arguments
(`OwnershipAssumption`, evaluated in the run `Ownership`):

- `OneOwner`: `Spec => []SingleOwner`
- `ResultSurvives`: `Spec => []ResultAllocated`
- `OwnershipTypes`: `Spec => []TypeOK`
- `SharesKept`: `Spec => []SharesBacked`
- `LossesNamed`: `Spec => NothingElseLost`

The invariant adds what a result needs (nobody in the library owns it, so no
destructor can free it), that a Manual argument is the library's to free, and
that between calls there is neither a result nor an argument; without the last,
a call could start with a result of the previous one. It is kept container by
container: `Sound(c)`. Types need more than types, since a share that is given up must have
been there (`shares` is a natural number): `SharesInv` adds that every Shared wrapper and
every unread Shared argument has a share of its own, and that only the kernel's
containers have shares. The assumption that wrappers and arguments are finite sets is for
these counts. For each way in which a step may treat the holders of one container's
shares (`Untouched` and the lemmas after it: one holder more, one fewer, an argument
becomes a wrapper, all of them at once) the count is kept, or falls behind and is allowed to by
`MayLose` (`Settled`). `LossesNamed` adds the containers that are to be freed.

`WSStreamProofs` proves, for any finite set of loopback links, any heads, arities
and bounds (`StreamAssumption`, evaluated in the run `Stream`):

- `StreamTypes`: `Spec => []TypeOK`
- `LinksUsable`: `Spec => []CurrentLinkUsable`
- `NestingHolds`: `Spec => []NestingKnown`
- `StrandedCounted`: `Spec => []StrandedExactly`
- `StreamDelivers`: `Spec => DeliversExpressions`
- `BuffersBalanced`: `BuffersSpec => []BuffersOwned`

`IInv` is the type invariant, the stack invariant and that only the bottom of the stack has no
head (otherwise `EndExpr` could put a token without one). The types rest on `EndsInside`:
complete expressions end inside the sequence, so that transfers and counts are well defined; the
greatest such position exists because the natural numbers are well-founded. `NestingHolds` is
about the caller's sequence: what each of `Forgotten`, `Taken` and the end of the last
expression does to the set of those that have a link (`BeginKnown`, `DropKnown`, `EndKnown`),
with `NestingInv` that between streams nothing is open. `StrandedCounted` compares sets step by
step: a pop takes one open link off the stack, and the links of a stack with an open stream are
in bijection with its positions above the bottom.

`StreamDelivers` is the refinement. The open expression that an entry of the stack stands for is
a function of its head and of what is on its link (`FrameOf`), so the proof is first about
sequences of tokens: how many expressions a link still owes after each token (`Balance`), where
its last complete expression ends (`Whole`) and how many there are (`Count`). `Deep` says that
the balance goes below all earlier values exactly where an argument ends; a token, a whole
expression, or the first part of one is a `Segment`, after which `FrameOf` is what `Arrive`
makes of the frame before. `TakeAll` of a sequence is therefore the frame of the link after it,
by induction on its length: the least position at which it fails is preceded by one at which it
does not (`UpTo`, from the well-foundedness of the natural numbers, since theorems on induction
cannot be instantiated here). `StepSimulates` then has one case for each action. Of the state it
needs `IInv` and `IdleEmpty`, that between two streams the links are empty.

`BuffersBalanced` is the part of `TypedLink` that can be proved about: `Buffers` knows of reading only
what it does to buffers. For any types in `Read`, what WSTP has handed out is what
the variable owns, since each type's deleter is of the kind of its getter (`TablesAgree`).
That `TypedLink` implements `BuffersSpec` is checked by TLC in the run `Typed`, beside the
property itself: `TypedLink` has recursive operators, which no theorem may reach.

`DataProofs` proves, for any stores, lists and iterators (`NodesAssumption`), for
arrays of any rank and size, for `mint`s of any width that holds the greatest length of an
array (`ArraysAssumption`, `TypesAssumption`, `ElementsAssumption`),
and for any types of the user's own and packs of any length (`ArgumentsAssumption`,
`PacksAssumption`; all evaluated in the run `Data`):

- `DataListTypes`: `Spec => []TypeOK`
- `TypedListsHold`: `Spec => []ListsTyped`
- `WalksComplete`: `Spec => []WalkComplete`
- `ElementsSound`: `ElementsSpec => []ArraysSound`
- `ArgumentsHold`: `ArgumentsSpec => []ArgumentsSound`

`TypedListsHold` adds that doubtful nodes exist, so that the next one appended is not among them.
`WalksComplete` needs that an iterator stands on the last node of `seen`, that its
store is never taken for a new list and never gets shorter while it walks.

`ElementsSound` is about operators rather than steps. The kernel makes an array only if the true
product of its dimensions is at most `Capacity`; `MArrayDimensions` computes in `mint`s and does
not look. That nothing wraps in the end is not obvious: with a dimension of 0 the partial
products are not bounded by the length, and do wrap. `LengthRight` shows that the wrapped
product from the left is the true one all the same, `OffsetsRight` that the strides are the true
ones when no dimension is 0. The terms of an index in bounds then add up to a number below the
length (`InsideBounds`), no two lists of indices to the same (`InsideOnce`, by the remainder and
quotient of each stride), and every number below the length is reached (`InsideAll`), so there
is a bijection and the cardinality of the accepted lists is the length. Shorter lists are longer
ones with zeros (`WithZeros`). For images, a dimension of 1 at either end changes nothing
(`LastOne`, `FirstOne`), which is how `at()` without a channel and the kernel's `get` with one
meet. Powers of 2 are a recursive function (`Power`), since `^` has no meaning for the provers;
`Capacity < Half` says that the kernel makes no array whose length is no `mint`.

`ArgumentsHold` needs that the recursive functions of `Arguments` are what their equations say.
`Onward` and `CourseOfValues` show that a function exists whose value at each position follows
from the one before it, or from all those before it (as for `get`, where a type is made of types
with smaller numbers); they are stated for step functions that are values, so that no operator
has to be instantiated, and climb from each position to the next (`UpTo`, from the
well-foundedness of the natural numbers). `GetIs`, `OffsetsAre` and `SizeIs` are then equations;
`PackReads` joins the runs of consecutive arguments of a pack from left to right, where
`Straight` says that each begins where the one before it ends, and `TypeReads` goes up through
the user's types. For integers (`IntegerHolds`) a number of the type's range survives a wrap
(`Centred`), and one of the unsigned type as wide as a `mint` the way there and back
(`Unwrapped`).

`ErrorReportingProofs` proves, for any paclet errors, threads, objects, loopback
links and number of throws (`RegistryAssumption`, `ReportingAssumption`, evaluated in the run
`Errors`):

- `ReportingTypes`: `Spec => []TypeOK`
- `CodesIdentify`: `Spec => []ErrorIdentified`
- `LinksOwned`: `Spec => []LoopbacksOwned`
- `LogsKeepApart`: `Spec => LogsApart`
- `FailuresShowTheirOwn`: `Spec => FailureShowsItsOwn`, if `Careful`

`CodesDescend` is what makes codes unique: the next code is below all that were given, and the
paclet's are below those of the table, which differ because the place of a name in
the table does (`FirstRow`, by well-founded induction on the rows). `OwnedInv` says the same as
`LoopbacksOwned` without cardinalities, and that an owned link is drained or has the parameters of its
owner's throw. `FlightInv` ties the mutex, the steps and the exceptions in
hand together, one exception to one thread; it is why a log that begins finds no other log half-way:
only the holder of the mutex is writing one. `ShownInv` is for the last theorem: what
is in the symbol and no leftover belongs to the exception the kernel's thread has
in hand.

`LibraryCallsProofs` proves, for any ids, instances and depth of nesting
(`ManagedAssumption`, `CallsAssumption`, evaluated in the run `Calls`):

- `CallTypes`: `Spec => []TypeOK`
- `StoreMatches`: `Spec => []StoreMatchesKernel`
- `ReferencesAlive`: `Spec => []RefsAlive`, if `Careful`
- `ResultsOwn`: `Spec => ResultOwn`

The invariant says of every call at its depth (`Sound`): the id whose instance is being
constructed was given by the kernel; a call that waits has no plain reference; a plain reference
names what the store holds, and not under the id being constructed. `OwnInv` says of every call
with a string, waiting ones too, that it has the buffer exactly if it is not overtaken. Since
all calls but the innermost wait, a change of the store concerns the innermost alone.

No run checks a type invariant: those of the modules above are theorems, about every instance.

Only model-checked:

- That `TypedLink` implements `BuffersSpec`, since it reaches recursive operators.
- `OneExpression`, `KeptOnFailure` and `RoundTrip` of `Typed`: `Put` and `Get` are recursive over types
  that nest (vectors of maps of ...), and what such a definition computes for every type is
  an induction over data.
- Liveness: `NoStuckSleeper`, `DestructorReturns`, `FutureSettles`, `AbortNoticed`. The prover
  reaches neither fairness nor `ENABLED`.

## 6. Plan

Done: the `Async` part, container ownership, the loopback stack and the typed data of
`WSStream`, errors and logs, library calls and managed expressions, arrays,
arguments and lists; the refinements of `FifoQueue`, `TaskPool` and `OpenExpressions`
checked and proved. What could follow:

1. An abstract ledger of duties (each acquired once, settled once) that
   `ContainerOwnership` implements outside of the steps of `NothingElseLost`.
2. Exceptions that leave tasks: `ErrorReporting` composed with the futures of
   `TaskPrograms`.
3. `DataVector`'s conversions, with the columns of strings and bit vectors.

## 7. Not modelled

- `FileUtilities`: path validation and open modes, each one call of the kernel or the file
  system without state.
- `UniquePtr`, `Utilities.hpp`, the headers of headers: deleters that forward, guards against macros.
- `DataVector`'s conversions and the explicit values of sparse arrays: computed by the kernel.
- The Wolfram Language layer, but for failures made of codes; the build, docs and tests.
- An exception thrown by an allocation, by a filter of the logger, or inside
  `setMessageParameters`, which replaces the one that was on its way.
- The NUL that `addDataStoreNode` expects behind a name (`MArgument.cpp:25` passes the
  `data()` of a `string_view`): characters in memory are not modelled.
- `acquireUTF8String` of an index out of range: the exception is `std::out_of_range`, which
  the macro turns into `FunctionError`, where the comment promises `MArgumentIndexError`
  (`MArgumentManager.h:112`); in `LibraryCalls` both are `Throws`.

`PROJECT.json` gives the reason for each component.
