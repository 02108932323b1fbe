------------------------ MODULE ContainerOwnership ------------------------
(***************************************************************************)
(* MContainerBase (include/LLU/Containers/Generic/Base.hpp) and the        *)
(* library functions that use it: which wrapper must free or disown which  *)
(* raw container, from the moment LibraryLink passes the arguments to the  *)
(* moment the call returns or fails.  heap and shares are the truth kept   *)
(* by LibraryLink; each wrapper holds only its own idea of the owner.      *)
(***************************************************************************)
EXTENDS Integers, FiniteSets

CONSTANTS
    Containers,   \* raw containers: addresses of MTensor, MNumericArray, ...
    Wrappers,     \* places for an MContainer in the library
    Static,       \* the wrappers that live across calls
    Args,         \* argument positions of a library function
    Null,         \* the null container
    Dead,         \* no MContainer has been constructed in this place
    NoArg,        \* nothing is passed at this position
    MaxShares     \* bound on the shares the library holds on one container

ASSUME OwnershipAssumption ==
    /\ IsFiniteSet(Wrappers) /\ IsFiniteSet(Args)   \* no program holds more
    /\ Static \subseteq Wrappers
    /\ Null \notin Containers
    /\ Dead \notin [cont : Containers \cup {Null},
                    owner : {"LibraryLink", "Library", "Shared"}]
    /\ NoArg \notin [cont : Containers, mode : {"Automatic", "Manual", "Shared"}]
    /\ MaxShares \in Nat

VARIABLES
    phase,    \* who runs: the kernel, the library function, its unwinding
    heap,     \* who must free each allocated container
    shares,   \* how many MxxxX_disown calls the library owes for a container
    wrapper,  \* the MContainer objects
    args,     \* the arguments of the current call that have not been read
    res       \* the container in the output MArgument

vars == <<phase, heap, shares, wrapper, args, res>>

Ownership == {"LibraryLink", "Library", "Shared"}
Passing == {"Automatic", "Manual", "Shared"}   \* Constant is as Automatic
Objects == [cont : Containers \cup {Null}, owner : Ownership]
Arguments == [cont : Containers, mode : Passing] \cup {NoArg}

TypeOK ==
    /\ phase \in {"kernel", "running", "failing"}
    /\ heap \in [Containers -> {"absent", "kernel", "library"}]
    /\ shares \in [Containers -> Nat]
    /\ wrapper \in [Wrappers -> Objects \cup {Dead}]
    /\ args \in [Args -> Arguments]
    /\ res \in Containers \cup {Null}

Init ==
    /\ phase = "kernel"
    /\ heap = [c \in Containers |-> "absent"]
    /\ shares = [c \in Containers |-> 0]
    /\ wrapper = [w \in Wrappers |-> Dead]
    /\ args = [i \in Args |-> NoArg]
    /\ res = Null

-----------------------------------------------------------------------------
(* Views of the state *)

Alive == {w \in Wrappers : wrapper[w] # Dead}
Claim(w, o, c) == w \in Alive /\ wrapper[w].owner = o /\ wrapper[w].cont = c
Owning(c) == {w \in Wrappers : Claim(w, "Library", c)}
Sharing(c) == {w \in Wrappers : Claim(w, "Shared", c)}
Names(x, c) == x # NoArg /\ x.cont = c
Passed(c, m) == {i \in Args : args[i] = [cont |-> c, mode |-> m]}

\* An address an allocation may return.  An address some wrapper, argument or
\* result still names is not reused.
Fresh(c) ==
    /\ heap[c] = "absent" /\ res # c
    /\ \A w \in Alive : wrapper[w].cont # c
    /\ \A i \in Args : ~Names(args[i], c)

-----------------------------------------------------------------------------
(* The kernel (external): what LibraryLink does between and around calls *)

KernelCreate(c) ==
    /\ phase = "kernel" /\ Fresh(c)
    /\ heap' = [heap EXCEPT ![c] = "kernel"]
    /\ UNCHANGED <<phase, shares, wrapper, args, res>>

KernelFree(c) ==
    /\ phase = "kernel" /\ heap[c] = "kernel" /\ shares[c] = 0
    /\ heap' = [heap EXCEPT ![c] = "absent"]
    /\ UNCHANGED <<phase, shares, wrapper, args, res>>

\* A Manual argument is handed over for good, a Shared one adds a share for
\* every position it is passed at, an Automatic one changes nothing.
CallFunction(a) ==
    LET At(c, m) == {i \in Args : a[i] = [cont |-> c, mode |-> m]}
        Given(c) == At(c, "Manual") # {}
    IN  /\ phase = "kernel"
        /\ \A i \in Args : a[i] # NoArg => heap[a[i].cont] = "kernel"
        /\ \A c \in Containers :
              /\ Given(c) => /\ shares[c] = 0
                             /\ \A i, j \in Args :
                                   Names(a[i], c) /\ Names(a[j], c) => i = j
              /\ shares[c] + Cardinality(At(c, "Shared")) <= MaxShares
        /\ phase' = "running"
        /\ heap' = [c \in Containers |-> IF Given(c) THEN "library" ELSE heap[c]]
        /\ shares' = [c \in Containers |-> shares[c] + Cardinality(At(c, "Shared"))]
        /\ args' = a
        /\ UNCHANGED <<wrapper, res>>

\* LibraryLink takes the result over: whatever it is, it is the kernel's now.
Return ==
    /\ phase = "running" /\ Alive \subseteq Static
    /\ phase' = "kernel"
    /\ heap' = [c \in Containers |-> IF c = res /\ heap[c] = "library" THEN "kernel" ELSE heap[c]]
    /\ args' = [i \in Args |-> NoArg] /\ res' = Null
    /\ UNCHANGED <<shares, wrapper>>

\* The function returns an error code and LibraryLink ignores the result.
Fail ==
    /\ phase = "failing" /\ Alive \subseteq Static
    /\ phase' = "kernel"
    /\ args' = [i \in Args |-> NoArg] /\ res' = Null
    /\ UNCHANGED <<heap, shares, wrapper>>

\* A LibraryLinkError or another exception on its way to the function's macro:
\* only destructors run from here to Fail.
Throw ==
    /\ phase = "running" /\ phase' = "failing"
    /\ UNCHANGED <<heap, shares, wrapper, args, res>>

-----------------------------------------------------------------------------
(* MContainerBase *)

Construct(w, o) == wrapper' = [wrapper EXCEPT ![w] = o]

\* free() or disown() in heap h, as the owner says; neither touches a null
\* container.
Release(w, h) ==
    /\ heap' = [c \in Containers |-> IF Claim(w, "Library", c) THEN "absent" ELSE h[c]]
    /\ shares' = [c \in Containers |-> IF Claim(w, "Shared", c) THEN shares[c] - 1 ELSE shares[c]]

\* The end of a scope, the unwinding of a frame, or a static slot emptied.
Destroy(w) ==
    /\ w \in Alive /\ phase \in {"running", "failing"}
    /\ phase = "failing" => w \notin Static
    /\ Release(w, heap)
    /\ Construct(w, Dead)
    /\ UNCHANGED <<phase, args, res>>

\* Deviation: the moved-from wrapper keeps its container.
MoveConstructKeepingSource(w, v) ==
    /\ phase = "running" /\ w \in Alive /\ v \notin Alive
    /\ wrapper' = [wrapper EXCEPT ![v] = wrapper[w]]
    /\ UNCHANGED <<phase, heap, shares, args, res>>

MoveConstruct(w, v) ==
    /\ phase = "running" /\ w \in Alive /\ v \notin Alive
    /\ wrapper' = [wrapper EXCEPT ![v] = wrapper[w], ![w].cont = Null]
    /\ UNCHANGED <<phase, heap, shares, args, res>>

\* Deviation: the old container is overwritten without being disposed of.
MoveAssignWithoutReset(w, v) ==
    /\ phase = "running" /\ {w, v} \subseteq Alive /\ w # v
    /\ wrapper' = [wrapper EXCEPT ![w] = wrapper[v], ![v].cont = Null]
    /\ UNCHANGED <<phase, heap, shares, args, res>>

\* w = std::move(v): reset() disposes of w's container unless v names the same.
MoveAssign(w, v) ==
    /\ phase = "running" /\ {w, v} \subseteq Alive /\ w # v
    /\ IF wrapper[w].cont = wrapper[v].cont
       THEN UNCHANGED <<heap, shares>>
       ELSE Release(w, heap)
    /\ wrapper' = [wrapper EXCEPT ![w] = wrapper[v], ![v].cont = Null]
    /\ UNCHANGED <<phase, args, res>>

\* clone(): the copy belongs to the library; an empty wrapper has no copy and
\* the constructor from null throws.
Clone(w, v) ==
    /\ phase = "running" /\ w \in Alive /\ v \notin Alive
    /\ \/ /\ wrapper[w].cont = Null
          /\ phase' = "failing"
          /\ UNCHANGED <<heap, wrapper>>
       \/ \E c \in Containers :
             /\ wrapper[w].cont # Null /\ Fresh(c)
             /\ heap' = [heap EXCEPT ![c] = "library"]
             /\ Construct(v, [cont |-> c, owner |-> "Library"])
             /\ UNCHANGED phase
    /\ UNCHANGED <<shares, args, res>>

\* MContainerBase(): an empty wrapper, by default of the library.
DefaultConstruct(w) ==
    /\ phase = "running" /\ w \notin Alive
    /\ Construct(w, [cont |-> Null, owner |-> "Library"])
    /\ UNCHANGED <<phase, heap, shares, args, res>>

\* A container made in the library: reset(newly allocated) on an empty wrapper.
Create(w) ==
    /\ phase = "running" /\ w \notin Alive
    /\ \E c \in Containers :
          /\ Fresh(c)
          /\ heap' = [heap EXCEPT ![c] = "library"]
          /\ Construct(w, [cont |-> c, owner |-> "Library"])
    /\ UNCHANGED <<phase, shares, args, res>>

\* A second wrapper built from w.getContainer() with Ownership::LibraryLink;
\* null makes the constructor throw.
MakeView(w, v) ==
    /\ phase = "running" /\ w \in Alive /\ v \notin Alive
    /\ IF wrapper[w].cont = Null
       THEN phase' = "failing" /\ UNCHANGED wrapper
       ELSE /\ UNCHANGED phase
            /\ Construct(v, [cont |-> wrapper[w].cont, owner |-> "LibraryLink"])
    /\ UNCHANGED <<heap, shares, args, res>>

-----------------------------------------------------------------------------
(* Handing containers over *)

\* What a library function may hand over: a container still allocated, and
\* through its owner, not through a view while the owner lives or is unread.
Presentable(w) ==
    LET c == wrapper[w].cont
    IN  c # Null => /\ heap[c] # "absent"
                    /\ Owning(c) \subseteq {w} /\ Passed(c, "Manual") = {}

\* Deviation: a result that the library owned stays the library's.
PassKeepingOwner(w) ==
    /\ phase = "running" /\ w \in Alive /\ Presentable(w)
    /\ res' = IF wrapper[w].cont = Null THEN res ELSE wrapper[w].cont
    /\ UNCHANGED <<phase, heap, shares, wrapper, args>>

\* pass(): a shared container stays shared.
Pass(w) ==
    /\ phase = "running" /\ w \in Alive /\ Presentable(w)
    /\ res' = IF wrapper[w].cont = Null THEN res ELSE wrapper[w].cont
    /\ wrapper' = [wrapper EXCEPT ![w].owner = IF @ = "Library" THEN "LibraryLink" ELSE @]
    /\ UNCHANGED <<phase, heap, shares, args>>

\* toMArgument(): the container is abandoned to the output, a shared one too.
ToMArgument(w) ==
    /\ phase = "running" /\ w \in Alive /\ Presentable(w)
    /\ res' = wrapper[w].cont
    /\ wrapper' = [wrapper EXCEPT ![w].owner = "LibraryLink"]
    /\ UNCHANGED <<phase, heap, shares, args>>

\* abandonContainer(), the data structure that takes the container settling the
\* wrapper's duty from now on.
HandOver(w, h) ==
    /\ heap' = [c \in Containers |-> IF Claim(w, "Library", c) THEN "kernel" ELSE h[c]]
    /\ shares' = [c \in Containers |-> IF Claim(w, "Shared", c) THEN shares[c] - 1 ELSE shares[c]]

\* push_back() of a container into a DataStore.
PushBack(w) ==
    /\ phase = "running" /\ w \in Alive /\ Presentable(w) /\ wrapper[w].cont # Null
    /\ HandOver(w, heap)
    /\ wrapper' = [wrapper EXCEPT ![w].owner = "LibraryLink"]
    /\ UNCHANGED <<phase, args, res>>

\* DataVector(type, array, validity): the column owns the array, the library
\* the column.
MakeColumn(w, v) ==
    /\ phase = "running" /\ w \in Alive /\ Presentable(w) /\ wrapper[w].cont # Null
    /\ v \notin Alive
    /\ \E c \in Containers :
          /\ Fresh(c)
          /\ HandOver(w, [heap EXCEPT ![c] = "library"])
          /\ wrapper' = [wrapper EXCEPT ![w].owner = "LibraryLink",
                                        ![v] = [cont |-> c, owner |-> "Library"]]
    /\ UNCHANGED <<phase, args, res>>

\* The same with a type that columns of arrays do not have: the array has been
\* abandoned when the exception leaves the constructor.
ColumnFails(w) ==
    /\ phase = "running" /\ w \in Alive /\ Presentable(w) /\ wrapper[w].cont # Null
    /\ wrapper' = [wrapper EXCEPT ![w].owner = "LibraryLink"]
    /\ phase' = "failing"
    /\ UNCHANGED <<heap, shares, args, res>>

\* setImplicitValueFromTensor(), resparsify(): LibraryLink answers with a new
\* sparse array, which reset() makes the library's.  (An answer in place changes
\* nothing when the wrapper is the owner; for other wrappers LibraryLink is
\* taken not to answer in place.)
SetImplicitValue(w) ==
    /\ phase = "running" /\ w \in Alive /\ wrapper[w].cont # Null
    /\ \E c \in Containers :
          /\ Fresh(c)
          /\ Release(w, [heap EXCEPT ![c] = "library"])
          /\ Construct(w, [cont |-> c, owner |-> "Library"])
    /\ UNCHANGED <<phase, args, res>>

-----------------------------------------------------------------------------
(* MArgumentManager *)

\* Deviation: a Constant or Automatic argument is taken for a Manual one.
GetOwnerDefaultLibrary(m) == IF m = "Shared" THEN "Shared" ELSE "Library"

\* getOwner(): who owns an argument passed in mode m.
GetOwner(m) == CASE m = "Manual" -> "Library"
                 [] m = "Shared" -> "Shared"
                 [] OTHER        -> "LibraryLink"

\* getGenericXxx<Mode>(i) with the mode the argument was passed in; the function
\* reads an argument at most once.
GetArgument(i, w) ==
    /\ phase = "running" /\ w \notin Alive /\ args[i] # NoArg
    /\ Construct(w, [cont |-> args[i].cont, owner |-> GetOwner(args[i].mode)])
    /\ args' = [args EXCEPT ![i] = NoArg]
    /\ UNCHANGED <<phase, heap, shares, res>>

-----------------------------------------------------------------------------

Kernel ==
    \/ \E c \in Containers : KernelCreate(c) \/ KernelFree(c)
    \/ \E a \in [Args -> Arguments] : CallFunction(a)
    \/ Return
    \/ Fail

Library ==
    \/ Throw
    \/ \E i \in Args, w \in Wrappers : GetArgument(i, w)
    \/ \E w \in Wrappers :
          \/ DefaultConstruct(w) \/ Create(w) \/ Destroy(w)
          \/ Pass(w) \/ ToMArgument(w) \/ PushBack(w)
          \/ ColumnFails(w) \/ SetImplicitValue(w)
          \/ \E v \in Wrappers :
                MoveConstruct(w, v) \/ MoveAssign(w, v) \/ Clone(w, v)
                \/ MakeView(w, v) \/ MakeColumn(w, v)

Next == Kernel \/ Library

Spec == Init /\ [][Next]_vars

-----------------------------------------------------------------------------
(* Properties *)

\* A container is owned by at most one wrapper, only while LibraryLink expects
\* the library to free it, and not while its argument is still to be read: no
\* destructor, reset or assignment frees a container twice or frees one of the
\* kernel's.
SingleOwner ==
    \A c \in Containers :
       /\ Owning(c) # {} => heap[c] = "library" /\ Passed(c, "Manual") = {}
       /\ \A w, v \in Owning(c) : w = v
       /\ \A i, j \in Passed(c, "Manual") : i = j

\* Behind every Shared wrapper, and every Shared argument still to be read,
\* there is a share of its own: the share count never drops below what other
\* wrappers rely on, so the kernel keeps their container.
SharesBacked ==
    \A c \in Containers :
       /\ Cardinality(Sharing(c)) + Cardinality(Passed(c, "Shared")) <= shares[c]
       /\ shares[c] > 0 => heap[c] = "kernel"

\* The output argument never names a container that the function, its
\* destructors or its exceptions have freed.
ResultAllocated == res # Null => heap[res] # "absent"

\* Containers and shares nobody in the library will release any more.
FreeLost(c) ==
    heap[c] = "library" /\ Owning(c) = {} /\ Passed(c, "Manual") = {} /\ res # c
SharesLost(c) == shares[c] - Cardinality(Sharing(c)) - Cardinality(Passed(c, "Shared"))

\* The steps that lose one: arguments left unread, a result that is replaced or
\* not delivered, a shared container abandoned to the output, an assignment
\* between two wrappers of one container, a column that is not constructed.
MayLose(c) ==
    \/ Return /\ \E m \in Passing : Passed(c, m) # {}
    \/ Fail /\ (res = c \/ \E m \in Passing : Passed(c, m) # {})
    \/ res = c /\ \E w \in Wrappers : Pass(w) \/ ToMArgument(w)
    \/ \E w \in Sharing(c) : ToMArgument(w)
    \/ \E w \in Alive : wrapper[w].cont = c /\ ColumnFails(w)
    \/ \E w, v \in Alive : wrapper[w].cont = c /\ wrapper[v].cont = c /\ MoveAssign(w, v)

\* Every other step, however calls succeed, fail, move and replace containers,
\* leaves each container that is to be freed and each share that is to be given
\* back with something that will do so.
NothingElseLost ==
    [][\A c \in Containers :
          (FreeLost(c)' /\ ~FreeLost(c)) \/ SharesLost(c)' > SharesLost(c) => MayLose(c)]_vars

\* DataVector.cpp:49 on the array given to a column's constructor: "now the
\* NumericArray belongs to the TabularColumn and TabularColumn must free it when
\* it dies".  So no way out of the constructor leaves the array ownerless.
ColumnOwnsArray ==
    [][\A w \in Alive : ColumnFails(w) =>
          \A c \in Containers : FreeLost(c)' => FreeLost(c)]_vars

=============================================================================
