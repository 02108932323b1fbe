--------------------- MODULE ContainerOwnershipProofs ---------------------
(***************************************************************************)
(* For every number of containers, wrappers and arguments: no container    *)
(* has two owners, a result is never freed before it is returned, every    *)
(* Shared wrapper has a share of its own, and only the steps that are      *)
(* named as such lose a container or a share.                              *)
(***************************************************************************)
EXTENDS ContainerOwnership, FiniteSetTheorems, TLAPS

\* What the proof of ownership needs of the types; shares play no part in it.
TypeInv ==
    /\ heap \in [Containers -> {"absent", "kernel", "library"}]
    /\ wrapper \in [Wrappers -> Objects \cup {Dead}]
    /\ args \in [Args -> Arguments]
    /\ res \in Containers \cup {Null}

\* A result is owned by no wrapper and no argument to come, so that nothing in
\* the library can free it any more.
ResultUnowned ==
    \A c \in Containers : res = c =>
        heap[c] # "absent" /\ Owning(c) = {} /\ Passed(c, "Manual") = {}

\* What is handed over is there to be freed.
PassedInLibrary == \A c \in Containers : Passed(c, "Manual") # {} => heap[c] = "library"

\* Between calls there is neither a result nor an argument.
QuietKernel == phase = "kernel" => res = Null /\ \A i \in Args : args[i] = NoArg

IInv == TypeInv /\ SingleOwner /\ PassedInLibrary /\ ResultUnowned /\ QuietKernel

\* The two conjuncts about wrappers and arguments, as one fact for one container.
Sound(c) ==
    /\ Owning(c) # {} => heap[c] = "library" /\ Passed(c, "Manual") = {}
    /\ \A w, v \in Owning(c) : w = v
    /\ \A i, j \in Passed(c, "Manual") : i = j
    /\ Passed(c, "Manual") # {} => heap[c] = "library"
    /\ res = c => heap[c] # "absent" /\ Owning(c) = {} /\ Passed(c, "Manual") = {}

\* IInv by container.
LEMMA BySound == IInv <=> TypeInv /\ QuietKernel /\ \A c \in Containers : Sound(c)
  BY DEF IInv, SingleOwner, PassedInLibrary, ResultUnowned, Sound

USE DEF Claim, Owning, Passed, Alive

\* Initially nothing exists.
LEMMA InitInv == ASSUME Init PROVE IInv
  BY OwnershipAssumption DEF Init, IInv, TypeInv, SingleOwner, PassedInLibrary,
     ResultUnowned, QuietKernel, Objects, Arguments, Ownership, Passing

\* Steps of the kernel keep the invariant.
LEMMA KernelStep == ASSUME IInv, Kernel PROVE IInv'
  <1> USE OwnershipAssumption DEF TypeInv, Objects, Arguments, Ownership, Passing
  <1>0. TypeInv /\ QuietKernel /\ \A c \in Containers : Sound(c)
    BY BySound
  <1> SUFFICES TypeInv' /\ QuietKernel' /\ \A c \in Containers : Sound(c)'
    BY DEF IInv, SingleOwner, PassedInLibrary, ResultUnowned, Sound
  <1>1. ASSUME NEW d \in Containers, KernelCreate(d) \/ KernelFree(d)
        PROVE  TypeInv' /\ QuietKernel' /\ \A c \in Containers : Sound(c)'
    BY <1>0, <1>1 DEF KernelCreate, KernelFree, QuietKernel, Sound, Fresh, Names
  <1>2. ASSUME NEW a \in [Args -> Arguments], CallFunction(a)
        PROVE  TypeInv' /\ QuietKernel' /\ \A c \in Containers : Sound(c)'
    <2> DEFINE Given(c) == \E i \in Args : a[i] = [cont |-> c, mode |-> "Manual"]
    <2>1. /\ phase = "kernel" /\ phase' = "running"
          /\ \A i \in Args : a[i] # NoArg => heap[a[i].cont] = "kernel"
          /\ \A c \in Containers, i, j \in Args :
                Given(c) /\ Names(a[i], c) /\ Names(a[j], c) => i = j
          /\ heap' = [c \in Containers |-> IF Given(c) THEN "library" ELSE heap[c]]
          /\ args' = a /\ wrapper' = wrapper /\ res' = Null /\ res = Null
      <3>1. \A c \in Containers :
               Given(c) <=> {i \in Args : a[i] = [cont |-> c, mode |-> "Manual"]} # {}
        OBVIOUS
      <3>2. heap' = [c \in Containers |-> IF Given(c) THEN "library" ELSE heap[c]]
        BY <1>2, <3>1, Zenon DEF CallFunction
      <3>3. \A c \in Containers, i, j \in Args :
               Given(c) /\ Names(a[i], c) /\ Names(a[j], c) => i = j
        BY <1>2, <3>1, Zenon DEF CallFunction
      <3>4. /\ phase = "kernel" /\ phase' = "running"
            /\ \A i \in Args : a[i] # NoArg => heap[a[i].cont] = "kernel"
            /\ args' = a /\ wrapper' = wrapper /\ res' = res
        BY <1>2, Zenon DEF CallFunction
      <3>5. QED
        BY <1>0, <3>2, <3>3, <3>4 DEF QuietKernel
    <2>2. TypeInv' /\ QuietKernel'
      BY <1>0, <2>1 DEF QuietKernel
    <2>3. ASSUME NEW c \in Containers PROVE Sound(c)'
      <3>1. ASSUME NEW i \in Args, a[i] = [cont |-> c, mode |-> "Manual"]
            PROVE  Names(a[i], c) /\ heap[c] = "kernel" /\ Given(c)
        BY <2>1, <3>1 DEF Names
      <3>2. Given(c) => Owning(c) = {} /\ heap'[c] = "library"
        BY <1>0, <2>1, <3>1 DEF Sound
      <3>3. ~Given(c) => Passed(c, "Manual")' = {} /\ heap'[c] = heap[c]
        BY <2>1
      <3>4. \A i, j \in Passed(c, "Manual")' : i = j
        BY <2>1, <3>1
      <3>5. Owning(c)' = Owning(c)
        BY <2>1
      <3>6. QED
        BY <1>0, <2>1, <3>2, <3>3, <3>4, <3>5 DEF Sound
    <2>4. QED
      BY <2>2, <2>3
  <1>3. ASSUME Return
        PROVE  TypeInv' /\ QuietKernel' /\ \A c \in Containers : Sound(c)'
    BY <1>0, <1>3 DEF Return, QuietKernel, Sound
  <1>4. ASSUME Fail
        PROVE  TypeInv' /\ QuietKernel' /\ \A c \in Containers : Sound(c)'
    BY <1>0, <1>4 DEF Fail, QuietKernel, Sound
  <1>5. QED
    BY <1>1, <1>2, <1>3, <1>4 DEF Kernel

\* Steps of the library keep the invariant.
LEMMA LibraryStep == ASSUME IInv, Library PROVE IInv'
  <1> USE OwnershipAssumption DEF TypeInv, Objects, Arguments, Ownership, Passing
  <1> DEFINE Kept == TypeInv' /\ QuietKernel' /\ \A c \in Containers : Sound(c)'
  <1>0. TypeInv /\ QuietKernel /\ \A c \in Containers : Sound(c)
    BY BySound
  <1> SUFFICES Kept
    BY DEF IInv, SingleOwner, PassedInLibrary, ResultUnowned, Sound
  <1>1. ASSUME Throw PROVE Kept
    BY <1>0, <1>1 DEF Throw, QuietKernel, Sound
  <1>2. ASSUME NEW i \in Args, NEW w \in Wrappers, GetArgument(i, w) PROVE Kept
    BY <1>0, <1>2 DEF GetArgument, GetOwner, Construct, QuietKernel, Sound
  <1>3. ASSUME NEW w \in Wrappers, Create(w) PROVE Kept
    BY <1>0, <1>3 DEF Create, Construct, Fresh, Names, QuietKernel, Sound
  <1>4. ASSUME NEW w \in Wrappers, Destroy(w) PROVE Kept
    BY <1>0, <1>4 DEF Destroy, Release, Construct, QuietKernel, Sound
  <1>5. ASSUME NEW w \in Wrappers, Pass(w) PROVE Kept
    BY <1>0, <1>5 DEF Pass, Presentable, QuietKernel, Sound
  <1>6. ASSUME NEW w \in Wrappers, PushBack(w) PROVE Kept
    BY <1>0, <1>6 DEF PushBack, Presentable, HandOver, QuietKernel, Sound
  <1>7. ASSUME NEW w \in Wrappers, ColumnFails(w) PROVE Kept
    BY <1>0, <1>7 DEF ColumnFails, Presentable, QuietKernel, Sound
  <1>8. ASSUME NEW w \in Wrappers, SetImplicitValue(w) PROVE Kept
    BY <1>0, <1>8 DEF SetImplicitValue, Release, Construct, Fresh, Names, QuietKernel, Sound
  <1>9. ASSUME NEW w \in Wrappers, NEW v \in Wrappers, MoveConstruct(w, v) PROVE Kept
    BY <1>0, <1>9, SMTT(30) DEF MoveConstruct, QuietKernel, Sound
  <1>10. ASSUME NEW w \in Wrappers, NEW v \in Wrappers, MoveAssign(w, v) PROVE Kept
    <2>1. /\ wrapper' = [wrapper EXCEPT ![w] = wrapper[v], ![v].cont = Null]
          /\ w # v /\ wrapper[w] \in Objects /\ wrapper[v] \in Objects
          /\ args' = args /\ res' = res /\ phase' = phase
      BY <1>0, <1>10 DEF MoveAssign
    <2>2. /\ wrapper' \in [Wrappers -> Objects \cup {Dead}]
          /\ wrapper'[w] = wrapper[v] /\ wrapper'[v].cont = Null
          /\ \A u \in Wrappers \ {w, v} : wrapper'[u] = wrapper[u]
      BY <1>0, <2>1
    <2>3. heap' = IF wrapper[w].cont = wrapper[v].cont THEN heap
                  ELSE [c \in Containers |-> IF Claim(w, "Library", c) THEN "absent" ELSE heap[c]]
      BY <1>10 DEF MoveAssign, Release
    <2>4. ASSUME NEW c \in Containers PROVE Sound(c)'
      <3>1. \A u \in Owning(c)' : \/ u = w /\ v \in Owning(c)
                                  \/ u \notin {w, v} /\ u \in Owning(c)
        BY <2>1, <2>2
      <3>2. Passed(c, "Manual")' = Passed(c, "Manual")
        BY <2>1
      <3>3. heap'[c] # heap[c] => w \in Owning(c) /\ heap'[c] = "absent" /\ v \notin Owning(c)
        BY <1>0, <2>1, <2>3
      <3>4. heap'[c] # heap[c] => Owning(c)' = {}
        <4>1. Owning(c)' \subseteq Wrappers
          OBVIOUS
        <4>2. Sound(c)
          BY <1>0
        <4> HIDE DEF Owning, Passed, Claim
        <4>3. \A u \in Owning(c) : w \in Owning(c) => u = w
          BY <4>2 DEF Sound
        <4>4. QED
          BY <3>1, <3>3, <4>3, <4>1
      <3>5. QED
        BY <1>0, <2>1, <3>1, <3>2, <3>3, <3>4, SMTT(30) DEF Sound
    <2>5. QED
      BY <1>0, <2>1, <2>2, <2>3, <2>4 DEF QuietKernel
  <1>11. ASSUME NEW w \in Wrappers, NEW v \in Wrappers, Clone(w, v) PROVE Kept
    BY <1>0, <1>11 DEF Clone, Construct, Fresh, Names, QuietKernel, Sound
  <1>12. ASSUME NEW w \in Wrappers, NEW v \in Wrappers, MakeView(w, v) PROVE Kept
    BY <1>0, <1>12 DEF MakeView, Construct, QuietKernel, Sound
  <1>13. ASSUME NEW w \in Wrappers, NEW v \in Wrappers, MakeColumn(w, v) PROVE Kept
    <2>1. PICK d \in Containers :
             /\ Fresh(d)
             /\ heap' = [c \in Containers |-> IF Claim(w, "Library", c) THEN "kernel"
                                              ELSE [heap EXCEPT ![d] = "library"][c]]
             /\ wrapper' = [wrapper EXCEPT ![w].owner = "LibraryLink",
                                           ![v] = [cont |-> d, owner |-> "Library"]]
      BY <1>13 DEF MakeColumn, HandOver
    <2>2. /\ w \in Alive /\ v \notin Alive /\ w # v /\ Presentable(w)
          /\ args' = args /\ res' = res /\ phase' = phase
      BY <1>13 DEF MakeColumn
    <2>3. /\ wrapper' \in [Wrappers -> Objects \cup {Dead}]
          /\ wrapper'[w].owner = "LibraryLink" /\ wrapper'[w].cont = wrapper[w].cont
          /\ wrapper'[v] = [cont |-> d, owner |-> "Library"]
          /\ \A u \in Wrappers \ {w, v} : wrapper'[u] = wrapper[u]
      BY <1>0, <2>1, <2>2
    <2>4. /\ Owning(d) = {} /\ Passed(d, "Manual") = {} /\ res # d
          /\ ~Claim(w, "Library", d)
      BY <2>1 DEF Fresh, Names
    <2>5. ASSUME NEW c \in Containers PROVE Sound(c)'
      <3>1. CASE c = d
        <4>1. Owning(c)' = {v} /\ Passed(c, "Manual")' = {} /\ res' # c
          BY <2>2, <2>3, <2>4, <3>1
        <4>2. heap'[c] = "library"
          BY <1>0, <2>1, <2>4, <3>1
        <4>3. QED
          BY <4>1, <4>2 DEF Sound
      <3>2. CASE c # d
        <4>1. Owning(c)' = Owning(c) \ {w} /\ Passed(c, "Manual")' = Passed(c, "Manual")
          BY <2>2, <2>3, <3>2
        <4>2. heap'[c] = IF w \in Owning(c) THEN "kernel" ELSE heap[c]
          BY <1>0, <2>1, <3>2
        <4>3. QED
          BY <1>0, <2>2, <4>1, <4>2 DEF Sound
      <3>3. QED
        BY <3>1, <3>2
    <2>6. QED
      BY <1>0, <2>1, <2>2, <2>3, <2>5 DEF QuietKernel
  <1>14. ASSUME NEW w \in Wrappers, DefaultConstruct(w) PROVE Kept
    BY <1>0, <1>14 DEF DefaultConstruct, Construct, QuietKernel, Sound
  <1>15. ASSUME NEW w \in Wrappers, ToMArgument(w) PROVE Kept
    BY <1>0, <1>15 DEF ToMArgument, Presentable, QuietKernel, Sound
  <1>16. QED
    BY <1>1, <1>2, <1>3, <1>4, <1>5, <1>6, <1>7, <1>8, <1>9, <1>10, <1>11, <1>12, <1>13,
       <1>14, <1>15 DEF Library

\* The invariant is one of the specification.
LEMMA Invariance == Spec => []IInv
  <1>1. Init => IInv
    BY InitInv
  <1>2. IInv /\ [Next]_vars => IInv'
    <2> SUFFICES ASSUME IInv, [Next]_vars PROVE IInv'
      OBVIOUS
    <2>1. CASE Next
      BY <2>1, KernelStep, LibraryStep DEF Next
    <2>2. CASE UNCHANGED vars
      BY <2>2 DEF vars, IInv, TypeInv, SingleOwner, PassedInLibrary, ResultUnowned,
         QuietKernel
    <2>3. QED
      BY <2>1, <2>2
  <1>3. QED
    BY <1>1, <1>2, PTL DEF Spec

\* Whatever the number of wrappers and however they are moved, assigned, passed,
\* stored and unwound, no container has two owners and none is owned that
\* LibraryLink does not expect the library to free: MContainerBase's destructor
\* and reset() never free twice and never free a container of the kernel.
THEOREM OneOwner == Spec => []SingleOwner
  <1>1. IInv => SingleOwner
    BY DEF IInv
  <1>2. QED
    BY <1>1, Invariance, PTL

\* No destructor, reset or exception handler frees the container that pass() has
\* put into the output MArgument before the call is over.
THEOREM ResultSurvives == Spec => []ResultAllocated
  <1>1. IInv => ResultAllocated
    BY OwnershipAssumption DEF IInv, TypeInv, ResultUnowned, ResultAllocated
  <1>2. QED
    BY <1>1, Invariance, PTL

-----------------------------------------------------------------------------
(* Shares.                                                                 *)

\* What is not of the kernel has no shares, and every holder has its own.
SharesInv ==
    /\ IInv
    /\ phase \in {"kernel", "running", "failing"}
    /\ shares \in [Containers -> Nat]
    /\ SharesBacked

USE DEF Sharing

\* Cardinalities of what can be counted here.
LEMMA Counting ==
    ASSUME NEW S, IsFiniteSet(S)
    PROVE  /\ Cardinality(S) \in Nat
           /\ Cardinality(S) = 0 <=> S = {}
           /\ \A x \in S : Cardinality(S \ {x}) = Cardinality(S) - 1
           /\ \A x : x \notin S => Cardinality(S \cup {x}) = Cardinality(S) + 1
  BY FS_CardinalityType, FS_EmptySet, FS_RemoveElement, FS_AddElement

LEMMA Holders ==
    ASSUME NEW c
    PROVE  /\ IsFiniteSet(Sharing(c)) /\ IsFiniteSet(Passed(c, "Shared"))
           /\ IsFiniteSet(Sharing(c)') /\ IsFiniteSet(Passed(c, "Shared")')
           /\ Cardinality(Sharing(c)) \in Nat /\ Cardinality(Passed(c, "Shared")) \in Nat
           /\ Cardinality(Sharing(c)') \in Nat /\ Cardinality(Passed(c, "Shared")') \in Nat
  <1>1. /\ Sharing(c) \subseteq Wrappers /\ Passed(c, "Shared") \subseteq Args
        /\ Sharing(c)' \subseteq Wrappers /\ Passed(c, "Shared")' \subseteq Args
    OBVIOUS
  <1>2. QED
    BY <1>1, OwnershipAssumption, FS_Subset, FS_CardinalityType

\* How the shares of one container may change: nobody's is taken from it, and
\* it is given up in the steps that say so only.
Settled(c) ==
    /\ shares'[c] \in Int
    /\ SharesLost(c)' >= SharesLost(c)
    /\ SharesLost(c)' # SharesLost(c) => MayLose(c)
    /\ shares'[c] > 0 => heap'[c] = "kernel"

\* The ways in which a step may treat the holders of one container's shares.
LEMMA Untouched ==
    ASSUME SharesInv, NEW c \in Containers,
           shares'[c] = shares[c], shares[c] > 0 => heap'[c] = heap[c],
           Sharing(c)' = Sharing(c), Passed(c, "Shared")' = Passed(c, "Shared")
    PROVE  Settled(c)
  <1> HIDE DEF Sharing, Passed
  <1> QED
    BY Holders DEF SharesInv, SharesBacked, SharesLost, Settled

LEMMA GivenBack ==
    ASSUME SharesInv, NEW c \in Containers, NEW w \in Sharing(c),
           shares'[c] = shares[c] - 1, heap'[c] = heap[c],
           Sharing(c)' = Sharing(c) \ {w}, Passed(c, "Shared")' = Passed(c, "Shared")
    PROVE  Settled(c)
  <1> HIDE DEF Sharing, Passed
  <1>1. Cardinality(Sharing(c)') = Cardinality(Sharing(c)) - 1
    BY Holders, Counting
  <1> QED
    BY <1>1, Holders DEF SharesInv, SharesBacked, SharesLost, Settled

LEMMA Moved ==
    ASSUME SharesInv, NEW c \in Containers, NEW w \in Sharing(c), NEW v, v \notin Sharing(c),
           shares'[c] = shares[c], heap'[c] = heap[c],
           Sharing(c)' = (Sharing(c) \ {w}) \cup {v}, Passed(c, "Shared")' = Passed(c, "Shared")
    PROVE  Settled(c)
  <1> HIDE DEF Sharing, Passed
  <1>1. /\ IsFiniteSet(Sharing(c) \ {w})
        /\ Cardinality(Sharing(c) \ {w}) = Cardinality(Sharing(c)) - 1
    BY Holders, Counting, FS_RemoveElement
  <1>2. v \notin Sharing(c) \ {w}
    OBVIOUS
  <1>3. Cardinality((Sharing(c) \ {w}) \cup {v}) = Cardinality(Sharing(c) \ {w}) + 1
    BY <1>1, <1>2, FS_AddElement
  <1>4. Cardinality(Sharing(c)') = Cardinality(Sharing(c))
    BY <1>1, <1>3, Holders
  <1> QED
    BY <1>4, Holders DEF SharesInv, SharesBacked, SharesLost, Settled

LEMMA TakenUp ==
    ASSUME SharesInv, NEW c \in Containers, NEW i \in Passed(c, "Shared"), NEW w, w \notin Sharing(c),
           shares'[c] = shares[c], heap'[c] = heap[c],
           Sharing(c)' = Sharing(c) \cup {w}, Passed(c, "Shared")' = Passed(c, "Shared") \ {i}
    PROVE  Settled(c)
  <1> HIDE DEF Sharing, Passed
  <1>1. /\ Cardinality(Sharing(c)') = Cardinality(Sharing(c)) + 1
        /\ Cardinality(Passed(c, "Shared")') = Cardinality(Passed(c, "Shared")) - 1
    BY Holders, Counting
  <1> QED
    BY <1>1, Holders DEF SharesInv, SharesBacked, SharesLost, Settled

LEMMA Abandoned ==
    ASSUME SharesInv, NEW c \in Containers, NEW w \in Sharing(c), MayLose(c),
           shares'[c] = shares[c], shares[c] > 0 => heap'[c] = heap[c],
           Sharing(c)' = Sharing(c) \ {w}, Passed(c, "Shared")' = Passed(c, "Shared")
    PROVE  Settled(c)
  <1> HIDE DEF Sharing, Passed
  <1>1. Cardinality(Sharing(c)') = Cardinality(Sharing(c)) - 1
    BY Holders, Counting
  <1> QED
    BY <1>1, Holders DEF SharesInv, SharesBacked, SharesLost, Settled

\* At the end of a call the arguments left unread are lost.
LEMMA Unread ==
    ASSUME SharesInv, NEW c \in Containers, Passed(c, "Shared") # {} => MayLose(c),
           shares'[c] = shares[c], shares[c] > 0 => heap'[c] = heap[c],
           Sharing(c)' = Sharing(c), Passed(c, "Shared")' = {}
    PROVE  Settled(c)
  <1> HIDE DEF Sharing, Passed
  <1>1. /\ Cardinality(Passed(c, "Shared")') = 0
        /\ Cardinality(Passed(c, "Shared")) = 0 <=> Passed(c, "Shared") = {}
    BY Holders, Counting, FS_EmptySet
  <1> QED
    BY <1>1, Holders DEF SharesInv, SharesBacked, SharesLost, Settled

\* What SharesInv says of the types, in one place.
LEMMA SharesTypes ==
    ASSUME SharesInv
    PROVE  /\ heap \in [Containers -> {"absent", "kernel", "library"}]
           /\ shares \in [Containers -> Nat]
           /\ wrapper \in [Wrappers -> Objects \cup {Dead}]
           /\ \A w \in Alive : wrapper[w] \in Objects
           /\ args \in [Args -> Arguments]
           /\ res \in Containers \cup {Null}
           /\ \A c \in Containers : shares[c] > 0 => heap[c] = "kernel"
           /\ \A c \in Containers : Owning(c) # {} => heap[c] = "library"
           /\ \A c \in Containers : heap[c] # "kernel" => shares[c] = 0
           /\ \A c \in Containers : shares[c] = 0 => Sharing(c) = {} /\ Passed(c, "Shared") = {}
  <1>1. TypeInv /\ SingleOwner /\ shares \in [Containers -> Nat]
    BY DEF SharesInv, IInv
  <1>2. \A c \in Containers : shares[c] > 0 => heap[c] = "kernel"
    BY DEF SharesInv, SharesBacked
  <1>3. \A w \in Alive : wrapper[w] \in Objects
    BY <1>1 DEF TypeInv
  <1>4. ASSUME NEW c \in Containers, shares[c] = 0
        PROVE  Sharing(c) = {} /\ Passed(c, "Shared") = {}
    <2> HIDE DEF Sharing, Passed
    <2>1. Cardinality(Sharing(c)) + Cardinality(Passed(c, "Shared")) <= 0
      BY <1>4 DEF SharesInv, SharesBacked
    <2>2. Cardinality(Sharing(c)) = 0 /\ Cardinality(Passed(c, "Shared")) = 0
      BY <2>1, Holders
    <2> QED
      BY <2>2, Holders, Counting
  <1>5. \A c \in Containers : Owning(c) # {} => heap[c] = "library"
    BY <1>1 DEF SingleOwner
  <1>6. \A c \in Containers : heap[c] # "kernel" => shares[c] = 0
    BY <1>1, <1>2
  <1> QED
    BY <1>1, <1>2, <1>3, <1>4, <1>5, <1>6 DEF TypeInv

-----------------------------------------------------------------------------
(* Each step settles the shares of each container.                         *)

\* Creating and freeing in the kernel, and the end of a call.
LEMMA KernelSettles ==
    ASSUME SharesInv, Return \/ Fail \/ \E d \in Containers : KernelCreate(d) \/ KernelFree(d),
           NEW c \in Containers
    PROVE  Settled(c)
  <1>1. ASSUME NEW d \in Containers, KernelCreate(d) \/ KernelFree(d) PROVE Settled(c)
    <2>1. shares' = shares /\ wrapper' = wrapper /\ args' = args
      BY <1>1 DEF KernelCreate, KernelFree
    <2>2. shares[c] > 0 => heap'[c] = heap[c]
      BY <1>1, SharesTypes DEF KernelCreate, KernelFree, Fresh
    <2>3. Sharing(c)' = Sharing(c) /\ Passed(c, "Shared")' = Passed(c, "Shared")
      BY <2>1
    <2> QED
      BY <2>1, <2>2, <2>3, Untouched
  <1>2. ASSUME Return \/ Fail PROVE Settled(c)
    <2>1. shares' = shares /\ wrapper' = wrapper /\ args' = [i \in Args |-> NoArg]
      BY <1>2 DEF Return, Fail
    <2>2. Sharing(c)' = Sharing(c) /\ Passed(c, "Shared")' = {}
      BY <2>1, OwnershipAssumption DEF Passing
    <2>3. shares[c] > 0 => heap'[c] = heap[c]
      BY <1>2, SharesTypes DEF Return, Fail
    <2>4. Passed(c, "Shared") # {} => MayLose(c)
      BY <1>2 DEF MayLose, Passing
    <2> QED
      BY <2>1, <2>2, <2>3, <2>4, Unread
  <1> QED
    BY <1>1, <1>2

\* A call adds one share for each position that a container is passed at.
LEMMA CallSettles ==
    ASSUME SharesInv, NEW a \in [Args -> Arguments], CallFunction(a), NEW c \in Containers
    PROVE  Settled(c)
  <1> DEFINE At(m) == {i \in Args : a[i] = [cont |-> c, mode |-> m]}
  <1>1. /\ shares'[c] = shares[c] + Cardinality(At("Shared"))
        /\ heap'[c] = IF At("Manual") # {} THEN "library" ELSE heap[c]
        /\ At("Manual") # {} => \A i, j \in Args : Names(a[i], c) /\ Names(a[j], c) => i = j
        /\ At("Manual") # {} => shares[c] = 0
        /\ wrapper' = wrapper /\ args' = a
        /\ \A i \in Args : a[i] # NoArg => heap[a[i].cont] = "kernel"
        /\ phase = "kernel"
    BY Zenon DEF CallFunction
  <1>2. Sharing(c)' = Sharing(c) /\ Passed(c, "Shared")' = At("Shared")
    BY <1>1
  <1>3. \A m : At(m) = {} \/ \E i \in Args : a[i] = [cont |-> c, mode |-> m]
    OBVIOUS
  <1>4. IsFiniteSet(At("Shared")) /\ Cardinality(At("Shared")) \in Nat
    BY OwnershipAssumption, FS_Subset, FS_CardinalityType
  <1>5. Passed(c, "Shared") = {}
    BY <1>1, OwnershipAssumption DEF SharesInv, IInv, QuietKernel, Passing
  <1>6. At("Manual") # {} => At("Shared") = {}
    BY <1>1, OwnershipAssumption DEF Names, Passing
  <1>7. At("Shared") # {} => heap[c] = "kernel"
    BY <1>1, OwnershipAssumption DEF Passing
  <1>8. Cardinality(At("Shared")) = 0 <=> At("Shared") = {}
    BY <1>4, Counting
  <1>9. shares[c] \in Nat /\ (shares[c] > 0 => heap[c] = "kernel")
    BY SharesTypes
  <1>10. Cardinality(Passed(c, "Shared")) = 0
    BY <1>5, Holders, Counting
  <1>11. shares'[c] > 0 => heap'[c] = "kernel"
    <2> HIDE DEF At
    <2> QED BY <1>1, <1>4, <1>6, <1>7, <1>8, <1>9
  <1>12. SharesLost(c)' = SharesLost(c)
    <2> HIDE DEF At, Sharing, Passed
    <2> QED BY <1>1, <1>2, <1>4, <1>9, <1>10, Holders DEF SharesLost
  <1>13. SharesLost(c) \in Int /\ shares'[c] \in Int
    <2> HIDE DEF At, Sharing, Passed
    <2> QED BY <1>1, <1>4, <1>9, Holders DEF SharesLost
  <1> QED
    BY <1>11, <1>12, <1>13 DEF Settled

\* A container that is released, handed over or given to someone else.
LEMMA ReleaseSettles ==
    ASSUME SharesInv, NEW w \in Alive, NEW c \in Containers,
           NEW h, shares[c] > 0 => h[c] = heap[c],
           Release(w, h) \/ HandOver(w, h),
           \A u \in Wrappers : u \in Sharing(c)' <=> u \in Sharing(c) /\ u # w,
           args' = args
    PROVE  Settled(c)
  <1>1. shares'[c] = IF w \in Sharing(c) THEN shares[c] - 1 ELSE shares[c]
    BY DEF Release, HandOver
  <1>2. shares[c] > 0 => heap'[c] = heap[c]
    BY SharesTypes DEF Release, HandOver
  <1>3. Sharing(c)' = Sharing(c) \ {w} /\ Passed(c, "Shared")' = Passed(c, "Shared")
    BY Zenon
  <1>4. w \in Sharing(c) => shares[c] > 0
    <2>1. shares[c] \in Nat /\ (shares[c] = 0 => Sharing(c) = {})
      BY SharesTypes
    <2> HIDE DEF Sharing
    <2> QED
      BY <2>1
  <1> QED
    BY <1>1, <1>2, <1>3, <1>4, Untouched, GivenBack

\* The constructors, and the reading of an argument.
LEMMA ConstructionSettles ==
    ASSUME SharesInv, NEW w \in Wrappers, NEW c \in Containers,
           \/ DefaultConstruct(w) \/ Create(w)
           \/ \E i \in Args : GetArgument(i, w)
           \/ \E v \in Wrappers : Clone(v, w) \/ MakeView(v, w)
    PROVE  Settled(c)
  <1>1. ASSUME DefaultConstruct(w) \/ Create(w) \/ \E v \in Wrappers : Clone(v, w) \/ MakeView(v, w)
        PROVE  Settled(c)
    <2>1. shares' = shares /\ args' = args /\ w \notin Alive
      BY <1>1 DEF DefaultConstruct, Create, Clone, MakeView
    <2>2. \/ wrapper' = wrapper
          \/ \E o \in Objects : o.owner # "Shared" /\ wrapper' = [wrapper EXCEPT ![w] = o]
      BY <1>1, SharesTypes DEF DefaultConstruct, Create, Clone, MakeView, Construct, Objects, Ownership
    <2>3. shares[c] > 0 => heap'[c] = heap[c]
      BY <1>1, SharesTypes DEF DefaultConstruct, Create, Clone, MakeView, Fresh
    <2>4. Sharing(c)' = Sharing(c)
      BY <2>1, <2>2, SharesTypes
    <2>5. Passed(c, "Shared")' = Passed(c, "Shared")
      BY <2>1
    <2> QED
      BY <2>1, <2>3, <2>4, <2>5, Untouched
  <1>2. ASSUME NEW i \in Args, GetArgument(i, w) PROVE Settled(c)
    <2>1. /\ shares' = shares /\ heap' = heap /\ w \notin Alive /\ args[i] # NoArg
          /\ wrapper' = [wrapper EXCEPT ![w] = [cont |-> args[i].cont, owner |-> GetOwner(args[i].mode)]]
          /\ args' = [args EXCEPT ![i] = NoArg]
      BY <1>2 DEF GetArgument, Construct
    <2>2. /\ args[i] \in [cont : Containers, mode : Passing]
          /\ [cont |-> args[i].cont, owner |-> GetOwner(args[i].mode)] \in Objects
          /\ GetOwner(args[i].mode) = "Shared" <=> args[i].mode = "Shared"
      BY <2>1, SharesTypes DEF Arguments, Objects, Ownership, Passing, GetOwner
    <2>3. \A u \in Wrappers : u \in Sharing(c)' <=>
             u \in Sharing(c) \/ (u = w /\ i \in Passed(c, "Shared"))
      BY <2>1, <2>2, SharesTypes, OwnershipAssumption DEF Objects, Ownership
    <2>4. \A j \in Args : j \in Passed(c, "Shared")' <=> j \in Passed(c, "Shared") /\ j # i
      BY <2>1, <2>2, SharesTypes, OwnershipAssumption DEF Passing
    <2>5. CASE i \in Passed(c, "Shared")
      <3>1. Sharing(c)' = Sharing(c) \cup {w} /\ w \notin Sharing(c)
        BY <2>1, <2>3, <2>5, Zenon
      <3>2. Passed(c, "Shared")' = Passed(c, "Shared") \ {i}
        BY <2>4, Zenon
      <3> QED
        BY <2>1, <2>5, <3>1, <3>2, TakenUp
    <2>6. CASE i \notin Passed(c, "Shared")
      <3>1. Sharing(c)' = Sharing(c)
        BY <2>3, <2>6, Zenon
      <3>2. Passed(c, "Shared")' = Passed(c, "Shared")
        BY <2>4, <2>6, Zenon
      <3> QED
        BY <2>1, <3>1, <3>2, Untouched
    <2> QED
      BY <2>5, <2>6
  <1> QED
    BY <1>1, <1>2

\* Destructors, and what puts a new container into a wrapper.
LEMMA ReplacementSettles ==
    ASSUME SharesInv, NEW w \in Wrappers, NEW c \in Containers,
           Destroy(w) \/ SetImplicitValue(w)
    PROVE  Settled(c)
  <1>1. ASSUME Destroy(w) PROVE Settled(c)
    <2>1. w \in Alive /\ Release(w, heap) /\ args' = args /\ wrapper' = [wrapper EXCEPT ![w] = Dead]
      BY <1>1 DEF Destroy, Construct
    <2>2. \A u \in Wrappers : u \in Sharing(c)' <=> u \in Sharing(c) /\ u # w
      BY <2>1, SharesTypes
    <2> QED
      BY <2>1, <2>2, ReleaseSettles
  <1>2. ASSUME SetImplicitValue(w) PROVE Settled(c)
    <2>1. PICK d \in Containers :
             /\ Fresh(d) /\ Release(w, [heap EXCEPT ![d] = "library"])
             /\ wrapper' = [wrapper EXCEPT ![w] = [cont |-> d, owner |-> "Library"]]
      BY <1>2 DEF SetImplicitValue, Construct
    <2>2. w \in Alive /\ args' = args
      BY <1>2 DEF SetImplicitValue
    <2>3. \A u \in Wrappers : u \in Sharing(c)' <=> u \in Sharing(c) /\ u # w
      BY <2>1, <2>2, SharesTypes
    <2>4. shares[c] > 0 => [heap EXCEPT ![d] = "library"][c] = heap[c]
      BY <2>1, SharesTypes DEF Fresh
    <2> QED
      BY <2>1, <2>2, <2>3, <2>4, ReleaseSettles
  <1> QED
    BY <1>1, <1>2

\* Handing a container over, to the result or to a data structure.
LEMMA HandingSettles ==
    ASSUME SharesInv, NEW w \in Wrappers, NEW c \in Containers,
           \/ Pass(w) \/ ToMArgument(w) \/ PushBack(w) \/ ColumnFails(w)
           \/ \E v \in Wrappers : MakeColumn(w, v)
    PROVE  Settled(c)
  <1>1. ASSUME Pass(w) PROVE Settled(c)
    <2>1. /\ shares' = shares /\ heap' = heap /\ args' = args /\ w \in Alive
          /\ wrapper' = [wrapper EXCEPT ![w].owner = IF @ = "Library" THEN "LibraryLink" ELSE @]
      BY <1>1 DEF Pass
    <2>2. /\ wrapper'[w].cont = wrapper[w].cont /\ wrapper'[w] \in Objects
          /\ wrapper'[w].owner = "Shared" <=> wrapper[w].owner = "Shared"
          /\ \A u \in Wrappers \ {w} : wrapper'[u] = wrapper[u]
      BY <2>1, SharesTypes DEF Objects, Ownership
    <2>3. Sharing(c)' = Sharing(c) /\ Passed(c, "Shared")' = Passed(c, "Shared")
      BY <2>1, <2>2, OwnershipAssumption DEF Objects, Ownership
    <2> QED
      BY <2>1, <2>3, Untouched
  <1>2. ASSUME wrapper' = [wrapper EXCEPT ![w].owner = "LibraryLink"], w \in Alive
        PROVE  /\ \A u \in Wrappers : u \in Sharing(c)' <=> u \in Sharing(c) /\ u # w
               /\ Sharing(c)' = Sharing(c) \ {w}
    <2>1. /\ wrapper'[w].owner = "LibraryLink" /\ \A u \in Wrappers \ {w} : wrapper'[u] = wrapper[u]
      BY <1>2, SharesTypes DEF Objects, Ownership
    <2>2. \A u \in Wrappers : u \in Sharing(c)' <=> u \in Sharing(c) /\ u # w
      BY <2>1
    <2> QED
      BY <2>2, Zenon
  <1>3. ASSUME ToMArgument(w) \/ ColumnFails(w) PROVE Settled(c)
    <2>1. /\ shares' = shares /\ heap' = heap /\ args' = args /\ w \in Alive
          /\ wrapper' = [wrapper EXCEPT ![w].owner = "LibraryLink"]
      BY <1>3 DEF ToMArgument, ColumnFails
    <2>2. Sharing(c)' = Sharing(c) \ {w} /\ Passed(c, "Shared")' = Passed(c, "Shared")
      BY <1>2, <2>1
    <2>3. w \in Sharing(c) => MayLose(c)
      BY <1>3 DEF MayLose
    <2>4. CASE w \in Sharing(c)
      BY <2>1, <2>2, <2>3, <2>4, Abandoned
    <2>5. CASE w \notin Sharing(c)
      <3>1. Sharing(c)' = Sharing(c)
        BY <2>2, <2>5, Zenon
      <3> QED
        BY <2>1, <2>2, <3>1, Untouched
    <2> QED
      BY <2>4, <2>5
  <1>4. ASSUME PushBack(w) PROVE Settled(c)
    <2>1. /\ HandOver(w, heap) /\ args' = args /\ w \in Alive
          /\ wrapper' = [wrapper EXCEPT ![w].owner = "LibraryLink"]
      BY <1>4 DEF PushBack
    <2> QED
      BY <1>2, <2>1, ReleaseSettles
  <1>5. ASSUME NEW v \in Wrappers, MakeColumn(w, v) PROVE Settled(c)
    <2>1. PICK d \in Containers :
             /\ Fresh(d) /\ HandOver(w, [heap EXCEPT ![d] = "library"])
             /\ wrapper' = [wrapper EXCEPT ![w].owner = "LibraryLink",
                                           ![v] = [cont |-> d, owner |-> "Library"]]
      BY <1>5 DEF MakeColumn
    <2>2. w \in Alive /\ v \notin Alive /\ args' = args /\ w # v
      BY <1>5 DEF MakeColumn
    <2>3. /\ wrapper'[w].owner = "LibraryLink" /\ wrapper'[v].owner = "Library"
          /\ \A u \in Wrappers \ {w, v} : wrapper'[u] = wrapper[u]
      BY <2>1, <2>2, SharesTypes DEF Objects, Ownership
    <2>4. \A u \in Wrappers : u \in Sharing(c)' <=> u \in Sharing(c) /\ u # w
      BY <2>2, <2>3
    <2>5. shares[c] > 0 => [heap EXCEPT ![d] = "library"][c] = heap[c]
      BY <2>1, SharesTypes DEF Fresh
    <2> QED
      BY <2>1, <2>2, <2>4, <2>5, ReleaseSettles
  <1> QED
    BY <1>1, <1>3, <1>4, <1>5

\* Moving a wrapper into a new one or over an old one.
LEMMA MovesSettle ==
    ASSUME SharesInv, NEW w \in Wrappers, NEW v \in Wrappers, NEW c \in Containers,
           MoveConstruct(w, v) \/ MoveAssign(w, v)
    PROVE  Settled(c)
  <1>1. ASSUME MoveConstruct(w, v) PROVE Settled(c)
    <2>1. /\ shares' = shares /\ heap' = heap /\ args' = args /\ w \in Alive /\ v \notin Alive /\ w # v
          /\ wrapper' = [wrapper EXCEPT ![v] = wrapper[w], ![w].cont = Null]
      BY <1>1 DEF MoveConstruct
    <2>2. /\ wrapper'[v] = wrapper[w] /\ wrapper'[w].cont = Null
          /\ \A u \in Wrappers \ {w, v} : wrapper'[u] = wrapper[u]
      BY <2>1, SharesTypes DEF Objects, Ownership
    <2>3. \A u \in Wrappers : u \in Sharing(c)' <=>
             (u \in Sharing(c) /\ u # w) \/ (u = v /\ w \in Sharing(c))
      BY <2>1, <2>2, OwnershipAssumption
    <2>4. Passed(c, "Shared")' = Passed(c, "Shared") /\ v \notin Sharing(c)
      BY <2>1
    <2>5. CASE w \in Sharing(c)
      <3>1. Sharing(c)' = (Sharing(c) \ {w}) \cup {v}
        BY <2>3, <2>5, Zenon
      <3> QED
        BY <2>1, <2>4, <2>5, <3>1, Moved
    <2>6. CASE w \notin Sharing(c)
      <3>1. Sharing(c)' = Sharing(c)
        BY <2>3, <2>6, Zenon
      <3> QED
        BY <2>1, <2>4, <3>1, Untouched
    <2> QED
      BY <2>5, <2>6
  <1>2. ASSUME MoveAssign(w, v) PROVE Settled(c)
    <2>1. /\ args' = args /\ w \in Alive /\ v \in Alive /\ w # v
          /\ wrapper' = [wrapper EXCEPT ![w] = wrapper[v], ![v].cont = Null]
          /\ IF wrapper[w].cont = wrapper[v].cont
             THEN UNCHANGED <<heap, shares>> ELSE Release(w, heap)
      BY <1>2 DEF MoveAssign
    <2>2. /\ wrapper'[w] = wrapper[v] /\ wrapper'[v].cont = Null
          /\ \A u \in Wrappers \ {w, v} : wrapper'[u] = wrapper[u]
      BY <2>1, SharesTypes DEF Objects, Ownership
    <2>3. \A u \in Wrappers : u \in Sharing(c)' <=>
             (u \in Sharing(c) /\ u \notin {w, v}) \/ (u = w /\ v \in Sharing(c))
      BY <2>1, <2>2, OwnershipAssumption
    <2>4. Passed(c, "Shared")' = Passed(c, "Shared")
      BY <2>1
    <2>5. CASE wrapper[w].cont = wrapper[v].cont
      <3>1. shares' = shares /\ heap' = heap
        BY <2>1, <2>5
      <3>2. w \in Sharing(c) => MayLose(c)
        BY <1>2, <2>1, <2>5 DEF MayLose
      <3>3. CASE w \in Sharing(c) /\ v \in Sharing(c)
        <4>1. Sharing(c)' = Sharing(c) \ {v}
          BY <2>1, <2>3, <3>3, Zenon
        <4> QED
          BY <2>4, <3>1, <3>2, <3>3, <4>1, Abandoned
      <3>4. CASE w \in Sharing(c) /\ v \notin Sharing(c)
        <4>1. Sharing(c)' = Sharing(c) \ {w}
          BY <2>3, <3>4, Zenon
        <4> QED
          BY <2>4, <3>1, <3>2, <3>4, <4>1, Abandoned
      <3>5. CASE w \notin Sharing(c) /\ v \in Sharing(c)
        <4>1. Sharing(c)' = (Sharing(c) \ {v}) \cup {w}
          BY <2>3, <3>5, Zenon
        <4> QED
          BY <2>4, <3>1, <3>5, <4>1, Moved
      <3>6. CASE w \notin Sharing(c) /\ v \notin Sharing(c)
        <4>1. Sharing(c)' = Sharing(c)
          BY <2>3, <3>6, Zenon
        <4> QED
          BY <2>4, <3>1, <4>1, Untouched
      <3> QED
        BY <3>3, <3>4, <3>5, <3>6
    <2>6. CASE wrapper[w].cont # wrapper[v].cont
      <3>1. Release(w, heap)
        BY <2>1, <2>6
      <3>2. ~ (w \in Sharing(c) /\ v \in Sharing(c))
        BY <2>6
      <3>3. CASE v \notin Sharing(c)
        <4>1. \A u \in Wrappers : u \in Sharing(c)' <=> u \in Sharing(c) /\ u # w
          BY <2>3, <3>3, Zenon
        <4> QED
          BY <2>1, <3>1, <4>1, ReleaseSettles
      <3>4. CASE v \in Sharing(c)
        <4>1. Sharing(c)' = (Sharing(c) \ {v}) \cup {w} /\ w \notin Sharing(c)
          BY <2>3, <3>2, <3>4, Zenon
        <4>2. shares'[c] = shares[c]
          BY <3>1, <4>1, SharesTypes DEF Release
        <4>3. heap'[c] = heap[c]
          BY <3>1, <3>4, SharesTypes DEF Release
        <4> QED
          BY <2>4, <3>4, <4>1, <4>2, <4>3, Moved
      <3> QED
        BY <3>3, <3>4
    <2> QED
      BY <2>5, <2>6
  <1> QED
    BY <1>1, <1>2

LEMMA StepSettles ==
    ASSUME SharesInv, [Next]_vars, NEW c \in Containers
    PROVE  Settled(c)
  <1>1. CASE Kernel
    <2>1. CASE \E a \in [Args -> Arguments] : CallFunction(a)
      BY <2>1, CallSettles
    <2>2. CASE Return \/ Fail \/ \E d \in Containers : KernelCreate(d) \/ KernelFree(d)
      BY <2>2, KernelSettles
    <2> QED
      BY <1>1, <2>1, <2>2 DEF Kernel
  <1>2. CASE Library
    <2>1. CASE Throw
      <3>1. UNCHANGED <<heap, shares, wrapper, args>>
        BY <2>1 DEF Throw
      <3> QED
        BY <3>1, Untouched
    <2>2. CASE \E i \in Args, w \in Wrappers : GetArgument(i, w)
      BY <2>2, ConstructionSettles
    <2>3. ASSUME NEW w \in Wrappers, NEW v \in Wrappers,
                 MoveConstruct(w, v) \/ MoveAssign(w, v) \/ Clone(w, v) \/ MakeView(w, v) \/ MakeColumn(w, v)
          PROVE  Settled(c)
      BY <2>3, MovesSettle, ConstructionSettles, HandingSettles
    <2>4. ASSUME NEW w \in Wrappers,
                 \/ DefaultConstruct(w) \/ Create(w) \/ Destroy(w) \/ Pass(w) \/ ToMArgument(w)
                 \/ PushBack(w) \/ ColumnFails(w) \/ SetImplicitValue(w)
          PROVE  Settled(c)
      BY <2>4, ConstructionSettles, ReplacementSettles, HandingSettles
    <2> QED
      BY <1>2, <2>1, <2>2, <2>3, <2>4 DEF Library
  <1>3. CASE UNCHANGED vars
    <2>1. UNCHANGED <<heap, shares, wrapper, args>>
      BY <1>3 DEF vars
    <2> QED
      BY <2>1, Untouched
  <1> QED
    BY <1>1, <1>2, <1>3 DEF Next

LEMMA InitShares == ASSUME Init PROVE SharesInv
  <1>1. IInv
    BY InitInv
  <1>2. /\ phase = "kernel" /\ shares = [c \in Containers |-> 0]
        /\ wrapper = [w \in Wrappers |-> Dead] /\ args = [i \in Args |-> NoArg]
    BY DEF Init
  <1>3. ASSUME NEW c \in Containers PROVE Sharing(c) = {} /\ Passed(c, "Shared") = {}
    BY <1>2, OwnershipAssumption
  <1>4. SharesBacked
    <2> HIDE DEF Sharing, Passed
    <2> QED
      BY <1>2, <1>3, FS_EmptySet DEF SharesBacked
  <1> QED
    BY <1>1, <1>2, <1>4 DEF SharesInv

LEMMA SharesStep == ASSUME SharesInv, [Next]_vars PROVE SharesInv'
  <1>1. IInv'
    BY KernelStep, LibraryStep DEF SharesInv, Next, vars, IInv, TypeInv, SingleOwner,
       PassedInLibrary, ResultUnowned, QuietKernel
  <1>2. phase' = phase \/ phase' \in {"kernel", "running", "failing"}
    <2>1. CASE Kernel
      BY <2>1 DEF Kernel, KernelCreate, KernelFree, CallFunction, Return, Fail
    <2>2. CASE Throw \/ \E i \in Args, w \in Wrappers : GetArgument(i, w)
      BY <2>2 DEF Throw, GetArgument
    <2>3. ASSUME NEW w \in Wrappers,
                 \/ DefaultConstruct(w) \/ Create(w) \/ Destroy(w) \/ Pass(w)
                 \/ ToMArgument(w) \/ PushBack(w) \/ ColumnFails(w) \/ SetImplicitValue(w)
          PROVE  phase' = phase \/ phase' = "failing"
      BY <2>3 DEF DefaultConstruct, Create, Destroy, Pass, ToMArgument, PushBack, ColumnFails,
         SetImplicitValue
    <2>4. ASSUME NEW w \in Wrappers, NEW v \in Wrappers,
                 \/ MoveConstruct(w, v) \/ MoveAssign(w, v) \/ Clone(w, v)
                 \/ MakeView(w, v) \/ MakeColumn(w, v)
          PROVE  phase' = phase \/ phase' = "failing"
      BY <2>4 DEF MoveConstruct, MoveAssign, Clone, MakeView, MakeColumn
    <2>5. CASE UNCHANGED vars
      BY <2>5 DEF vars
    <2> QED
      BY <2>1, <2>2, <2>3, <2>4, <2>5 DEF Next, Library
  <1>3. \/ shares' = shares
        \/ \E f : shares' = [c \in Containers |-> f[c]]
    <2>1. CASE Kernel
      <3>1. ASSUME NEW a \in [Args -> Arguments], CallFunction(a)
            PROVE  shares' = [c \in Containers |-> shares'[c]]
        BY <3>1 DEF CallFunction
      <3> QED
        BY <2>1, <3>1 DEF Kernel, KernelCreate, KernelFree, Return, Fail
    <2>2. ASSUME NEW w \in Wrappers, NEW h, Release(w, h) \/ HandOver(w, h)
          PROVE  shares' = [c \in Containers |-> shares'[c]]
      BY <2>2 DEF Release, HandOver
    <2>3. CASE Library
      BY <2>2, <2>3, ZenonT(30) DEF Library, Throw, GetArgument, DefaultConstruct, Create, Destroy, Pass,
         ToMArgument, PushBack, ColumnFails, SetImplicitValue, MoveConstruct, MoveAssign, Clone,
         MakeView, MakeColumn
    <2> QED
      BY <2>1, <2>3 DEF Next, vars
  <1>4. ASSUME NEW c \in Containers
        PROVE  /\ shares'[c] \in Nat
               /\ Cardinality(Sharing(c)') + Cardinality(Passed(c, "Shared")') <= shares'[c]
               /\ shares'[c] > 0 => heap'[c] = "kernel"
    <2>1. Settled(c)
      BY StepSettles
    <2> HIDE DEF Sharing, Passed
    <2>2. SharesLost(c) >= 0 /\ shares[c] \in Nat
      BY Holders DEF SharesInv, SharesBacked, SharesLost
    <2>3. SharesLost(c)' >= 0
      BY <2>1, <2>2, Holders DEF Settled, SharesLost
    <2> QED
      BY <2>1, <2>3, Holders DEF Settled, SharesLost
  <1>5. shares' \in [Containers -> Nat]
    BY <1>3, <1>4 DEF SharesInv
  <1> QED
    BY <1>1, <1>2, <1>4, <1>5 DEF SharesInv, SharesBacked

LEMMA SharesInvariance == Spec => []SharesInv
  BY InitShares, SharesStep, PTL DEF Spec

\* The phases, the kernel's heap and shares, the wrappers, the arguments and the
\* result keep their types; no count of shares becomes negative, so a disown is
\* never called for a share that the library does not have.
THEOREM OwnershipTypes == Spec => []TypeOK
  <1>1. SharesInv => TypeOK
    BY DEF SharesInv, IInv, TypeInv, TypeOK
  <1> QED
    BY <1>1, SharesInvariance, PTL

\* Behind every Shared wrapper and every unread Shared argument there is a share
\* of its own, however wrappers are copied, moved over one another and unwound:
\* the kernel keeps the container that they use.
THEOREM SharesKept == Spec => []SharesBacked
  <1>1. SharesInv => SharesBacked
    BY DEF SharesInv
  <1> QED
    BY <1>1, SharesInvariance, PTL

-----------------------------------------------------------------------------
(* What a step may lose.                                                   *)

\* A container without anyone to free it, in terms of the state before a step.
LEMMA KernelLoses ==
    ASSUME IInv, Kernel, NEW c \in Containers, FreeLost(c)', ~ FreeLost(c)
    PROVE  MayLose(c)
  <1> USE OwnershipAssumption DEF FreeLost
  <1>1. ASSUME NEW d \in Containers, KernelCreate(d) \/ KernelFree(d) PROVE FALSE
    BY <1>1 DEF KernelCreate, KernelFree, IInv, TypeInv
  <1>2. ASSUME NEW a \in [Args -> Arguments], CallFunction(a) PROVE FALSE
    <2> DEFINE Given == {i \in Args : a[i] = [cont |-> c, mode |-> "Manual"]}
    <2>1. /\ heap'[c] = IF Given # {} THEN "library" ELSE heap[c]
          /\ args' = a /\ wrapper' = wrapper /\ res' = res /\ phase = "kernel"
      BY <1>2, Zenon DEF CallFunction
    <2>2. Passed(c, "Manual")' = Given
      BY <2>1
    <2>3. Given = {}
      BY <2>2
    <2>4. Passed(c, "Manual") = {}
      BY <2>1 DEF IInv, QuietKernel, Passing
    <2> QED
      BY <2>1, <2>3, <2>4
  <1>3. ASSUME Return PROVE MayLose(c)
    <2>1. heap[c] = "library" /\ Owning(c) = {} /\ res # c
      BY <1>3 DEF Return, IInv, TypeInv
    <2>2. Passed(c, "Manual") # {}
      BY <2>1
    <2> QED
      BY <1>3, <2>2 DEF MayLose, Passing
  <1>4. ASSUME Fail PROVE MayLose(c)
    <2>1. heap[c] = "library" /\ Owning(c) = {}
      BY <1>4 DEF Fail
    <2>2. Passed(c, "Manual") # {} \/ res = c
      BY <2>1
    <2> QED
      BY <1>4, <2>2 DEF MayLose, Passing
  <1> QED
    BY <1>1, <1>2, <1>3, <1>4 DEF Kernel

LEMMA LibraryLoses ==
    ASSUME IInv, Library, NEW c \in Containers, FreeLost(c)', ~ FreeLost(c)
    PROVE  MayLose(c)
  <1> USE OwnershipAssumption DEF FreeLost, TypeInv, Objects, Arguments, Ownership, Passing
  <1>0. TypeInv /\ Sound(c)
    BY BySound
  <1>1. ASSUME Throw PROVE FALSE
    BY <1>1 DEF Throw
  <1>2. ASSUME NEW i \in Args, NEW w \in Wrappers, GetArgument(i, w) PROVE FALSE
    BY <1>0, <1>2 DEF GetArgument, GetOwner, Construct
  <1>3. ASSUME NEW w \in Wrappers, DefaultConstruct(w) PROVE FALSE
    BY <1>0, <1>3 DEF DefaultConstruct, Construct
  <1>4. ASSUME NEW w \in Wrappers, Create(w) PROVE FALSE
    BY <1>0, <1>4 DEF Create, Construct, Fresh, Names
  <1>5. ASSUME NEW w \in Wrappers, Destroy(w) PROVE FALSE
    BY <1>0, <1>5 DEF Destroy, Release, Construct, Sound
  <1>6. ASSUME NEW w \in Wrappers, Pass(w) PROVE MayLose(c)
    BY <1>0, <1>6 DEF Pass, Presentable, MayLose
  <1>7. ASSUME NEW w \in Wrappers, ToMArgument(w) PROVE MayLose(c)
    BY <1>0, <1>7 DEF ToMArgument, Presentable, MayLose
  <1>8. ASSUME NEW w \in Wrappers, PushBack(w) PROVE FALSE
    BY <1>0, <1>8 DEF PushBack, Presentable, HandOver
  <1>9. ASSUME NEW w \in Wrappers, ColumnFails(w) PROVE MayLose(c)
    BY <1>0, <1>9 DEF ColumnFails, Presentable, MayLose
  <1>10. ASSUME NEW w \in Wrappers, SetImplicitValue(w) PROVE FALSE
    BY <1>0, <1>10 DEF SetImplicitValue, Release, Construct, Fresh, Names
  <1>11. ASSUME NEW w \in Wrappers, NEW v \in Wrappers, MoveConstruct(w, v) PROVE FALSE
    BY <1>0, <1>11 DEF MoveConstruct
  <1>12. ASSUME NEW w \in Wrappers, NEW v \in Wrappers, MoveAssign(w, v) PROVE MayLose(c)
    BY <1>0, <1>12 DEF MoveAssign, Release, MayLose
  <1>13. ASSUME NEW w \in Wrappers, NEW v \in Wrappers, Clone(w, v) PROVE FALSE
    BY <1>0, <1>13 DEF Clone, Construct, Fresh, Names
  <1>14. ASSUME NEW w \in Wrappers, NEW v \in Wrappers, MakeView(w, v) PROVE FALSE
    BY <1>0, <1>14 DEF MakeView, Construct
  <1>15. ASSUME NEW w \in Wrappers, NEW v \in Wrappers, MakeColumn(w, v) PROVE FALSE
    BY <1>0, <1>15 DEF MakeColumn, HandOver, Fresh, Names
  <1> QED
    BY <1>1, <1>2, <1>3, <1>4, <1>5, <1>6, <1>7, <1>8, <1>9, <1>10, <1>11, <1>12, <1>13, <1>14,
       <1>15 DEF Library

\* Only the steps that MayLose names, which are the ones where LLU lets a
\* container or a share go without giving it back, ever do: all other moves,
\* assignments, copies, results, failures and exceptions leave each container
\* that is to be freed, and each share, with something that will give it back.
THEOREM LossesNamed == Spec => NothingElseLost
  <1>1. ASSUME SharesInv, [Next]_vars
        PROVE  [\A c \in Containers :
                  (FreeLost(c)' /\ ~FreeLost(c)) \/ SharesLost(c)' > SharesLost(c) => MayLose(c)]_vars
    <2>1. CASE UNCHANGED vars
      BY <2>1
    <2>2. ASSUME Next, NEW c \in Containers, FreeLost(c)', ~ FreeLost(c) PROVE MayLose(c)
      BY <1>1, <2>2, KernelLoses, LibraryLoses DEF Next, SharesInv
    <2>3. ASSUME NEW c \in Containers, SharesLost(c)' > SharesLost(c) PROVE MayLose(c)
      <3>1. Settled(c)
        BY <1>1, StepSettles
      <3>2. SharesLost(c) \in Int /\ SharesLost(c)' \in Int
        <4> HIDE DEF Sharing, Passed
        <4> QED
          BY <1>1, <3>1, Holders DEF SharesInv, SharesLost, Settled
      <3> QED
        BY <2>3, <3>1, <3>2 DEF Settled
    <2> QED
      BY <1>1, <2>1, <2>2, <2>3
  <1> QED
    BY <1>1, SharesInvariance, PTL DEF Spec, NothingElseLost

=============================================================================
