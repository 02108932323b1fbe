------------------------------ MODULE DataLists ------------------------------
(***************************************************************************)
(* DataStores, the lists DataList<T> and GenericDataList that wrap them,   *)
(* and their iterators.  A node never moves and is never removed; what is  *)
(* appended while an iterator walks is appended behind it.  A list of Any  *)
(* (the variant TypedArgument) takes nodes of every type.                  *)
(***************************************************************************)
EXTENDS Naturals, SequencesExt, FiniteSets

CONSTANTS Stores, Lists, Iterators, Nil,
          NodeTypes,    \* types of the nodes looked at
          MaxNodes      \* bound

VARIABLES content,  \* the types of each store's nodes, in order
          lists,    \* the wrapper: its store and the type of its elements
          doubtful, \* history: the nodes that a typed list never looked at
          its,      \* the iterators: store, node (0 for nullptr), list
          seen      \* the nodes that each has stood on, and those at its start

vars == <<content, lists, doubtful, its, seen>>

-----------------------------------------------------------------------------
(* Types: of nodes, and the C++ types that their values are read as.       *)

MArgumentType == <<"MArgument", "Boolean", "Integer", "Real", "Complex", "Tensor", "SparseArray",
                   "NumericArray", "Image", "UTF8String", "DataStore", "TabularColumn">>
TypedArgument == <<"monostate", "bool", "mint", "double", "complex", "GenericTensor", "GenericSparseArray",
                   "GenericNumericArray", "GenericImage", "string_view", "GenericDataList", "DataVector">>

\* push_back of an alternative: the node type of the same number.
NodeOfAny(any) == MArgumentType[CHOOSE i \in DOMAIN TypedArgument : TypedArgument[i] = any]

\* fromMArgument: what the value of a node becomes.
AnyOfNode ==
    [Boolean |-> "bool", Integer |-> "mint", Real |-> "double", Complex |-> "complex",
     Tensor |-> "GenericTensor", SparseArray |-> "GenericSparseArray",
     NumericArray |-> "GenericNumericArray", Image |-> "GenericImage", UTF8String |-> "string_view",
     DataStore |-> "GenericDataList", TabularColumn |-> "DataVector"]

ASSUME NodesAssumption == NodeTypes \subseteq DOMAIN AnyOfNode /\ MaxNodes \in Nat

\* What can be appended: no empty variant, no argument of unknown type.
Addable(any) == NodeOfAny(any) # "MArgument"

\* A node's value read as a T, or DLInvalidNodeType.
As(T, type) == T = "Any" \/ AnyOfNode[type] = T

ListOf(s, T) == [store |-> s, of |-> T]
UsedStores == {lists[l].store : l \in {x \in Lists : lists[x] # Nil}}
Walking == {i \in Iterators : its[i] # Nil}

-----------------------------------------------------------------------------
\* The arguments of the function may hold any nodes.
Init ==
    /\ content \in [Stores -> UNION {[1 .. n -> NodeTypes] : n \in 0 .. MaxNodes - 1}]
    /\ lists \in [Lists -> {Nil} \cup {ListOf(s, "Any") : s \in Stores}]
    /\ doubtful = [l \in Lists |-> {}]
    /\ its = [i \in Iterators |-> Nil]
    /\ seen = [i \in Iterators |-> [nodes |-> <<>>, start |-> 0]]

\* Deviation: only the first node is looked at.
MakeTypedFirst(l, T) ==
    /\ lists[l] # Nil
    /\ LET nodes == content[lists[l].store]
       IN  lists' = [lists EXCEPT ![l] = IF nodes # <<>> => As(T, nodes[1])
                                         THEN ListOf(lists[l].store, T) ELSE Nil]
    /\ doubtful' = [doubtful EXCEPT ![l] = {}]
    /\ UNCHANGED <<content, its, seen>>

\* DataList<T>(gds), gds from a list of any type: every node has the type, or
\* the list is gone with an exception.
MakeTyped(l, T) ==
    /\ lists[l] # Nil
    /\ LET nodes == content[lists[l].store]
       IN  lists' = [lists EXCEPT ![l] = IF \A i \in DOMAIN nodes : As(T, nodes[i])
                                         THEN ListOf(lists[l].store, T) ELSE Nil]
    /\ doubtful' = [doubtful EXCEPT ![l] = {}]
    /\ UNCHANGED <<content, its, seen>>

\* DataList<T>(store, owner), a constructor taken over from GenericDataList: a
\* list of T over a store that has a wrapper already, and no node is looked at.
WrapRaw(l, T) ==
    /\ lists[l] = Nil
    /\ \E s \in UsedStores :
          /\ lists' = [lists EXCEPT ![l] = ListOf(s, T)]
          /\ doubtful' = [doubtful EXCEPT ![l] = IF T = "Any" THEN {} ELSE DOMAIN content[s]]
    /\ UNCHANGED <<content, its, seen>>

\* A new, empty store (DataList<T>{...} pushes its elements next).
MakeEmpty(l, T) ==
    /\ lists[l] = Nil
    /\ \E s \in Stores \ (UsedStores \cup {its[i].store : i \in Walking}) :
          /\ lists' = [lists EXCEPT ![l] = ListOf(s, T)]
          /\ content' = [content EXCEPT ![s] = <<>>]
    /\ doubtful' = [doubtful EXCEPT ![l] = {}]
    /\ UNCHANGED <<its, seen>>

\* clone() copies the store; nobody looks at the nodes of the copy.
Clone(l, k) ==
    /\ lists[l] # Nil /\ lists[k] = Nil
    /\ \E s \in Stores \ (UsedStores \cup {its[i].store : i \in Walking}) :
          /\ lists' = [lists EXCEPT ![k] = ListOf(s, lists[l].of)]
          /\ content' = [content EXCEPT ![s] = content[lists[l].store]]
    /\ doubtful' = [doubtful EXCEPT ![k] = doubtful[l]]
    /\ UNCHANGED <<its, seen>>

Appended(s, node) ==
    /\ Len(content[s]) < MaxNodes
    /\ content' = [content EXCEPT ![s] = Append(@, node)]

\* What other wrappers append is unknown to the typed lists of a store.
Unknown(s, others) ==
    doubtful' = [k \in Lists |->
        IF k \in others /\ lists[k] # Nil /\ lists[k].store = s /\ lists[k].of # "Any"
        THEN doubtful[k] \cup {Len(content[s]) + 1} ELSE doubtful[k]]

\* DataList<T>::push_back(value), with a name or without; a list of Any goes
\* through push_back(Any), which refuses the empty variant.
PushBack(l, any) ==
    /\ lists[l] # Nil
    /\ lists[l].of \in {"Any", any}
    /\ IF Addable(any)
       THEN Appended(lists[l].store, NodeOfAny(any)) /\ Unknown(lists[l].store, Lists \ {l})
       ELSE UNCHANGED <<content, doubtful>>
    /\ UNCHANGED <<lists, its, seen>>

\* The list's GenericDataList takes any type, whatever the list is of.
PushBackGeneric(l, any) ==
    /\ lists[l] # Nil /\ Addable(any)
    /\ Appended(lists[l].store, NodeOfAny(any))
    /\ Unknown(lists[l].store, Lists)
    /\ UNCHANGED <<lists, its, seen>>

-----------------------------------------------------------------------------
(* Iterators.  begin() is the first node, end() is nullptr.                *)

At(s, i) == IF i <= Len(content[s]) THEN i ELSE 0
Stand(i, node) == IF node = 0 THEN seen[i].nodes ELSE Append(seen[i].nodes, node)

Begin(l, i) ==
    /\ lists[l] # Nil /\ its[i] = Nil
    /\ LET s == lists[l].store
       IN  /\ its' = [its EXCEPT ![i] = [store |-> s, node |-> At(s, 1), list |-> l]]
           /\ seen' = [seen EXCEPT ![i] = [nodes |-> IF At(s, 1) = 0 THEN <<>> ELSE <<1>>,
                                           start |-> Len(content[s])]]
    /\ UNCHANGED <<content, lists, doubtful>>

\* Deviation: an iterator goes by the number of nodes it was made with.
AdvanceCounted(i) ==
    /\ its[i] # Nil /\ its[i].node # 0
    /\ LET n == IF its[i].node + 1 < seen[i].start THEN its[i].node + 1 ELSE 0
       IN  /\ its' = [its EXCEPT ![i].node = n]
           /\ seen' = [seen EXCEPT ![i].nodes = Stand(i, n)]
    /\ UNCHANGED <<content, lists, doubtful>>

\* operator++, for all the kinds of iterators: the node's next one, if any.
Advance(i) ==
    /\ its[i] # Nil /\ its[i].node # 0
    /\ LET n == At(its[i].store, its[i].node + 1)
       IN  /\ its' = [its EXCEPT ![i].node = n]
           /\ seen' = [seen EXCEPT ![i].nodes = Stand(i, n)]
    /\ UNCHANGED <<content, lists, doubtful>>

\* *it of a node of another type throws: the loop is left.
Dereference(i, T) ==
    /\ its[i] # Nil /\ its[i].node # 0
    /\ its' = IF As(T, content[its[i].store][its[i].node]) THEN its ELSE [its EXCEPT ![i] = Nil]
    /\ UNCHANGED <<content, lists, doubtful, seen>>

\* it == end(), or the loop is left.
Leave(i) ==
    /\ its[i] # Nil
    /\ its' = [its EXCEPT ![i] = Nil]
    /\ UNCHANGED <<content, lists, doubtful, seen>>

\* A list is destroyed; nothing iterates over it.
Destroy(l) ==
    /\ lists[l] # Nil
    /\ \A i \in Walking : its[i].list # l
    /\ lists' = [lists EXCEPT ![l] = Nil]
    /\ doubtful' = [doubtful EXCEPT ![l] = {}]
    /\ UNCHANGED <<content, its, seen>>

Values == {AnyOfNode[type] : type \in NodeTypes}
ElementTypes == Values \cup {"Any"}

Next ==
    \/ \E l \in Lists, T \in ElementTypes : MakeTyped(l, T) \/ WrapRaw(l, T) \/ MakeEmpty(l, T)
    \/ \E l, k \in Lists : Clone(l, k)
    \/ \E l \in Lists, any \in Values \cup {"monostate"} : PushBack(l, any) \/ PushBackGeneric(l, any)
    \/ \E l \in Lists, i \in Iterators : Begin(l, i)
    \/ \E i \in Iterators : Advance(i) \/ Leave(i) \/ (\E T \in ElementTypes : Dereference(i, T))
    \/ \E l \in Lists : Destroy(l)

Spec == Init /\ [][Next]_vars

-----------------------------------------------------------------------------
(* Properties.                                                             *)

(***************************************************************************)
(* A list of one type holds a node of another type only where nothing was  *)
(* looked at: a node that was there when the list was made of a raw store, *)
(* or one appended since by way of another wrapper of the store or as a    *)
(* GenericDataList, or a copy of such a node.  Everything else has the     *)
(* list's type, also between such nodes: what was there when the list was  *)
(* made from a generic one, and what it took itself.                       *)
(***************************************************************************)
ListsTyped ==
    \A l \in Lists : lists[l] # Nil =>
       \A i \in DOMAIN content[lists[l].store] \ doubtful[l] : As(lists[l].of, content[lists[l].store][i])

(***************************************************************************)
(* A walk over a list stands on its nodes in order, each once, and ends    *)
(* only when it has seen them all: those that were there when it began,    *)
(* and those appended behind it while it went on.                          *)
(***************************************************************************)
WalkComplete ==
    \A i \in Walking :
       /\ \A k \in DOMAIN seen[i].nodes : seen[i].nodes[k] = k
       /\ its[i].node = 0 => Len(seen[i].nodes) >= seen[i].start
=============================================================================
