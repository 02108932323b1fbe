----------------------------- MODULE DataProofs -----------------------------
(***************************************************************************)
(* Proofs about the data that a library function works on, for any stores, *)
(* lists, iterators and node types, and for arrays and images of any rank  *)
(* and size: typed lists hold what they say and walks see every node in    *)
(* order (DataLists); at() finds every element once and nothing else,      *)
(* although its strides are computed in mints that wrap (Elements); packs  *)
(* of types, the user's own among them however deep they are made of each  *)
(* other, read their arguments in order, and integers of every width are   *)
(* kept (ArgumentPacks).                                                   *)
(***************************************************************************)
EXTENDS DataLists, ArgumentPacks, FiniteSetTheorems, SequenceTheorems, WellFoundedInduction, TLAPS

Wrappers == [store : Stores, of : ElementTypes]
Positions == [store : Stores, node : Nat, list : Lists]

TypeOK ==
    /\ content \in [Stores -> Seq(NodeTypes)]
    /\ lists \in [Lists -> {Nil} \cup Wrappers]
    /\ doubtful \in [Lists -> SUBSET Nat]
    /\ its \in [Iterators -> {Nil} \cup Positions]
    /\ seen \in [Iterators -> [nodes : Seq(Nat), start : Nat]]

-----------------------------------------------------------------------------
(* Types of nodes and of values name each other.                           *)

LEMMA Reads ==
    ASSUME NEW i \in 1 .. 12
    PROVE  NodeOfAny(TypedArgument[i]) = MArgumentType[i]
<1> DEFINE P(j) == j \in DOMAIN TypedArgument /\ TypedArgument[j] = TypedArgument[i]
<1>1. \A j : P(j) => j = i
  BY DEF TypedArgument
<1>2. P(i)
  BY DEF TypedArgument
<1>3. (CHOOSE j \in DOMAIN TypedArgument : TypedArgument[j] = TypedArgument[i]) = i
  BY <1>1, <1>2
<1> QED BY <1>3 DEF NodeOfAny

LEMMA ReadBack ==
    ASSUME NEW type \in DOMAIN AnyOfNode
    PROVE  NodeOfAny(AnyOfNode[type]) = type
<1>1. \E i \in 1 .. 12 : MArgumentType[i] = type /\ TypedArgument[i] = AnyOfNode[type]
  BY DEF AnyOfNode, MArgumentType, TypedArgument
<1> QED BY <1>1, Reads

LEMMA Monostate == NodeOfAny("monostate") = "MArgument"
<1>1. TypedArgument[1] = "monostate" /\ MArgumentType[1] = "MArgument"
  BY DEF TypedArgument, MArgumentType
<1> QED BY <1>1, Reads

\* What is appended is a node of a known type, and reads as what was put.
LEMMA PutBack ==
    ASSUME NEW any \in Values
    PROVE  /\ NodeOfAny(any) \in NodeTypes
           /\ AnyOfNode[NodeOfAny(any)] = any
<1>1. PICK type \in NodeTypes : any = AnyOfNode[type]
  BY DEF Values
<1>2. type \in DOMAIN AnyOfNode
  BY NodesAssumption
<1> QED BY <1>1, <1>2, ReadBack

LEMMA AppendedNode ==
    ASSUME NEW any \in Values \cup {"monostate"}, Addable(any)
    PROVE  /\ any \in Values
           /\ NodeOfAny(any) \in NodeTypes
           /\ \A T \in {"Any", any} : As(T, NodeOfAny(any))
<1>1. any # "monostate"
  BY Monostate DEF Addable
<1> QED BY <1>1, PutBack DEF As

-----------------------------------------------------------------------------
(* Types.                                                                  *)

LEMMA InitTypes == Init => TypeOK
<1> SUFFICES ASSUME Init PROVE TypeOK
  OBVIOUS
<1>1. \A n \in Nat : [1 .. n -> NodeTypes] \subseteq Seq(NodeTypes)
  OBVIOUS
<1>2. content \in [Stores -> Seq(NodeTypes)]
  <2>1. \A n \in 0 .. MaxNodes - 1 : n \in Nat
    BY NodesAssumption
  <2>2. UNION {[1 .. n -> NodeTypes] : n \in 0 .. MaxNodes - 1} \subseteq Seq(NodeTypes)
    BY <1>1, <2>1
  <2>3. content \in [Stores -> UNION {[1 .. n -> NodeTypes] : n \in 0 .. MaxNodes - 1}]
    BY DEF Init
  <2> HIDE DEF Init
  <2>4. ASSUME NEW S, NEW S2, S \subseteq S2, content \in [Stores -> S]
        PROVE  content \in [Stores -> S2]
    BY <2>4
  <2> QED BY <2>2, <2>3, <2>4
<1>3. <<>> \in Seq(Nat)
  OBVIOUS
<1>4. doubtful \in [Lists -> SUBSET Nat]
  BY DEF Init
<1> QED BY <1>2, <1>3, <1>4 DEF Init, TypeOK, ListOf, Wrappers, ElementTypes

LEMMA AppendedTypes ==
    ASSUME TypeOK, NEW s \in Stores, NEW node \in NodeTypes, Appended(s, node)
    PROVE  content' \in [Stores -> Seq(NodeTypes)]
<1>1. Append(content[s], node) \in Seq(NodeTypes)
  BY DEF TypeOK
<1> QED BY <1>1 DEF Appended, TypeOK

LEMMA UnknownTypes ==
    ASSUME TypeOK, NEW s \in Stores, NEW others, Unknown(s, others)
    PROVE  doubtful' \in [Lists -> SUBSET Nat]
<1>1. Len(content[s]) + 1 \in Nat
  BY DEF TypeOK
<1> QED BY <1>1 DEF Unknown, TypeOK

LEMMA StandTypes ==
    ASSUME TypeOK, NEW i \in Iterators, NEW n \in Nat
    PROVE  Stand(i, n) \in Seq(Nat)
  BY DEF TypeOK, Stand

LEMMA NextTypes == TypeOK /\ [Next]_vars => TypeOK'
<1> SUFFICES ASSUME TypeOK, [Next]_vars PROVE TypeOK'
  OBVIOUS
<1>1. ASSUME NEW l \in Lists, NEW T \in ElementTypes, MakeTyped(l, T) PROVE TypeOK'
  <2>1. ListOf(lists[l].store, T) \in Wrappers
    BY <1>1 DEF MakeTyped, TypeOK, ListOf, Wrappers
  <2> QED BY <1>1, <2>1 DEF MakeTyped, TypeOK
<1>2. ASSUME NEW l \in Lists, NEW T \in ElementTypes, MakeEmpty(l, T) PROVE TypeOK'
  <2>1. PICK s \in Stores : /\ lists' = [lists EXCEPT ![l] = ListOf(s, T)]
                            /\ content' = [content EXCEPT ![s] = <<>>]
    BY <1>2 DEF MakeEmpty
  <2>2. ListOf(s, T) \in Wrappers /\ <<>> \in Seq(NodeTypes)
    BY DEF ListOf, Wrappers
  <2> QED BY <1>2, <2>1, <2>2 DEF MakeEmpty, TypeOK
<1>3. ASSUME NEW l \in Lists, NEW k \in Lists, Clone(l, k) PROVE TypeOK'
  <2>1. PICK s \in Stores : /\ lists' = [lists EXCEPT ![k] = ListOf(s, lists[l].of)]
                            /\ content' = [content EXCEPT ![s] = content[lists[l].store]]
    BY <1>3 DEF Clone
  <2>2. lists[l] \in Wrappers
    BY <1>3 DEF Clone, TypeOK
  <2>3. ListOf(s, lists[l].of) \in Wrappers /\ content[lists[l].store] \in Seq(NodeTypes)
    BY <2>2 DEF ListOf, Wrappers, TypeOK
  <2> QED BY <1>3, <2>1, <2>3 DEF Clone, TypeOK
<1>4. ASSUME NEW l \in Lists, NEW any \in Values \cup {"monostate"}, PushBack(l, any) PROVE TypeOK'
  <2>1. lists[l].store \in Stores
    BY <1>4 DEF PushBack, TypeOK, Wrappers
  <2>2. content' \in [Stores -> Seq(NodeTypes)] /\ doubtful' \in [Lists -> SUBSET Nat]
    <3>1. CASE Addable(any)
      BY <1>4, <2>1, <3>1, AppendedNode, AppendedTypes, UnknownTypes DEF PushBack
    <3>2. CASE ~ Addable(any)
      BY <1>4, <3>2 DEF PushBack, TypeOK
    <3> QED BY <3>1, <3>2
  <2> QED BY <1>4, <2>2 DEF PushBack, TypeOK
<1>5. ASSUME NEW l \in Lists, NEW any \in Values \cup {"monostate"}, PushBackGeneric(l, any) PROVE TypeOK'
  <2>1. lists[l].store \in Stores
    BY <1>5 DEF PushBackGeneric, TypeOK, Wrappers
  <2>2. content' \in [Stores -> Seq(NodeTypes)] /\ doubtful' \in [Lists -> SUBSET Nat]
    BY <1>5, <2>1, AppendedNode, AppendedTypes, UnknownTypes DEF PushBackGeneric
  <2> QED BY <1>5, <2>2 DEF PushBackGeneric, TypeOK
<1>6. ASSUME NEW l \in Lists, NEW i \in Iterators, Begin(l, i) PROVE TypeOK'
  <2> DEFINE s == lists[l].store
  <2>1. s \in Stores
    BY <1>6 DEF Begin, TypeOK, Wrappers
  <2>2. Len(content[s]) \in Nat
    BY <2>1 DEF TypeOK
  <2>3. At(s, 1) \in Nat
    BY DEF At
  <2>4. [store |-> s, node |-> At(s, 1), list |-> l] \in Positions
    BY <2>1, <2>3 DEF Positions
  <2>5. <<>> \in Seq(Nat) /\ <<1>> \in Seq(Nat)
    OBVIOUS
  <2>6. [nodes |-> IF At(s, 1) = 0 THEN <<>> ELSE <<1>>, start |-> Len(content[s])]
           \in [nodes : Seq(Nat), start : Nat]
    BY <2>2, <2>5
  <2> QED BY <1>6, <2>4, <2>6 DEF Begin, TypeOK
<1>7. ASSUME NEW i \in Iterators, Advance(i) PROVE TypeOK'
  <2> DEFINE n == At(its[i].store, its[i].node + 1)
  <2>1. its[i] \in Positions
    BY <1>7 DEF Advance, TypeOK
  <2>2. n \in Nat
    BY <2>1 DEF At, Positions
  <2>3. [its[i] EXCEPT !.node = n] \in Positions
    BY <2>1, <2>2 DEF Positions
  <2>4. [seen[i] EXCEPT !.nodes = Stand(i, n)] \in [nodes : Seq(Nat), start : Nat]
    <3>1. Stand(i, n) \in Seq(Nat)
      BY <2>2, StandTypes
    <3> HIDE DEF n
    <3> QED BY <3>1 DEF TypeOK
  <2>5. its' \in [Iterators -> {Nil} \cup Positions]
    BY <1>7, <2>3 DEF Advance, TypeOK
  <2>6. seen' \in [Iterators -> [nodes : Seq(Nat), start : Nat]]
    BY <1>7, <2>4 DEF Advance, TypeOK
  <2> QED BY <1>7, <2>5, <2>6 DEF Advance, TypeOK
<1>8. ASSUME NEW i \in Iterators, NEW T \in ElementTypes, Dereference(i, T) PROVE TypeOK'
  BY <1>8 DEF Dereference, TypeOK
<1>9. ASSUME NEW i \in Iterators, Leave(i) PROVE TypeOK'
  BY <1>9 DEF Leave, TypeOK
<1>10. ASSUME NEW l \in Lists, Destroy(l) PROVE TypeOK'
  BY <1>10 DEF Destroy, TypeOK
<1>11. ASSUME NEW l \in Lists, NEW T \in ElementTypes, WrapRaw(l, T) PROVE TypeOK'
  <2>1. PICK s \in UsedStores :
           /\ lists' = [lists EXCEPT ![l] = ListOf(s, T)]
           /\ doubtful' = [doubtful EXCEPT ![l] = IF T = "Any" THEN {} ELSE DOMAIN content[s]]
    BY <1>11 DEF WrapRaw
  <2>2. s \in Stores
    BY DEF UsedStores, TypeOK, Wrappers
  <2>3. ListOf(s, T) \in Wrappers /\ DOMAIN content[s] \subseteq Nat
    BY <2>2 DEF ListOf, Wrappers, TypeOK
  <2> QED BY <1>11, <2>1, <2>3 DEF WrapRaw, TypeOK
<1>12. CASE UNCHANGED vars
  BY <1>12 DEF vars, TypeOK
<1> QED BY <1>1, <1>2, <1>3, <1>4, <1>5, <1>6, <1>7, <1>8, <1>9, <1>10, <1>11, <1>12 DEF Next

\* Lists, stores, nodes and iterators keep their types (Containers/DataList.h).
THEOREM DataListTypes == Spec => []TypeOK
  BY InitTypes, NextTypes, PTL DEF Spec

-----------------------------------------------------------------------------
(* Typed lists hold what they say.  The invariant is inductive with the    *)
(* types: what another wrapper appends is among the list's doubtful nodes. *)

TypedAt(l) == \A i \in DOMAIN content[lists[l].store] \ doubtful[l] :
                 As(lists[l].of, content[lists[l].store][i])

\* A step that leaves a list, its store and what it knows of it alone.
LEMMA TypedFrame ==
    ASSUME ListsTyped, NEW l \in Lists, lists[l] # Nil, lists'[l] = lists[l],
           content'[lists[l].store] = content[lists[l].store], doubtful'[l] = doubtful[l]
    PROVE  TypedAt(l)'
  BY DEF ListsTyped, TypedAt

LEMMA UnusedStore ==
    ASSUME NEW s \in Stores \ UsedStores, NEW l \in Lists, lists[l] # Nil
    PROVE  lists[l].store # s
  BY DEF UsedStores

\* A node is appended that the list has taken itself, or knows nothing of.
LEMMA AppendTyped ==
    ASSUME TypeOK, ListsTyped, NEW l \in Lists, lists[l] # Nil, lists'[l] = lists[l],
           NEW node \in NodeTypes, Appended(lists[l].store, node),
           \/ doubtful'[l] = doubtful[l] /\ As(lists[l].of, node)
           \/ doubtful'[l] = doubtful[l] \cup {Len(content[lists[l].store]) + 1}
    PROVE  TypedAt(l)'
<1> DEFINE s == lists[l].store
<1>1. s \in Stores
  BY DEF TypeOK, Wrappers
<1>2. content[s] \in Seq(NodeTypes) /\ content'[s] = Append(content[s], node)
  BY <1>1 DEF TypeOK, Appended
<1>3. \A i \in DOMAIN content[s] \ doubtful[l] : As(lists[l].of, content[s][i])
  BY DEF ListsTyped
<1>4. /\ DOMAIN content'[s] = DOMAIN content[s] \cup {Len(content[s]) + 1}
      /\ content'[s][Len(content[s]) + 1] = node
      /\ \A i \in DOMAIN content[s] : content'[s][i] = content[s][i]
  BY <1>2
<1> HIDE DEF s
<1>5. ASSUME NEW i \in DOMAIN content'[s] \ doubtful'[l] PROVE As(lists[l].of, content'[s][i])
  BY <1>3, <1>4 DEF s
<1> QED BY <1>5 DEF TypedAt, s

LEMMA NextTyped == TypeOK /\ ListsTyped /\ [Next]_vars => ListsTyped'
<1> SUFFICES ASSUME TypeOK, ListsTyped, [Next]_vars, NEW m \in Lists, lists'[m] # Nil
             PROVE  TypedAt(m)'
  BY DEF ListsTyped, TypedAt
<1>1. ASSUME NEW l \in Lists, NEW T \in ElementTypes, MakeTyped(l, T) PROVE TypedAt(m)'
  <2>1. CASE m = l
    <3>1. /\ lists'[l] = ListOf(lists[l].store, T)
          /\ \A i \in DOMAIN content[lists[l].store] : As(T, content[lists[l].store][i])
      BY <1>1, <2>1 DEF MakeTyped, TypeOK
    <3> QED BY <1>1, <2>1, <3>1 DEF MakeTyped, TypedAt, ListOf
  <2>2. CASE m # l
    BY <1>1, <2>2, TypedFrame DEF MakeTyped, TypeOK
  <2> QED BY <2>1, <2>2
<1>2. ASSUME NEW l \in Lists, NEW T \in ElementTypes, MakeEmpty(l, T) PROVE TypedAt(m)'
  <2>1. PICK s \in Stores \ UsedStores : /\ lists' = [lists EXCEPT ![l] = ListOf(s, T)]
                                         /\ content' = [content EXCEPT ![s] = <<>>]
    BY <1>2 DEF MakeEmpty
  <2>2. CASE m = l
    <3>1. lists'[l].store = s /\ content'[s] = <<>>
      BY <2>1 DEF TypeOK, ListOf
    <3> QED BY <2>2, <3>1 DEF TypedAt
  <2>3. CASE m # l
    <3>1. lists'[m] = lists[m] /\ doubtful'[m] = doubtful[m]
      BY <1>2, <2>1, <2>3 DEF MakeEmpty, TypeOK
    <3>2. lists[m].store # s
      BY <3>1, UnusedStore
    <3>3. content'[lists[m].store] = content[lists[m].store]
      BY <2>1, <3>2 DEF TypeOK
    <3> QED BY <3>1, <3>3, TypedFrame
  <2> QED BY <2>2, <2>3
<1>3. ASSUME NEW l \in Lists, NEW k \in Lists, Clone(l, k) PROVE TypedAt(m)'
  <2>1. PICK s \in Stores \ UsedStores : /\ lists' = [lists EXCEPT ![k] = ListOf(s, lists[l].of)]
                                         /\ content' = [content EXCEPT ![s] = content[lists[l].store]]
    BY <1>3 DEF Clone
  <2>2. CASE m = k
    <3>1. /\ lists'[k] = ListOf(s, lists[l].of) /\ content'[s] = content[lists[l].store]
          /\ doubtful'[k] = doubtful[l]
      BY <1>3, <2>1 DEF Clone, TypeOK
    <3>2. lists[l] # Nil
      BY <1>3 DEF Clone
    <3> QED BY <2>2, <3>1, <3>2 DEF TypedAt, ListsTyped, ListOf
  <2>3. CASE m # k
    <3>1. lists'[m] = lists[m] /\ doubtful'[m] = doubtful[m]
      BY <1>3, <2>1, <2>3 DEF Clone, TypeOK
    <3>2. lists[m].store # s
      BY <3>1, UnusedStore
    <3>3. content'[lists[m].store] = content[lists[m].store]
      BY <2>1, <3>2 DEF TypeOK
    <3> QED BY <3>1, <3>3, TypedFrame
  <2> QED BY <2>2, <2>3
<1>4. ASSUME NEW l \in Lists, NEW others \in {Lists, Lists \ {l}}, NEW any \in Values \cup {"monostate"},
             lists[l] # Nil, Addable(any), lists' = lists, Appended(lists[l].store, NodeOfAny(any)),
             Unknown(lists[l].store, others), l \in others \/ lists[l].of \in {"Any", any}
      PROVE  TypedAt(m)'
  <2>1. NodeOfAny(any) \in NodeTypes /\ \A T \in {"Any", any} : As(T, NodeOfAny(any))
    BY <1>4, AppendedNode
  <2>2. lists'[m] = lists[m] /\ lists[m] # Nil /\ As("Any", NodeOfAny(any))
    BY <1>4, <2>1
  <2>3. CASE lists[m].store # lists[l].store
    <3>1. content'[lists[m].store] = content[lists[m].store] /\ doubtful'[m] = doubtful[m]
      BY <1>4, <2>2, <2>3 DEF Appended, Unknown, TypeOK, Wrappers
    <3> QED BY <2>2, <3>1, TypedFrame
  <2>4. CASE lists[m].store = lists[l].store
    <3>1. \/ doubtful'[m] = doubtful[m] /\ As(lists[m].of, NodeOfAny(any))
          \/ doubtful'[m] = doubtful[m] \cup {Len(content[lists[m].store]) + 1}
      <4>1. CASE m \in others /\ lists[m].of # "Any"
        BY <1>4, <2>2, <2>4, <4>1 DEF Unknown
      <4>2. CASE m \notin others \/ lists[m].of = "Any"
        <5>1. doubtful'[m] = doubtful[m]
          BY <1>4, <4>2 DEF Unknown
        <5>2. lists[m].of \in {"Any", any}
          BY <1>4, <4>2
        <5> QED BY <2>1, <5>1, <5>2
      <4> QED BY <4>1, <4>2
    <3> QED BY <1>4, <2>1, <2>2, <2>4, <3>1, AppendTyped
  <2> QED BY <2>3, <2>4
<1>5. ASSUME NEW l \in Lists, NEW any \in Values \cup {"monostate"}, PushBack(l, any) \/ PushBackGeneric(l, any)
      PROVE  TypedAt(m)'
  <2>1. CASE PushBack(l, any) /\ ~ Addable(any)
    BY <2>1, TypedFrame DEF PushBack
  <2>2. CASE PushBack(l, any) /\ Addable(any)
    BY <1>4, <2>2 DEF PushBack
  <2>3. CASE PushBackGeneric(l, any)
    BY <1>4, <2>3 DEF PushBackGeneric
  <2> QED BY <1>5, <2>1, <2>2, <2>3
<1>6. ASSUME NEW l \in Lists, NEW i \in Iterators, Begin(l, i) PROVE TypedAt(m)'
  BY <1>6, TypedFrame DEF Begin
<1>7. ASSUME NEW i \in Iterators, Advance(i) PROVE TypedAt(m)'
  BY <1>7, TypedFrame DEF Advance
<1>8. ASSUME NEW i \in Iterators, NEW T \in ElementTypes, Dereference(i, T) PROVE TypedAt(m)'
  BY <1>8, TypedFrame DEF Dereference
<1>9. ASSUME NEW i \in Iterators, Leave(i) PROVE TypedAt(m)'
  BY <1>9, TypedFrame DEF Leave
<1>10. ASSUME NEW l \in Lists, Destroy(l) PROVE TypedAt(m)'
  <2>1. m # l /\ lists'[m] = lists[m] /\ doubtful'[m] = doubtful[m]
    BY <1>10 DEF Destroy, TypeOK
  <2> QED BY <1>10, <2>1, TypedFrame DEF Destroy
<1>11. ASSUME NEW l \in Lists, NEW T \in ElementTypes, WrapRaw(l, T) PROVE TypedAt(m)'
  <2>1. PICK s \in UsedStores :
           /\ lists' = [lists EXCEPT ![l] = ListOf(s, T)]
           /\ doubtful' = [doubtful EXCEPT ![l] = IF T = "Any" THEN {} ELSE DOMAIN content[s]]
    BY <1>11 DEF WrapRaw
  <2>2. CASE m = l
    <3>1. lists'[l] = ListOf(s, T) /\ doubtful'[l] = (IF T = "Any" THEN {} ELSE DOMAIN content[s]) /\ content' = content
      BY <1>11, <2>1 DEF WrapRaw, TypeOK
    <3> QED BY <2>2, <3>1 DEF TypedAt, ListOf, As
  <2>3. CASE m # l
    BY <1>11, <2>1, <2>3, TypedFrame DEF WrapRaw, TypeOK
  <2> QED BY <2>2, <2>3
<1>12. CASE UNCHANGED vars
  BY <1>12, TypedFrame DEF vars
<1> QED BY <1>1, <1>2, <1>3, <1>5, <1>6, <1>7, <1>8, <1>9, <1>10, <1>11, <1>12 DEF Next

LEMMA InitTyped == Init => ListsTyped
<1> SUFFICES ASSUME Init, NEW l \in Lists, lists[l] # Nil PROVE lists[l].of = "Any"
  BY DEF ListsTyped, As
<1> QED BY DEF Init, ListOf

(***************************************************************************)
(* A typed list holds a node of another type only where nothing was looked *)
(* at: in a raw store that it was made of (Containers/DataList.h:54), or   *)
(* appended by way of another wrapper.                                     *)
(***************************************************************************)
THEOREM TypedListsHold == Spec => []ListsTyped
<1>1. Init => TypeOK /\ ListsTyped
  BY InitTypes, InitTyped
<1>2. TypeOK /\ ListsTyped /\ [Next]_vars => (TypeOK /\ ListsTyped)'
  BY NextTypes, NextTyped
<1> QED BY <1>1, <1>2, PTL DEF Spec

-----------------------------------------------------------------------------
(* Walks.  An iterator stands on the node of as many steps as it has seen  *)
(* nodes, and the store that it walks only grows.                          *)

WalkInv ==
    \A i \in Walking :
       /\ \A k \in DOMAIN seen[i].nodes : seen[i].nodes[k] = k
       /\ seen[i].start <= Len(content[its[i].store])
       /\ its[i].node = 0 => Len(seen[i].nodes) >= seen[i].start
       /\ its[i].node # 0 => /\ Len(seen[i].nodes) = its[i].node
                             /\ its[i].node <= Len(content[its[i].store])

LEMMA AppendedGrows ==
    ASSUME TypeOK, NEW s \in Stores, NEW node, node \in NodeTypes, Appended(s, node),
           NEW r \in Stores
    PROVE  Len(content[r]) <= Len(content'[r])
<1>1. CASE r = s
  <2>1. content'[s] = Append(content[s], node) /\ content[s] \in Seq(NodeTypes)
    BY DEF Appended, TypeOK
  <2> QED BY <1>1, <2>1
<1>2. CASE r # s
  <2>1. content'[r] = content[r] /\ content[r] \in Seq(NodeTypes)
    BY <1>2 DEF Appended, TypeOK
  <2> QED BY <2>1
<1> QED BY <1>1, <1>2

\* The stores under iterators grow, and the iterators are as they were.
LEMMA WalkFrame ==
    ASSUME TypeOK, TypeOK', WalkInv, NEW i \in Iterators, its'[i] # Nil,
           its'[i] = its[i], seen'[i] = seen[i],
           Len(content[its[i].store]) <= Len(content'[its[i].store])
    PROVE  /\ \A k \in DOMAIN seen'[i].nodes : seen'[i].nodes[k] = k
           /\ seen'[i].start <= Len(content'[its'[i].store])
           /\ its'[i].node = 0 => Len(seen'[i].nodes) >= seen'[i].start
           /\ its'[i].node # 0 => /\ Len(seen'[i].nodes) = its'[i].node
                                  /\ its'[i].node <= Len(content'[its'[i].store])
<1>1. i \in Walking
  BY DEF Walking
<1>2. its[i] \in Positions /\ seen[i] \in [nodes : Seq(Nat), start : Nat]
  BY DEF TypeOK
<1>3. Len(content[its[i].store]) \in Nat /\ Len(content'[its[i].store]) \in Nat
  BY <1>2 DEF TypeOK, Positions
<1>4. its[i].node \in Nat /\ seen[i].start \in Nat
  BY <1>2 DEF Positions
<1>5. /\ \A k \in DOMAIN seen[i].nodes : seen[i].nodes[k] = k
      /\ seen[i].start <= Len(content[its[i].store])
      /\ its[i].node = 0 => Len(seen[i].nodes) >= seen[i].start
      /\ its[i].node # 0 => /\ Len(seen[i].nodes) = its[i].node
                            /\ its[i].node <= Len(content[its[i].store])
  BY <1>1 DEF WalkInv
<1> QED BY <1>3, <1>4, <1>5, SMTT(30)

LEMMA BeginWalks ==
    ASSUME TypeOK, NEW l \in Lists, NEW i \in Iterators, Begin(l, i)
    PROVE  /\ \A k \in DOMAIN seen'[i].nodes : seen'[i].nodes[k] = k
           /\ seen'[i].start <= Len(content'[its'[i].store])
           /\ its'[i].node = 0 => Len(seen'[i].nodes) >= seen'[i].start
           /\ its'[i].node # 0 => /\ Len(seen'[i].nodes) = its'[i].node
                                  /\ its'[i].node <= Len(content'[its'[i].store])
<1> DEFINE s == lists[l].store
<1>1. s \in Stores
  BY DEF Begin, TypeOK, Wrappers
<1>2. content[s] \in Seq(NodeTypes) /\ Len(content[s]) \in Nat
  BY <1>1 DEF TypeOK
<1>3. /\ its'[i] = [store |-> s, node |-> At(s, 1), list |-> l]
      /\ seen'[i] = [nodes |-> IF At(s, 1) = 0 THEN <<>> ELSE <<1>>, start |-> Len(content[s])]
      /\ content' = content
  BY DEF Begin, TypeOK
<1>4. CASE At(s, 1) = 0
  <2>1. Len(content[s]) = 0
    BY <1>2, <1>4 DEF At
  <2> QED BY <1>3, <1>4, <2>1
<1>5. CASE At(s, 1) # 0
  <2>1. At(s, 1) = 1 /\ 1 <= Len(content[s])
    BY <1>5 DEF At
  <2> QED BY <1>2, <1>3, <2>1
<1> QED BY <1>4, <1>5

LEMMA AdvanceWalks ==
    ASSUME TypeOK, WalkInv, NEW i \in Iterators, Advance(i)
    PROVE  /\ \A k \in DOMAIN seen'[i].nodes : seen'[i].nodes[k] = k
           /\ seen'[i].start <= Len(content'[its'[i].store])
           /\ its'[i].node = 0 => Len(seen'[i].nodes) >= seen'[i].start
           /\ its'[i].node # 0 => /\ Len(seen'[i].nodes) = its'[i].node
                                  /\ its'[i].node <= Len(content'[its'[i].store])
<1> DEFINE s == its[i].store
           n == its[i].node + 1
<1>1. i \in Walking /\ its[i].node # 0 /\ its[i] \in Positions
  BY DEF Advance, Walking, TypeOK
<1>2. s \in Stores /\ its[i].node \in Nat
  BY <1>1 DEF Positions
<1>3. Len(content[s]) \in Nat /\ seen[i].nodes \in Seq(Nat) /\ seen[i].start \in Nat
  BY <1>2 DEF TypeOK
<1>4. /\ \A k \in DOMAIN seen[i].nodes : seen[i].nodes[k] = k
      /\ seen[i].start <= Len(content[s])
      /\ Len(seen[i].nodes) = its[i].node /\ its[i].node <= Len(content[s])
  BY <1>1 DEF WalkInv
<1>5. /\ its'[i].store = s /\ its'[i].node = At(s, n)
      /\ seen'[i].start = seen[i].start /\ seen'[i].nodes = Stand(i, At(s, n))
      /\ content' = content
  BY DEF Advance, TypeOK, Positions
<1> HIDE DEF s
<1>6. CASE n <= Len(content[s])
  <2>1. At(s, n) = n /\ n # 0
    BY <1>2, <1>6 DEF At
  <2>2. seen'[i].nodes = Append(seen[i].nodes, n)
    BY <1>5, <2>1 DEF Stand
  <2>3. Len(seen'[i].nodes) = n /\ \A k \in DOMAIN seen'[i].nodes : seen'[i].nodes[k] = k
    BY <1>2, <1>3, <1>4, <2>2
  <2> QED BY <1>4, <1>5, <1>6, <2>1, <2>3
<1>7. CASE ~ (n <= Len(content[s]))
  <2>1. At(s, n) = 0
    BY <1>7 DEF At
  <2>2. seen'[i].nodes = seen[i].nodes
    BY <1>5, <2>1 DEF Stand
  <2>3. Len(seen[i].nodes) >= seen[i].start
    BY <1>2, <1>3, <1>4, <1>7
  <2> QED BY <1>4, <1>5, <2>1, <2>2, <2>3
<1> QED BY <1>6, <1>7

LEMMA NextWalks == TypeOK /\ WalkInv /\ [Next]_vars => WalkInv'
<1> SUFFICES ASSUME TypeOK, WalkInv, [Next]_vars, NEW w \in Iterators, its'[w] # Nil
             PROVE  /\ \A k \in DOMAIN seen'[w].nodes : seen'[w].nodes[k] = k
                    /\ seen'[w].start <= Len(content'[its'[w].store])
                    /\ its'[w].node = 0 => Len(seen'[w].nodes) >= seen'[w].start
                    /\ its'[w].node # 0 => /\ Len(seen'[w].nodes) = its'[w].node
                                           /\ its'[w].node <= Len(content'[its'[w].store])
  BY DEF WalkInv, Walking
<1>0. TypeOK'
  BY NextTypes
<1> DEFINE Grows == Len(content[its[w].store]) <= Len(content'[its[w].store])
<1>a. ASSUME its'[w] = its[w], UNCHANGED content PROVE Grows
  <2>1. its[w].store \in Stores
    BY <1>a DEF TypeOK, Positions
  <2>2. Len(content[its[w].store]) \in Nat
    BY <2>1 DEF TypeOK
  <2> QED BY <1>a, <2>2
<1>b. ASSUME its'[w] = its[w], NEW s \in Stores \ {its[i].store : i \in Walking}, NEW c,
             content' = [content EXCEPT ![s] = c]
      PROVE  Grows
  <2>1. its[w].store \in Stores /\ its[w].store # s
    BY <1>b DEF TypeOK, Positions, Walking
  <2>2. content'[its[w].store] = content[its[w].store]
    BY <1>b, <2>1 DEF TypeOK
  <2>3. Len(content[its[w].store]) \in Nat
    BY <2>1 DEF TypeOK
  <2> QED BY <2>2, <2>3
<1>c. ASSUME its'[w] = its[w], NEW s \in Stores, NEW node \in NodeTypes, Appended(s, node) PROVE Grows
  <2>1. its[w].store \in Stores
    BY <1>c DEF TypeOK, Positions
  <2> QED BY <1>c, <2>1, AppendedGrows
<1>1. ASSUME NEW l \in Lists, NEW T \in ElementTypes, MakeTyped(l, T) PROVE Grows /\ UNCHANGED <<its, seen>>
  BY <1>1, <1>a DEF MakeTyped
<1>20. ASSUME NEW l \in Lists, NEW T \in ElementTypes, WrapRaw(l, T) PROVE Grows /\ UNCHANGED <<its, seen>>
  BY <1>20, <1>a DEF WrapRaw
<1>2. ASSUME NEW l \in Lists, NEW T \in ElementTypes, MakeEmpty(l, T) PROVE Grows /\ UNCHANGED <<its, seen>>
  BY <1>2, <1>b DEF MakeEmpty
<1>3. ASSUME NEW l \in Lists, NEW k \in Lists, Clone(l, k) PROVE Grows /\ UNCHANGED <<its, seen>>
  BY <1>3, <1>b DEF Clone
<1>4. ASSUME NEW l \in Lists, NEW any \in Values \cup {"monostate"}, PushBack(l, any)
      PROVE  Grows /\ UNCHANGED <<its, seen>>
  <2>1. lists[l].store \in Stores /\ UNCHANGED <<its, seen>>
    BY <1>4 DEF PushBack, TypeOK, Wrappers
  <2>2. CASE Addable(any)
    BY <1>4, <1>c, <2>1, <2>2, AppendedNode DEF PushBack
  <2>3. CASE ~ Addable(any)
    BY <1>4, <1>a, <2>1, <2>3 DEF PushBack
  <2> QED BY <2>1, <2>2, <2>3
<1>5. ASSUME NEW l \in Lists, NEW any \in Values \cup {"monostate"}, PushBackGeneric(l, any)
      PROVE  Grows /\ UNCHANGED <<its, seen>>
  <2>1. lists[l].store \in Stores /\ UNCHANGED <<its, seen>>
    BY <1>5 DEF PushBackGeneric, TypeOK, Wrappers
  <2> QED BY <1>5, <1>c, <2>1, AppendedNode DEF PushBackGeneric
<1>6. ASSUME NEW l \in Lists, NEW i \in Iterators, Begin(l, i), w # i
      PROVE  Grows /\ its'[w] = its[w] /\ seen'[w] = seen[w]
  BY <1>6, <1>a DEF Begin, TypeOK
<1>7. ASSUME NEW i \in Iterators, Advance(i), w # i
      PROVE  Grows /\ its'[w] = its[w] /\ seen'[w] = seen[w]
  BY <1>7, <1>a DEF Advance, TypeOK
<1>8. ASSUME NEW i \in Iterators, NEW T \in ElementTypes, Dereference(i, T)
      PROVE  Grows /\ its'[w] = its[w] /\ seen'[w] = seen[w]
  <2>1. its'[w] = its[w] /\ UNCHANGED <<content, seen>>
    BY <1>8 DEF Dereference, TypeOK
  <2> QED BY <1>a, <2>1
<1>9. ASSUME NEW i \in Iterators, Leave(i)
      PROVE  Grows /\ its'[w] = its[w] /\ seen'[w] = seen[w]
  <2>1. its'[w] = its[w] /\ UNCHANGED <<content, seen>>
    BY <1>9 DEF Leave, TypeOK
  <2> QED BY <1>a, <2>1
<1>10. ASSUME NEW l \in Lists, Destroy(l) PROVE Grows /\ UNCHANGED <<its, seen>>
  BY <1>10, <1>a DEF Destroy
<1>11. CASE UNCHANGED vars
  BY <1>0, <1>11, <1>a, WalkFrame DEF vars
<1>12. ASSUME Grows, its'[w] = its[w], seen'[w] = seen[w]
       PROVE  /\ \A k \in DOMAIN seen'[w].nodes : seen'[w].nodes[k] = k
              /\ seen'[w].start <= Len(content'[its'[w].store])
              /\ its'[w].node = 0 => Len(seen'[w].nodes) >= seen'[w].start
              /\ its'[w].node # 0 => /\ Len(seen'[w].nodes) = its'[w].node
                                     /\ its'[w].node <= Len(content'[its'[w].store])
  BY <1>0, <1>12, WalkFrame
<1> HIDE DEF Grows
<1>13. CASE \E l \in Lists, T \in ElementTypes : MakeTyped(l, T) \/ WrapRaw(l, T) \/ MakeEmpty(l, T)
  BY <1>13, <1>1, <1>2, <1>12, <1>20
<1>14. CASE \E l, k \in Lists : Clone(l, k)
  BY <1>14, <1>3, <1>12
<1>15. CASE \E l \in Lists, any \in Values \cup {"monostate"} : PushBack(l, any) \/ PushBackGeneric(l, any)
  BY <1>15, <1>4, <1>5, <1>12
<1>16. CASE \E l \in Lists, i \in Iterators : Begin(l, i)
  BY <1>16, <1>6, <1>12, BeginWalks
<1>17. CASE \E i \in Iterators : Advance(i)
  BY <1>17, <1>7, <1>12, AdvanceWalks
<1>18. CASE \E i \in Iterators : Leave(i) \/ (\E T \in ElementTypes : Dereference(i, T))
  BY <1>18, <1>8, <1>9, <1>12
<1>19. CASE \E l \in Lists : Destroy(l)
  BY <1>19, <1>10, <1>12
<1> QED BY <1>11, <1>13, <1>14, <1>15, <1>16, <1>17, <1>18, <1>19 DEF Next

\* Iterators stand on each node once and in order, and reach them all
\* (Containers/Iterators/DataList.hpp, DataNode.hpp, DataStore.hpp).
THEOREM WalksComplete == Spec => []WalkComplete
<1>1. Init => TypeOK /\ WalkInv
  BY InitTypes DEF Init, WalkInv, Walking
<1>2. TypeOK /\ WalkInv /\ [Next]_vars => (TypeOK /\ WalkInv)'
  BY NextTypes, NextWalks
<1>3. WalkInv => WalkComplete
  BY DEF WalkInv, WalkComplete
<1> QED BY <1>1, <1>2, <1>3, PTL DEF Spec

-----------------------------------------------------------------------------
(* Recursion over the positions of a sequence.                             *)

\* Induction up to a bound, by the least number that would be missing.
LEMMA UpTo ==
  ASSUME NEW n \in Nat, NEW S, 0 \in S, \A k \in 0 .. n - 1 : k \in S => k + 1 \in S
  PROVE  0 .. n \subseteq S
  <1> DEFINE Missing == (0 .. n) \ S
  <1>1. SUFFICES ASSUME Missing # {} PROVE FALSE
    OBVIOUS
  <1>2. Missing \subseteq Nat
    OBVIOUS
  <1>3. PICK k \in Missing : \A j \in Missing : ~ (<<j, k>> \in OpToRel(<, Nat))
    BY <1>1, <1>2, NatLessThanWellFounded, WFMin
  <1>4. \A j \in Missing : ~ (j < k)
    BY <1>2, <1>3 DEF OpToRel
  <1>5. k \in 1 .. n /\ k \notin S
    <2>1. k \in 0 .. n /\ k \notin S /\ k # 0
      OBVIOUS
    <2> QED
      BY <2>1
  <1>6. k - 1 \in 0 .. n - 1
    BY <1>5
  <1>7. k - 1 \in S
    BY <1>4, <1>5, <1>6
  <1> QED
    BY <1>5, <1>6, <1>7

\* And down to 1.
LEMMA DownTo ==
  ASSUME NEW n \in Nat, NEW S, n + 1 \in S, \A i \in 1 .. n : i + 1 \in S => i \in S
  PROVE  1 .. n + 1 \subseteq S
  <1> DEFINE Back == {k \in 0 .. n : n + 1 - k \in S}
  <1>1. 0 \in Back
    BY n + 1 - 0 = n + 1
  <1>2. ASSUME NEW k \in 0 .. n - 1, k \in Back PROVE k + 1 \in Back
    <2>1. n - k \in 1 .. n /\ (n - k) + 1 = n + 1 - k /\ n + 1 - (k + 1) = n - k /\ k + 1 \in 0 .. n
      OBVIOUS
    <2>2. (n - k) + 1 \in S
      BY <1>2, <2>1
    <2>3. n - k \in S
      BY <2>1, <2>2
    <2> QED
      BY <2>1, <2>3
  <1>3. 0 .. n \subseteq Back
    <2> HIDE DEF Back
    <2> QED
      BY <1>1, <1>2, UpTo
  <1>4. ASSUME NEW i \in 1 .. n + 1 PROVE i \in S
    <2>1. n + 1 - i \in 0 .. n /\ n + 1 - (n + 1 - i) = i
      OBVIOUS
    <2>2. n + 1 - i \in Back
      BY <1>3, <2>1
    <2> QED
      BY <2>1, <2>2
  <1> QED
    BY <1>4

\* A function may be defined from its value at the end, each value by the next.
LEMMA Downward ==
  ASSUME NEW n \in Nat, NEW z \in Int, NEW step \in [1 .. n -> [Int -> Int]]
  PROVE  \E f \in [1 .. n + 1 -> Int] : f[n + 1] = z /\ \A i \in 1 .. n : f[i] = step[i][f[i + 1]]
  <1> DEFINE From(j, f) == f[n + 1] = z /\ \A i \in j .. n : f[i] = step[i][f[i + 1]]
             Can == {j \in 1 .. n + 1 : \E f \in [1 .. n + 1 -> Int] : From(j, f)}
  <1>1. n + 1 \in Can
    <2> DEFINE f == [i \in 1 .. n + 1 |-> z]
    <2>1. f \in [1 .. n + 1 -> Int] /\ n + 1 \in 1 .. n + 1
      OBVIOUS
    <2>2. From(n + 1, f)
      BY <2>1
    <2> QED
      BY <2>1, <2>2
  <1>2. ASSUME NEW j \in 1 .. n, j + 1 \in Can PROVE j \in Can
    <2>1. PICK f \in [1 .. n + 1 -> Int] : From(j + 1, f)
      BY <1>2
    <2> DEFINE g == [i \in 1 .. n + 1 |-> IF i = j THEN step[j][f[j + 1]] ELSE f[i]]
    <2>2. j + 1 \in 1 .. n + 1 /\ j \in 1 .. n + 1 /\ n + 1 \in 1 .. n + 1 /\ n + 1 # j
      OBVIOUS
    <2>3. f[j + 1] \in Int /\ step[j] \in [Int -> Int]
      BY <2>2
    <2>4. step[j][f[j + 1]] \in Int
      BY <2>3
    <2>5. g \in [1 .. n + 1 -> Int]
      BY <2>4
    <2>6. g[n + 1] = z
      BY <2>1, <2>2
    <2>7. ASSUME NEW i \in j .. n PROVE g[i] = step[i][g[i + 1]]
      <3>1. i \in 1 .. n + 1 /\ i + 1 \in 1 .. n + 1 /\ i + 1 # j
        OBVIOUS
      <3>2. CASE i = j
        BY <3>1, <3>2
      <3>3. CASE i # j
        <4>1. i \in j + 1 .. n
          BY <3>3
        <4>2. f[i] = step[i][f[i + 1]]
          BY <2>1, <4>1
        <4> QED
          BY <3>1, <3>3, <4>2
      <3> QED
        BY <3>2, <3>3
    <2> QED
      BY <2>2, <2>5, <2>6, <2>7
  <1>3. 1 .. n + 1 \subseteq Can
    <2> HIDE DEF Can
    <2> QED
      BY <1>1, <1>2, DownTo
  <1>4. 1 \in Can
    <2> HIDE DEF Can
    <2> QED
      BY <1>3, 1 \in 1 .. n + 1
  <1> QED
    BY <1>4

\* A function may be defined from its value at 0, each value by the one before.
StepsIn(n, V) == [1 .. n -> [V -> V]]
Climbs(n, V, z, step) == \E f \in [0 .. n -> V] : f[0] = z /\ \A i \in 1 .. n : f[i] = step[i][f[i - 1]]

LEMMA Upward ==
  ASSUME NEW n \in Nat, NEW V, NEW z \in V, NEW step \in StepsIn(n, V)
  PROVE  Climbs(n, V, z, step)
  <1> DEFINE To(j, f) == f[0] = z /\ \A i \in 1 .. j : f[i] = step[i][f[i - 1]]
             Can == {j \in 0 .. n : \E f \in [0 .. n -> V] : To(j, f)}
  <1>1. 0 \in Can
    <2> DEFINE f == [i \in 0 .. n |-> z]
    <2>1. f \in [0 .. n -> V] /\ 0 \in 0 .. n
      OBVIOUS
    <2>2. To(0, f)
      BY <2>1
    <2> QED
      BY <2>1, <2>2
  <1>2. ASSUME NEW j \in 0 .. n - 1, j \in Can PROVE j + 1 \in Can
    <2>1. PICK f \in [0 .. n -> V] : To(j, f)
      BY <1>2
    <2>2. j + 1 \in 0 .. n /\ j + 1 \in 1 .. n /\ j \in 0 .. n /\ j # j + 1 /\ 0 # j + 1 /\ 0 \in 0 .. n
      OBVIOUS
    <2>3. f[j] \in V /\ step[j + 1] \in [V -> V]
      BY <2>2 DEF StepsIn
    <2> DEFINE v == step[j + 1][f[j]]
               g == [i \in 0 .. n |-> IF i = j + 1 THEN v ELSE f[i]]
    <2>4. v \in V
      BY <2>3
    <2> HIDE DEF v
    <2>5. g \in [0 .. n -> V]
      BY <2>4
    <2>6. g[0] = z
      BY <2>1, <2>2
    <2>7. ASSUME NEW i \in 1 .. j + 1 PROVE g[i] = step[i][g[i - 1]]
      <3>1. i \in 0 .. n /\ i - 1 \in 0 .. n /\ i - 1 # j + 1
        BY <2>2
      <3>2. CASE i = j + 1
        <4>1. i - 1 = j
          BY <3>2
        <4> QED
          BY <3>1, <3>2, <4>1, <2>2 DEF v
      <3>3. CASE i # j + 1
        <4>1. i \in 1 .. j
          BY <3>3
        <4>2. f[i] = step[i][f[i - 1]]
          BY <2>1, <4>1
        <4> QED
          BY <3>1, <3>3, <4>2
      <3> QED
        BY <3>2, <3>3
    <2> QED
      BY <2>2, <2>5, <2>6, <2>7
  <1>3. 0 .. n \subseteq Can
    <2> HIDE DEF Can
    <2> QED
      BY <1>1, <1>2, UpTo
  <1>4. n \in Can
    <2> HIDE DEF Can
    <2> QED
      BY <1>3, n \in 0 .. n
  <1> QED
    BY <1>4 DEF Climbs

\* Functions on 1 .. n are the sequences of that length.
LEMMA LengthIs ==
  ASSUME NEW n \in Nat, NEW S, NEW s \in [1 .. n -> S]
  PROVE  s \in Seq(S) /\ Len(s) = n /\ DOMAIN s = 1 .. n
  OBVIOUS

LEMMA SumsIs ==
  ASSUME NEW n \in Nat, NEW terms \in [1 .. n -> Int]
  PROVE  /\ Sums(terms) \in [1 .. n + 1 -> Int]
         /\ Sums(terms)[n + 1] = 0
         /\ \A i \in 1 .. n : Sums(terms)[i] = terms[i] + Sums(terms)[i + 1]
  <1> DEFINE Is(g) == g = [i \in 1 .. n + 1 |-> IF i > n THEN 0 ELSE terms[i] + g[i + 1]]
             from == CHOOSE g : Is(g)
             step == [i \in 1 .. n |-> [v \in Int |-> terms[i] + v]]
  <1>1. Sums(terms) = from
    BY LengthIs DEF Sums
  <1>2. step \in [1 .. n -> [Int -> Int]]
    OBVIOUS
  <1>3. \A i \in 1 .. n, v \in Int : step[i][v] = terms[i] + v
    OBVIOUS
  <1>4. PICK f \in [1 .. n + 1 -> Int] : f[n + 1] = 0 /\ \A i \in 1 .. n : f[i] = step[i][f[i + 1]]
    <2> HIDE DEF step
    <2> QED
      BY <1>2, Downward, 0 \in Int
  <1>5. \A i \in 1 .. n + 1 : f[i] \in Int /\ (i > n => i = n + 1) /\ (~ (i > n) => i \in 1 .. n)
    OBVIOUS
  <1>6. \A i \in 1 .. n : i + 1 \in 1 .. n + 1 /\ i \in 1 .. n + 1 /\ ~ (i > n)
    OBVIOUS
  <1> HIDE DEF step
  <1>7. \A i \in 1 .. n : f[i] = terms[i] + f[i + 1]
    BY <1>3, <1>4, <1>5, <1>6
  <1>8. Is(f)
    BY <1>4, <1>5, <1>7
  <1>9. Is(from)
    BY <1>8
  <1> HIDE DEF from
  <1>10. /\ from[n + 1] = 0
         /\ \A i \in 1 .. n : from[i] = terms[i] + from[i + 1]
    BY <1>9, <1>6, n + 1 \in 1 .. n + 1, n + 1 > n
  <1>11. from \in [1 .. n + 1 -> Int]
    <2> DEFINE Good == {i \in 1 .. n + 1 : from[i] \in Int}
    <2>1. n + 1 \in Good
      BY <1>10
    <2>2. \A i \in 1 .. n : i + 1 \in Good => i \in Good
      BY <1>6, <1>10, SMTT(30)
    <2> HIDE DEF Good
    <2>3. 1 .. n + 1 \subseteq Good
      BY <2>1, <2>2, DownTo
    <2>4. \A i \in 1 .. n + 1 : from[i] \in Int
      BY <2>3 DEF Good
    <2>5. from = [i \in 1 .. n + 1 |-> from[i]]
      BY <1>9
    <2> QED
      BY <2>4, <2>5
  <1> QED
    BY <1>1, <1>10, <1>11

LEMMA ExtentIs ==
  ASSUME NEW n \in Nat, NEW dims \in [1 .. n -> Int]
  PROVE  /\ Extent(dims) \in [1 .. n + 1 -> Int]
         /\ Extent(dims)[n + 1] = 1
         /\ \A i \in 1 .. n : Extent(dims)[i] = dims[i] * Extent(dims)[i + 1]
  <1> DEFINE Is(g) == g = [i \in 1 .. n + 1 |-> IF i > n THEN 1 ELSE dims[i] * g[i + 1]]
             from == CHOOSE g : Is(g)
             step == [i \in 1 .. n |-> [v \in Int |-> dims[i] * v]]
  <1>1. Extent(dims) = from
    BY LengthIs DEF Extent
  <1>2. step \in [1 .. n -> [Int -> Int]]
    OBVIOUS
  <1>3. \A i \in 1 .. n, v \in Int : step[i][v] = dims[i] * v
    OBVIOUS
  <1>4. PICK f \in [1 .. n + 1 -> Int] : f[n + 1] = 1 /\ \A i \in 1 .. n : f[i] = step[i][f[i + 1]]
    <2> HIDE DEF step
    <2> QED
      BY <1>2, Downward, 1 \in Int
  <1>5. \A i \in 1 .. n + 1 : f[i] \in Int /\ (i > n => i = n + 1) /\ (~ (i > n) => i \in 1 .. n)
    OBVIOUS
  <1>6. \A i \in 1 .. n : i + 1 \in 1 .. n + 1 /\ i \in 1 .. n + 1 /\ ~ (i > n)
    OBVIOUS
  <1> HIDE DEF step
  <1>7. \A i \in 1 .. n : f[i] = dims[i] * f[i + 1]
    BY <1>3, <1>4, <1>5, <1>6
  <1>8. Is(f)
    BY <1>4, <1>5, <1>7
  <1>9. Is(from)
    BY <1>8
  <1> HIDE DEF from
  <1>10. /\ from[n + 1] = 1
         /\ \A i \in 1 .. n : from[i] = dims[i] * from[i + 1]
    BY <1>9, <1>6, n + 1 \in 1 .. n + 1, n + 1 > n
  <1>11. from \in [1 .. n + 1 -> Int]
    <2> DEFINE Good == {i \in 1 .. n + 1 : from[i] \in Int}
    <2>1. n + 1 \in Good
      BY <1>10
    <2>2. \A i \in 1 .. n : i + 1 \in Good => i \in Good
      <3> SUFFICES ASSUME NEW i \in 1 .. n, i + 1 \in Good PROVE i \in Good
        OBVIOUS
      <3>1. dims[i] \in Int /\ from[i + 1] \in Int
        OBVIOUS
      <3>2. dims[i] * from[i + 1] \in Int
        BY <3>1
      <3> QED
        BY <1>6, <1>10, <3>2
    <2> HIDE DEF Good
    <2>3. 1 .. n + 1 \subseteq Good
      BY <2>1, <2>2, DownTo
    <2>4. \A i \in 1 .. n + 1 : from[i] \in Int
      BY <2>3 DEF Good
    <2>5. from = [i \in 1 .. n + 1 |-> from[i]]
      BY <1>9
    <2> QED
      BY <2>4, <2>5
  <1> QED
    BY <1>1, <1>10, <1>11

-----------------------------------------------------------------------------
(* Mints, offsets and lengths.                                             *)

\* Powers of two.
LEMMA PowerIs ==
  /\ Power \in [0 .. Width -> Nat]
  /\ Power[0] = 1
  /\ \A n \in 1 .. Width : Power[n] = 2 * Power[n - 1]
  <1> DEFINE Is(g) == g = [n \in 0 .. Width |-> IF n = 0 THEN 1 ELSE 2 * g[n - 1]]
             power == CHOOSE g : Is(g)
             step == [i \in 1 .. Width |-> [v \in Nat |-> 2 * v]]
  <1>1. Power = power
    BY DEF Power
  <1>2. Width \in Nat /\ 0 \in 0 .. Width
    BY ArraysAssumption
  <1>3. step \in [1 .. Width -> [Nat -> Nat]]
    OBVIOUS
  <1>4. \A i \in 1 .. Width, v \in Nat : step[i][v] = 2 * v
    OBVIOUS
  <1>5. PICK f \in [0 .. Width -> Nat] : f[0] = 1 /\ \A i \in 1 .. Width : f[i] = step[i][f[i - 1]]
    <2>1. step \in StepsIn(Width, Nat)
      BY <1>3 DEF StepsIn
    <2> HIDE DEF step
    <2>2. Climbs(Width, Nat, 1, step)
      BY <1>2, <2>1, Upward, 1 \in Nat
    <2> QED
      BY <2>2 DEF Climbs
  <1> HIDE DEF step
  <1>6. \A i \in 1 .. Width : i \in 0 .. Width /\ i - 1 \in 0 .. Width /\ i # 0
    BY <1>2
  <1>7. \A i \in 1 .. Width : f[i] = 2 * f[i - 1]
    BY <1>4, <1>5, <1>6
  <1>8. \A i \in 0 .. Width : i = 0 \/ i \in 1 .. Width
    BY <1>2
  <1>9. Is(f)
    BY <1>5, <1>6, <1>7, <1>8
  <1>10. Is(power)
    BY <1>9
  <1> HIDE DEF power
  <1>11. power[0] = 1 /\ \A i \in 1 .. Width : power[i] = 2 * power[i - 1]
    BY <1>2, <1>6, <1>10
  <1>12. power \in [0 .. Width -> Nat]
    <2> DEFINE Good == {i \in 0 .. Width : power[i] \in Nat}
    <2>1. 0 \in Good
      BY <1>2, <1>11
    <2>2. ASSUME NEW k \in 0 .. Width - 1, k \in Good PROVE k + 1 \in Good
      <3>1. k + 1 \in 1 .. Width /\ (k + 1) - 1 = k /\ k + 1 \in 0 .. Width
        BY <1>2
      <3>2. power[k + 1] = 2 * power[k]
        BY <1>11, <3>1
      <3> QED
        BY <2>2, <3>1, <3>2
    <2> HIDE DEF Good
    <2>3. 0 .. Width \subseteq Good
      BY <1>2, <2>1, <2>2, UpTo
    <2>4. \A i \in 0 .. Width : power[i] \in Nat
      BY <2>3 DEF Good
    <2>5. power = [i \in 0 .. Width |-> power[i]]
      BY <1>10
    <2> QED
      BY <2>4, <2>5
  <1> QED
    BY <1>1, <1>11, <1>12

\* A narrower type has fewer values.
LEMMA PowerGrows ==
  ASSUME NEW n \in 0 .. Width
  PROVE  /\ Power[n] \in Nat /\ Power[n] >= 1
         /\ \A m \in 0 .. n : Power[m] <= Power[n]
  <1> DEFINE Fine(k) == Power[k] >= 1 /\ \A m \in 0 .. k : Power[m] <= Power[k]
             Good == {k \in 0 .. Width : Fine(k)}
  <1>1. Width \in Nat
    BY ArraysAssumption
  <1>2. 0 \in Good
    <2>1. \A m \in 0 .. 0 : m = 0
      OBVIOUS
    <2> QED
      BY <1>1, <2>1, PowerIs
  <1>3. ASSUME NEW k \in 0 .. Width - 1, k \in Good PROVE k + 1 \in Good
    <2>1. k + 1 \in 1 .. Width /\ (k + 1) - 1 = k /\ k + 1 \in 0 .. Width /\ k \in 0 .. Width
      BY <1>1
    <2>2. Power[k + 1] = 2 * Power[k] /\ Power[k] \in Nat
      BY <2>1, PowerIs
    <2>3. Power[k] >= 1 /\ \A m \in 0 .. k : Power[m] <= Power[k]
      BY <1>3
    <2>4. Power[k + 1] >= 1 /\ Power[k] <= Power[k + 1]
      BY <2>2, <2>3
    <2>5. ASSUME NEW m \in 0 .. k + 1 PROVE Power[m] <= Power[k + 1]
      <3>1. m = k + 1 \/ m \in 0 .. k
        OBVIOUS
      <3>2. Power[m] \in Nat /\ Power[k + 1] \in Nat
        BY <1>1, <2>1, <3>1, PowerIs
      <3> QED
        BY <2>2, <2>3, <2>4, <3>1, <3>2
    <2> QED
      BY <2>1, <2>4, <2>5
  <1> HIDE DEF Good
  <1>4. 0 .. Width \subseteq Good
    BY <1>1, <1>2, <1>3, UpTo
  <1>5. Fine(n)
    BY <1>4 DEF Good
  <1> QED
    BY <1>5, PowerIs

LEMMA HalfIs == Half \in Nat /\ Half >= 1 /\ Power[Width] = 2 * Half
  <1>1. Width \in 1 .. Width /\ Width - 1 \in 0 .. Width
    BY ArraysAssumption
  <1> QED
    BY <1>1, PowerIs, PowerGrows DEF Half

\* A number that the kernel can count elements with is left as it is.
LEMMA WrapKeeps == ASSUME NEW x \in 0 .. Capacity PROVE Wrap(x) = x
  <1>1. Half \in Nat /\ x \in Nat /\ x <= Half - 1
    BY ArraysAssumption, HalfIs
  <1>2. ASSUME NEW h \in Nat, x <= h - 1 PROVE ((x + h) % (2 * h)) - h = x
    BY <1>1, <1>2
  <1> QED
    BY <1>1, <1>2 DEF Wrap

LEMMA WrapInt == ASSUME NEW x \in Int PROVE Wrap(x) \in Int
  <1>1. Half \in Nat /\ Half >= 1
    BY HalfIs
  <1>2. ASSUME NEW h \in Nat, h >= 1 PROVE ((x + h) % (2 * h)) - h \in Int
    BY <1>2
  <1> QED
    BY <1>1, <1>2 DEF Wrap

LEMMA TimesNat ==
  ASSUME NEW a \in Nat, NEW b \in Nat
  PROVE  /\ a * b \in Nat
         /\ a >= 1 /\ b >= 1 => a * b >= 1 /\ a * b >= a /\ a * b >= b
  OBVIOUS

\* Sizes are natural numbers; positive ones shrink from each to the next.
LEMMA ExtentNat ==
  ASSUME NEW n \in Nat, NEW dims \in [1 .. n -> Nat]
  PROVE  /\ Extent(dims) \in [1 .. n + 1 -> Nat]
         /\ Extent(dims)[n + 1] = 1
         /\ \A i \in 1 .. n : Extent(dims)[i] = dims[i] * Extent(dims)[i + 1]
  <1> DEFINE e == Extent(dims)
  <1>1. dims \in [1 .. n -> Int]
    OBVIOUS
  <1>2. /\ e \in [1 .. n + 1 -> Int] /\ e[n + 1] = 1
        /\ \A i \in 1 .. n : e[i] = dims[i] * e[i + 1]
    BY <1>1, ExtentIs
  <1> HIDE DEF e
  <1> DEFINE Good == {i \in 1 .. n + 1 : e[i] \in Nat}
  <1>3. n + 1 \in Good
    BY <1>2
  <1>4. ASSUME NEW i \in 1 .. n, i + 1 \in Good PROVE i \in Good
    <2>1. dims[i] \in Nat /\ e[i + 1] \in Nat /\ i \in 1 .. n + 1
      BY <1>4
    <2>2. e[i] = dims[i] * e[i + 1]
      BY <1>2
    <2> QED
      BY <2>1, <2>2, TimesNat
  <1> HIDE DEF Good
  <1>5. 1 .. n + 1 \subseteq Good
    BY <1>3, <1>4, DownTo
  <1>6. \A i \in 1 .. n + 1 : e[i] \in Nat
    BY <1>5 DEF Good
  <1> QED
    BY <1>2, <1>6 DEF e

Positive(n, dims) == \A i \in 1 .. n : dims[i] >= 1

LEMMA ExtentShrinks ==
  ASSUME NEW n \in Nat, NEW dims \in [1 .. n -> Nat], Positive(n, dims)
  PROVE  /\ \A i \in 1 .. n + 1 : Extent(dims)[i] \in 1 .. Product(dims)
         /\ \A i \in 1 .. n : dims[i] \in 1 .. Product(dims)
  <1> DEFINE e == Extent(dims)
  <1>1. /\ e \in [1 .. n + 1 -> Nat] /\ e[n + 1] = 1
        /\ \A i \in 1 .. n : e[i] = dims[i] * e[i + 1]
    BY ExtentNat
  <1>2. Product(dims) = e[1]
    BY DEF Product
  <1> HIDE DEF e
  <1> DEFINE Good == {i \in 1 .. n + 1 : e[i] >= 1}
  <1>3. n + 1 \in Good
    BY <1>1
  <1>4. ASSUME NEW i \in 1 .. n, i + 1 \in Good PROVE i \in Good
    <2>1. dims[i] \in Nat /\ dims[i] >= 1 /\ i \in 1 .. n + 1
      BY DEF Positive
    <2>2. e[i + 1] \in Nat /\ e[i + 1] >= 1
      BY <1>1, <1>4
    <2> QED
      BY <1>1, <2>1, <2>2, TimesNat
  <1> HIDE DEF Good
  <1>5. \A i \in 1 .. n + 1 : e[i] \in Nat /\ e[i] >= 1
    BY <1>1, <1>3, <1>4, DownTo DEF Good
  <1>6. ASSUME NEW i \in 1 .. n PROVE e[i] >= e[i + 1] /\ e[i] >= dims[i] /\ dims[i] \in Nat /\ dims[i] >= 1
    <2>1. i \in 1 .. n + 1 /\ i + 1 \in 1 .. n + 1
      OBVIOUS
    <2>2. dims[i] \in Nat /\ dims[i] >= 1
      BY DEF Positive
    <2> QED
      BY <1>1, <1>5, <2>1, <2>2, TimesNat
  <1> DEFINE Below == {k \in 0 .. n : e[k + 1] <= e[1]}
  <1>7. 0 \in Below
    BY <1>5
  <1>8. ASSUME NEW k \in 0 .. n - 1, k \in Below PROVE k + 1 \in Below
    <2>1. k + 1 \in 1 .. n /\ (k + 1) + 1 \in 1 .. n + 1 /\ k + 1 \in 1 .. n + 1 /\ 1 \in 1 .. n + 1
      OBVIOUS
    <2>2. e[k + 1] >= e[(k + 1) + 1] /\ e[k + 1] <= e[1]
      BY <1>6, <1>8, <2>1
    <2>3. e[(k + 1) + 1] \in Nat /\ e[k + 1] \in Nat /\ e[1] \in Nat
      BY <1>1, <2>1
    <2> QED
      BY <2>1, <2>2, <2>3
  <1> HIDE DEF Below
  <1>9. 0 .. n \subseteq Below
    BY <1>7, <1>8, UpTo
  <1>10. ASSUME NEW i \in 1 .. n + 1 PROVE e[i] \in Nat /\ e[i] >= 1 /\ e[i] <= e[1] /\ e[1] \in Nat
    <2>1. i - 1 \in 0 .. n /\ (i - 1) + 1 = i /\ 1 \in 1 .. n + 1
      OBVIOUS
    <2> QED
      BY <1>5, <1>9, <2>1 DEF Below
  <1>11. \A i \in 1 .. n + 1 : e[i] \in 1 .. e[1]
    BY <1>10
  <1>12. ASSUME NEW i \in 1 .. n PROVE dims[i] \in 1 .. e[1]
    <2>1. i \in 1 .. n + 1
      OBVIOUS
    <2>2. e[i] \in Nat /\ e[i] <= e[1] /\ e[1] \in Nat
      BY <1>10, <2>1
    <2>3. e[i] >= dims[i] /\ dims[i] \in Nat /\ dims[i] >= 1
      BY <1>6
    <2> QED
      BY <2>2, <2>3
  <1> QED
    BY <1>2, <1>11, <1>12 DEF e

\* A dimension of 0 leaves no elements.
LEMMA ExtentZero ==
  ASSUME NEW n \in Nat, NEW dims \in [1 .. n -> Nat], ~ Positive(n, dims)
  PROVE  Product(dims) = 0
  <1> DEFINE e == Extent(dims)
  <1>1. PICK z \in 1 .. n : dims[z] = 0
    BY DEF Positive
  <1>2. e \in [1 .. n + 1 -> Nat] /\ \A i \in 1 .. n : e[i] = dims[i] * e[i + 1]
    BY ExtentNat
  <1> HIDE DEF e
  <1> DEFINE Good == {i \in 1 .. n + 1 : i <= z => e[i] = 0}
  <1>3. n + 1 \in Good
    OBVIOUS
  <1>4. ASSUME NEW i \in 1 .. n, i + 1 \in Good PROVE i \in Good
    <2>1. i \in 1 .. n + 1 /\ i + 1 \in 1 .. n + 1 /\ e[i] = dims[i] * e[i + 1]
      BY <1>2
    <2>2. e[i + 1] \in Nat /\ dims[i] \in Nat
      BY <1>2, <2>1
    <2>3. CASE i = z
      BY <1>1, <2>1, <2>2, <2>3
    <2>4. CASE i > z
      BY <2>1, <2>4
    <2>5. CASE i < z
      BY <1>4, <2>1, <2>2, <2>5
    <2> QED
      BY <2>3, <2>4, <2>5
  <1> HIDE DEF Good
  <1>5. 1 .. n + 1 \subseteq Good
    BY <1>3, <1>4, DownTo
  <1> QED
    BY <1>5, 1 \in 1 .. n + 1 DEF Good, Product, e

\* Each offset is the number of elements that have the same first indices.
LEMMA OffsetsRight ==
  ASSUME NEW n \in Nat, NEW dims \in [1 .. n -> Nat], Positive(n, dims), Product(dims) <= Capacity
  PROVE  fillOffsets(dims) = [i \in 1 .. n |-> Extent(dims)[i + 1]]
  <1> DEFINE e == Extent(dims)
             Is(g) == g = [i \in 1 .. n |-> IF i = n THEN 1 ELSE Wrap(g[i + 1] * dims[i + 1])]
             off == CHOOSE g : Is(g)
             right == [i \in 1 .. n |-> e[i + 1]]
  <1>1. fillOffsets(dims) = off
    <2>1. Len(dims) = n /\ DOMAIN dims = 1 .. n
      BY LengthIs
    <2> QED
      BY <2>1 DEF fillOffsets
  <1>2. /\ e \in [1 .. n + 1 -> Nat] /\ e[n + 1] = 1
        /\ \A i \in 1 .. n : e[i] = dims[i] * e[i + 1]
    BY ExtentNat
  <1>3. \A i \in 1 .. n + 1 : e[i] \in 0 .. Capacity
    <2>1. \A i \in 1 .. n + 1 : e[i] \in 1 .. Product(dims)
      BY ExtentShrinks
    <2>2. Product(dims) \in Nat /\ Capacity \in Nat
      <3>1. 1 \in 1 .. n + 1
        OBVIOUS
      <3> QED
        BY <1>2, <3>1, ArraysAssumption DEF Product
    <2> HIDE DEF e
    <2> QED
      BY <2>1, <2>2
  <1> HIDE DEF e
  <1>4. ASSUME NEW i \in 1 .. n, i # n PROVE e[i + 1] = Wrap(e[(i + 1) + 1] * dims[i + 1])
    <2>1. i + 1 \in 1 .. n /\ (i + 1) + 1 \in 1 .. n + 1 /\ i + 1 \in 1 .. n + 1
      BY <1>4
    <2>2. e[i + 1] = dims[i + 1] * e[(i + 1) + 1]
      BY <1>2, <2>1
    <2>3. e[(i + 1) + 1] \in Nat /\ dims[i + 1] \in Nat
      BY <1>2, <2>1
    <2>4. e[(i + 1) + 1] * dims[i + 1] = e[i + 1]
      BY <2>2, <2>3
    <2>5. Wrap(e[i + 1]) = e[i + 1]
      BY <1>3, <2>1, WrapKeeps
    <2> QED
      BY <2>4, <2>5
  <1>5. Is(right)
    <2>1. \A i \in 1 .. n : right[i] = e[i + 1] /\ (i # n => i + 1 \in 1 .. n) /\ (i = n => e[i + 1] = 1)
      BY <1>2
    <2>2. \A i \in 1 .. n : i # n => right[i + 1] = e[(i + 1) + 1]
      BY <2>1
    <2>3. \A i \in 1 .. n : e[i + 1] = IF i = n THEN 1 ELSE Wrap(right[i + 1] * dims[i + 1])
      BY <1>4, <2>1, <2>2
    <2> QED
      BY <2>3
  <1>6. Is(off)
    BY <1>5
  <1> HIDE DEF off
  <1>7. ASSUME NEW i \in 1 .. n PROVE off[i] = IF i = n THEN 1 ELSE Wrap(off[i + 1] * dims[i + 1])
    BY <1>6
  <1> DEFINE Good == {i \in 1 .. n + 1 : i \in 1 .. n => off[i] = e[i + 1]}
  <1>8. n + 1 \in Good
    OBVIOUS
  <1>9. ASSUME NEW i \in 1 .. n, i + 1 \in Good PROVE i \in Good
    <2>1. i \in 1 .. n + 1
      OBVIOUS
    <2>2. CASE i = n
      BY <1>2, <1>7, <2>1, <2>2
    <2>3. CASE i # n
      <3>1. i + 1 \in 1 .. n
        BY <2>3
      <3>2. off[i + 1] = e[(i + 1) + 1]
        BY <1>9, <3>1
      <3>3. off[i] = Wrap(off[i + 1] * dims[i + 1])
        BY <1>7, <2>3
      <3>4. off[i] = e[i + 1]
        BY <1>4, <2>3, <3>2, <3>3
      <3> QED
        BY <2>1, <3>4
    <2> QED
      BY <2>2, <2>3
  <1> HIDE DEF Good
  <1>10. 1 .. n + 1 \subseteq Good
    BY <1>8, <1>9, DownTo
  <1>11. ASSUME NEW i \in 1 .. n PROVE off[i] = e[i + 1]
    BY <1>10, i \in 1 .. n + 1 DEF Good
  <1>12. off = [i \in 1 .. n |-> off[i]]
    BY <1>6
  <1> QED
    BY <1>1, <1>11, <1>12 DEF e

\* The length computed in mints is the number of elements, if the kernel can
\* make so many: partial products that wrapped are lost in a dimension of 0.
LEMMA LengthRight ==
  ASSUME NEW n \in Nat, NEW dims \in [1 .. n -> Nat], Product(dims) <= Capacity
  PROVE  totalLengthFromDims(dims) = Product(dims)
  <1> DEFINE e == Extent(dims)
             step == [i \in 1 .. n |-> [v \in Int |-> Wrap(v * dims[n + 1 - i])]]
             Is(g) == g = [i \in 0 .. n |-> IF i = 0 THEN 1 ELSE Wrap(g[i - 1] * dims[i])]
             length == CHOOSE g : Is(g)
  <1>1. totalLengthFromDims(dims) = length[n]
    BY LengthIs DEF totalLengthFromDims
  <1>2. PICK f \in [1 .. n + 1 -> Int] : f[n + 1] = 1 /\ \A i \in 1 .. n : f[i] = step[i][f[i + 1]]
    <2>1. step \in [1 .. n -> [Int -> Int]]
      <3>1. ASSUME NEW i \in 1 .. n, NEW v \in Int PROVE Wrap(v * dims[n + 1 - i]) \in Int
        <4>1. n + 1 - i \in 1 .. n
          OBVIOUS
        <4>2. v * dims[n + 1 - i] \in Int
          BY <4>1
        <4> QED
          BY <4>2, WrapInt
      <3> QED
        BY <3>1
    <2> HIDE DEF step
    <2> QED
      BY <2>1, Downward, 1 \in Int
  <1> DEFINE g == [i \in 0 .. n |-> f[n + 1 - i]]
  <1>3. Is(g)
    <2>1. ASSUME NEW i \in 0 .. n PROVE f[n + 1 - i] = IF i = 0 THEN 1 ELSE Wrap(g[i - 1] * dims[i])
      <3>1. CASE i = 0
        BY <1>2, <3>1, n + 1 - 0 = n + 1
      <3>2. CASE i # 0
        <4>1. /\ n + 1 - i \in 1 .. n /\ n + 1 - (n + 1 - i) = i /\ i - 1 \in 0 .. n
              /\ n + 1 - (i - 1) = (n + 1 - i) + 1 /\ (n + 1 - i) + 1 \in 1 .. n + 1
          BY <3>2
        <4>2. f[(n + 1 - i) + 1] \in Int
          BY <4>1
        <4>3. f[n + 1 - i] = step[n + 1 - i][f[(n + 1 - i) + 1]]
          BY <1>2, <4>1
        <4>4. step[n + 1 - i][f[(n + 1 - i) + 1]] = Wrap(f[(n + 1 - i) + 1] * dims[n + 1 - (n + 1 - i)])
          BY <4>1, <4>2
        <4>5. g[i - 1] = f[(n + 1 - i) + 1]
          BY <4>1
        <4> HIDE DEF step, g
        <4> QED
          BY <3>2, <4>1, <4>3, <4>4, <4>5
      <3> QED
        BY <3>1, <3>2
    <2> HIDE DEF g
    <2>2. g = [i \in 0 .. n |-> f[n + 1 - i]]
      BY DEF g
    <2> QED
      BY <2>1, <2>2
  <1> HIDE DEF g, step
  <1>4. Is(length)
    BY <1>3
  <1> HIDE DEF length
  <1>5. /\ length[0] = 1
        /\ \A i \in 1 .. n : length[i] = Wrap(length[i - 1] * dims[i])
    <2>1. \A i \in 1 .. n : i \in 0 .. n /\ i # 0
      OBVIOUS
    <2> QED
      BY <1>4, <2>1, 0 \in 0 .. n
  <1>6. /\ e \in [1 .. n + 1 -> Nat] /\ e[n + 1] = 1
        /\ \A i \in 1 .. n : e[i] = dims[i] * e[i + 1]
    BY ExtentNat
  <1>7. Product(dims) = e[1] /\ e[1] \in 0 .. Capacity
    <2>1. e[1] \in Nat
      BY <1>6, 1 \in 1 .. n + 1
    <2>2. Product(dims) = e[1]
      BY DEF Product
    <2> HIDE DEF e
    <2> QED
      BY <2>1, <2>2, ArraysAssumption
  <1>8. CASE Positive(n, dims)
    <2>1. \A i \in 1 .. n + 1 : e[i] \in 1 .. e[1]
      BY <1>7, <1>8, ExtentShrinks
    <2> HIDE DEF e
    <2> DEFINE Good == {k \in 0 .. n : length[k] \in Nat /\ length[k] * e[k + 1] = e[1]}
    <2>2. 0 \in Good
      BY <1>5, <1>6, <1>7
    <2>3. ASSUME NEW k \in 0 .. n - 1, k \in Good PROVE k + 1 \in Good
      <3> DEFINE a == length[k]  d == dims[k + 1]  r == e[(k + 1) + 1]
      <3>1. k + 1 \in 1 .. n /\ (k + 1) - 1 = k /\ (k + 1) + 1 \in 1 .. n + 1 /\ k + 1 \in 0 .. n
        OBVIOUS
      <3>2. a \in Nat /\ d \in Nat /\ r \in Nat /\ r >= 1
        BY <2>1, <2>3, <3>1, <1>6
      <3>3. a * e[k + 1] = e[1] /\ e[k + 1] = d * r
        BY <1>6, <2>3, <3>1
      <3>4. length[k + 1] = Wrap(a * d)
        BY <1>5, <3>1
      <3> HIDE DEF a, d, r
      <3>5. a * d \in Nat /\ (a * d) * r = e[1]
        BY <3>2, <3>3
      <3>6. a * d <= (a * d) * r
        <4> DEFINE p == a * d
        <4>1. p \in Nat
          BY <3>5
        <4> HIDE DEF p
        <4>2. p <= p * r
          BY <3>2, <4>1
        <4> QED
          BY <4>2 DEF p
      <3>7. a * d \in 0 .. Capacity
        <4> DEFINE p == a * d
        <4>1. p \in Nat /\ p <= e[1]
          BY <3>5, <3>6
        <4> HIDE DEF p
        <4>2. p \in 0 .. Capacity
          BY <1>7, <4>1, ArraysAssumption
        <4> QED
          BY <4>2 DEF p
      <3>8. length[k + 1] = a * d
        BY <3>4, <3>7, WrapKeeps
      <3> QED
        BY <3>1, <3>5, <3>8 DEF r
    <2> HIDE DEF Good
    <2>4. 0 .. n \subseteq Good
      BY <2>2, <2>3, UpTo
    <2>5. length[n] \in Nat /\ length[n] * e[n + 1] = e[1]
      BY <2>4, n \in 0 .. n DEF Good
    <2> QED
      BY <1>1, <1>6, <1>7, <2>5
  <1>9. CASE ~ Positive(n, dims)
    <2>1. PICK z \in 1 .. n : dims[z] = 0
      BY <1>9 DEF Positive
    <2> HIDE DEF e
    <2>2. e[1] = 0
      BY <1>7, <1>9, ExtentZero
    <2>3. Wrap(0) = 0
      BY WrapKeeps, ArraysAssumption, 0 \in 0 .. Capacity
    <2> DEFINE Good == {k \in 0 .. n : length[k] \in Int /\ (k >= z => length[k] = 0)}
    <2>4. 0 \in Good
      BY <1>5
    <2>5. ASSUME NEW k \in 0 .. n - 1, k \in Good PROVE k + 1 \in Good
      <3>1. k + 1 \in 1 .. n /\ (k + 1) - 1 = k /\ k + 1 \in 0 .. n
        OBVIOUS
      <3>2. length[k] \in Int /\ dims[k + 1] \in Nat /\ length[k + 1] = Wrap(length[k] * dims[k + 1])
        BY <1>5, <2>5, <3>1
      <3>3. length[k + 1] \in Int
        <4>1. length[k] * dims[k + 1] \in Int
          BY <3>2
        <4> QED
          BY <3>2, <4>1, WrapInt
      <3>4. ASSUME k + 1 >= z PROVE length[k + 1] = 0
        <4>1. length[k] * dims[k + 1] = 0
          <5>1. CASE k + 1 = z
            BY <2>1, <3>2, <5>1, SMTT(30)
          <5>2. CASE k + 1 # z
            <6>1. length[k] = 0
              BY <2>5, <3>4, <5>2
            <6> QED
              BY <3>2, <6>1
          <5> QED
            BY <5>1, <5>2
        <4> QED
          BY <2>3, <3>2, <4>1
      <3> QED
        BY <3>1, <3>3, <3>4
    <2> HIDE DEF Good
    <2>6. 0 .. n \subseteq Good
      BY <2>4, <2>5, UpTo
    <2>7. length[n] = 0
      BY <2>6, n \in 0 .. n, n >= z DEF Good
    <2> QED
      BY <1>1, <1>7, <2>2, <2>7
  <1> QED
    BY <1>8, <1>9

-----------------------------------------------------------------------------
(* Division.                                                               *)

LEMMA TimesLess ==
  ASSUME NEW p \in Nat, NEW a \in Nat, NEW b \in Nat, a < b
  PROVE  a * p + p <= b * p
  <1>1. PICK c \in Nat : b = a + 1 + c
    BY b - a - 1 \in Nat, b = a + 1 + (b - a - 1)
  <1>2. b * p = a * p + p + c * p
    BY <1>1
  <1>3. c * p \in Nat /\ a * p \in Nat
    OBVIOUS
  <1> QED
    BY <1>2, <1>3

LEMMA Divided ==
  ASSUME NEW p \in Nat \ {0}, NEW x \in Nat
  PROVE  /\ x \div p \in Nat /\ x % p \in 0 .. p - 1
         /\ x = (x \div p) * p + (x % p)
         /\ \A d \in Nat : x < d * p => x \div p < d
  <1> DEFINE q == x \div p  r == x % p
  <1>1. q \in Nat /\ r \in 0 .. p - 1 /\ x = q * p + r
    OBVIOUS
  <1> HIDE DEF q, r
  <1>2. ASSUME NEW d \in Nat, x < d * p PROVE q < d
    <2>1. q * p \in Nat /\ d * p \in Nat
      BY <1>1
    <2>2. q * p < d * p
      BY <1>1, <1>2, <2>1
    <2>3. ~ (d < q)
      <3>1. ASSUME d < q PROVE FALSE
        <4>1. d * p + p <= q * p
          BY <1>1, <3>1, TimesLess
        <4> QED
          BY <2>1, <2>2, <4>1
      <3> QED
        BY <3>1
    <2>4. q # d
      BY <2>1, <2>2
    <2> QED
      BY <1>1, <2>3, <2>4
  <1> QED
    BY <1>1, <1>2 DEF q, r

\* Quotient and remainder are unique.
LEMMA DividedOnce ==
  ASSUME NEW p \in Nat, NEW a \in Nat, NEW b \in Nat, NEW r \in 0 .. p - 1, NEW t \in 0 .. p - 1,
         a * p + r = b * p + t
  PROVE  a = b /\ r = t
  <1>1. a * p \in Nat /\ b * p \in Nat
    OBVIOUS
  <1>2. ~ (a < b)
    <2>1. ASSUME a < b PROVE FALSE
      <3>1. a * p + p <= b * p
        BY <2>1, TimesLess
      <3> QED
        BY <1>1, <3>1
    <2> QED
      BY <2>1
  <1>3. ~ (b < a)
    <2>1. ASSUME b < a PROVE FALSE
      <3>1. b * p + p <= a * p
        BY <2>1, TimesLess
      <3> QED
        BY <1>1, <3>1
    <2> QED
      BY <2>1
  <1>4. a = b
    BY <1>2, <1>3
  <1> QED
    BY <1>1, <1>4

\* What is left of what is left.
LEMMA RemainderTwice ==
  ASSUME NEW p \in Nat \ {0}, NEW d \in Nat \ {0}, NEW x \in Nat
  PROVE  (x % (d * p)) % p = x % p
  <1> DEFINE u == x % (d * p)  q == x \div (d * p)  a == u \div p
  <1>1. d * p \in Nat \ {0}
    BY TimesNat
  <1>2. q \in Nat /\ u \in Nat /\ x = q * (d * p) + u
    <2> DEFINE m == d * p
    <2>1. m \in Nat \ {0}
      BY <1>1
    <2> HIDE DEF m
    <2>2. x \div m \in Nat /\ x % m \in 0 .. m - 1 /\ x = (x \div m) * m + (x % m)
      BY <2>1, Divided
    <2>3. x % m \in Nat
      BY <2>1, <2>2
    <2> QED
      BY <2>2, <2>3 DEF m
  <1> HIDE DEF u, q
  <1>3. a \in Nat /\ u % p \in 0 .. p - 1 /\ u = a * p + (u % p)
    BY <1>2, Divided
  <1> HIDE DEF a
  <1>4. x \div p \in Nat /\ x % p \in 0 .. p - 1 /\ x = (x \div p) * p + (x % p)
    BY Divided
  <1>5. q * d + a \in Nat /\ q * (d * p) + a * p = (q * d + a) * p
    <2>1. q * d \in Nat
      BY <1>2
    <2> QED
      BY <1>2, <1>3, <2>1
  <1>6. q * (d * p) \in Nat /\ a * p \in Nat
    <2>1. \A i, j \in Nat : i * j \in Nat
      OBVIOUS
    <2> QED
      BY <1>1, <1>2, <1>3, <2>1
  <1>7. x = (q * d + a) * p + (u % p)
    <2> DEFINE m == q * (d * p)  k == a * p  w == (q * d + a) * p  v == u % p
    <2>1. m \in Nat /\ k \in Nat /\ v \in Nat
      BY <1>3, <1>6
    <2>2. x = m + u /\ u = k + v /\ m + k = w
      BY <1>2, <1>3, <1>5
    <2> HIDE DEF m, k, w, v
    <2>3. x = w + v
      BY <2>1, <2>2
    <2> QED
      BY <2>3 DEF w, v
  <1>8. (q * d + a) * p + (u % p) = (x \div p) * p + (x % p)
    BY <1>4, <1>7
  <1>9. u % p = x % p
    <2> DEFINE k == q * d + a  l == x \div p  r == u % p  t == x % p
    <2>1. k \in Nat /\ l \in Nat
      BY <1>4, <1>5
    <2>2. r \in 0 .. p - 1 /\ t \in 0 .. p - 1
      BY <1>3, <1>4
    <2>3. k * p + r = l * p + t
      BY <1>8
    <2> HIDE DEF k, l, r, t
    <2>4. r = t
      BY <2>1, <2>2, <2>3, p \in Nat, DividedOnce
    <2> QED
      BY <2>4 DEF r, t
  <1> QED
    BY <1>9 DEF u

-----------------------------------------------------------------------------
(* Indices.                                                                *)

InBounds(n, dims) == {s \in [1 .. n -> Int] : \A i \in 1 .. n : 0 <= s[i] /\ s[i] < dims[i]}
Terms(n, dims, s) == [i \in 1 .. n |-> s[i] * Extent(dims)[i + 1]]

\* The element that a full list of indices stands for, and the part of the
\* array it is in, from each dimension on.
Inside(n, dims, s) == Sums(Terms(n, dims, s))

LEMMA InsidePart ==
  ASSUME NEW n \in Nat, NEW dims \in [1 .. n -> Nat], NEW s \in [1 .. n -> Int]
  PROVE  /\ Terms(n, dims, s) \in [1 .. n -> Int]
         /\ Inside(n, dims, s) \in [1 .. n + 1 -> Int]
         /\ Inside(n, dims, s)[n + 1] = 0
         /\ \A i \in 1 .. n : Inside(n, dims, s)[i] = s[i] * Extent(dims)[i + 1] + Inside(n, dims, s)[i + 1]
  <1> DEFINE t == Terms(n, dims, s)  e == Extent(dims)
  <1>1. e \in [1 .. n + 1 -> Nat]
    BY ExtentNat
  <1> HIDE DEF e
  <1>2. ASSUME NEW i \in 1 .. n PROVE s[i] * e[i + 1] \in Int
    <2>1. s[i] \in Int /\ e[i + 1] \in Int
      BY <1>1, i + 1 \in 1 .. n + 1
    <2> QED
      BY <2>1
  <1>3. t \in [1 .. n -> Int] /\ \A i \in 1 .. n : t[i] = s[i] * e[i + 1]
    BY <1>2 DEF Terms, e
  <1> HIDE DEF t
  <1>4. /\ Sums(t) \in [1 .. n + 1 -> Int]
        /\ Sums(t)[n + 1] = 0
        /\ \A i \in 1 .. n : Sums(t)[i] = t[i] + Sums(t)[i + 1]
    BY <1>3, SumsIs
  <1> QED
    BY <1>3, <1>4 DEF Inside, t, e

LEMMA BoundsPositive ==
  ASSUME NEW n \in Nat, NEW dims \in [1 .. n -> Nat], NEW s \in InBounds(n, dims)
  PROVE  Positive(n, dims) /\ s \in [1 .. n -> Int] /\ s \in [1 .. n -> Nat]
  <1>1. s \in [1 .. n -> Int] /\ \A i \in 1 .. n : s[i] \in Nat /\ 0 <= s[i] /\ s[i] < dims[i] /\ dims[i] \in Nat
    BY DEF InBounds
  <1>2. \A i \in 1 .. n : dims[i] >= 1
    BY <1>1
  <1> QED
    BY <1>1, <1>2 DEF Positive

LEMMA InsideBounds ==
  ASSUME NEW n \in Nat, NEW dims \in [1 .. n -> Nat], NEW s \in InBounds(n, dims)
  PROVE  \A i \in 1 .. n + 1 : Inside(n, dims, s)[i] \in 0 .. Extent(dims)[i] - 1
  <1> DEFINE e == Extent(dims)  r == Inside(n, dims, s)
  <1>1. s \in [1 .. n -> Int] /\ s \in [1 .. n -> Nat]
    BY BoundsPositive
  <1>2. r \in [1 .. n + 1 -> Int] /\ r[n + 1] = 0 /\ \A i \in 1 .. n : r[i] = s[i] * e[i + 1] + r[i + 1]
    BY <1>1, InsidePart
  <1>3. e \in [1 .. n + 1 -> Nat] /\ e[n + 1] = 1 /\ \A i \in 1 .. n : e[i] = dims[i] * e[i + 1]
    BY ExtentNat
  <1> HIDE DEF e, r
  <1> DEFINE Good == {i \in 1 .. n + 1 : r[i] \in 0 .. e[i] - 1}
  <1>4. n + 1 \in Good
    BY <1>2, <1>3
  <1>5. ASSUME NEW i \in 1 .. n, i + 1 \in Good PROVE i \in Good
    <2> DEFINE p == e[i + 1]  t == r[i + 1]  a == s[i]  d == dims[i]
    <2>1. p \in Nat /\ t \in 0 .. p - 1 /\ a \in Nat /\ d \in Nat /\ a < d /\ i \in 1 .. n + 1
      BY <1>1, <1>3, <1>5, SMTT(30) DEF InBounds
    <2>2. r[i] = a * p + t /\ e[i] = d * p
      BY <1>2, <1>3
    <2> HIDE DEF p, t, a, d
    <2>3. a * p + p <= d * p /\ a * p \in Nat /\ d * p \in Nat
      BY <2>1, TimesLess
    <2>4. a * p + t \in 0 .. d * p - 1
      BY <2>1, <2>3
    <2> QED
      BY <2>1, <2>2, <2>4
  <1> HIDE DEF Good
  <1>6. 1 .. n + 1 \subseteq Good
    BY <1>4, <1>5, DownTo
  <1> QED
    BY <1>6 DEF Good, e, r

\* No two lists of indices stand for one element.
LEMMA InsideOnce ==
  ASSUME NEW n \in Nat, NEW dims \in [1 .. n -> Nat],
         NEW s \in InBounds(n, dims), NEW t \in InBounds(n, dims),
         Inside(n, dims, s)[1] = Inside(n, dims, t)[1]
  PROVE  s = t
  <1> DEFINE e == Extent(dims)  r == Inside(n, dims, s)  u == Inside(n, dims, t)
  <1>1. s \in [1 .. n -> Int] /\ t \in [1 .. n -> Int] /\ s \in [1 .. n -> Nat] /\ t \in [1 .. n -> Nat]
    BY BoundsPositive
  <1>2. /\ \A i \in 1 .. n : r[i] = s[i] * e[i + 1] + r[i + 1]
        /\ \A i \in 1 .. n : u[i] = t[i] * e[i + 1] + u[i + 1]
    BY <1>1, InsidePart
  <1>3. \A i \in 1 .. n + 1 : r[i] \in 0 .. e[i] - 1 /\ u[i] \in 0 .. e[i] - 1
    BY InsideBounds
  <1>4. e \in [1 .. n + 1 -> Nat] /\ r[1] = u[1]
    BY ExtentNat
  <1> HIDE DEF e, r, u
  <1>5. ASSUME NEW i \in 1 .. n, r[i] = u[i] PROVE s[i] = t[i] /\ r[i + 1] = u[i + 1]
    <2> DEFINE p == e[i + 1]  x == r[i + 1]  y == u[i + 1]  a == s[i]  b == t[i]
    <2>1. i + 1 \in 1 .. n + 1
      OBVIOUS
    <2>2. p \in Nat /\ x \in 0 .. p - 1 /\ y \in 0 .. p - 1 /\ a \in Nat /\ b \in Nat
      BY <1>1, <1>3, <1>4, <2>1
    <2>3. a * p + x = b * p + y
      BY <1>2, <1>5
    <2> HIDE DEF p, x, y, a, b
    <2>4. a = b /\ x = y
      BY <2>2, <2>3, DividedOnce
    <2> QED
      BY <2>4 DEF x, y, a, b
  <1> DEFINE Good == {k \in 0 .. n : r[k + 1] = u[k + 1]}
  <1>6. 0 \in Good
    BY <1>4
  <1>7. ASSUME NEW k \in 0 .. n - 1, k \in Good PROVE k + 1 \in Good
    <2>1. k + 1 \in 1 .. n /\ k + 1 \in 0 .. n
      OBVIOUS
    <2>2. r[(k + 1) + 1] = u[(k + 1) + 1]
      BY <1>5, <1>7, <2>1
    <2> QED
      BY <2>1, <2>2
  <1> HIDE DEF Good
  <1>8. 0 .. n \subseteq Good
    BY <1>6, <1>7, UpTo
  <1>9. ASSUME NEW i \in 1 .. n PROVE s[i] = t[i]
    <2>1. i - 1 \in 0 .. n /\ (i - 1) + 1 = i
      OBVIOUS
    <2>2. r[i] = u[i]
      BY <1>8, <2>1 DEF Good
    <2> QED
      BY <1>5, <2>2
  <1> QED
    BY <1>1, <1>9

\* Every element has a list of indices.
LEMMA InsideAll ==
  ASSUME NEW n \in Nat, NEW dims \in [1 .. n -> Nat], Positive(n, dims), NEW x \in 0 .. Product(dims) - 1
  PROVE  \E s \in InBounds(n, dims) : Inside(n, dims, s)[1] = x
  <1> DEFINE e == Extent(dims)
             s == [i \in 1 .. n |-> (x % e[i]) \div e[i + 1]]
             r == Inside(n, dims, s)
  <1>1. e \in [1 .. n + 1 -> Nat] /\ e[n + 1] = 1 /\ \A i \in 1 .. n : e[i] = dims[i] * e[i + 1]
    BY ExtentNat
  <1>2. \A i \in 1 .. n + 1 : e[i] \in 1 .. Product(dims)
    BY ExtentShrinks
  <1>3. Product(dims) = e[1]
    BY DEF Product
  <1> HIDE DEF e
  <1>4. \A i \in 1 .. n + 1 : e[i] \in Nat \ {0}
    BY <1>1, <1>2
  <1>5. x \in Nat
    BY <1>3, <1>4
  <1>6. ASSUME NEW i \in 1 .. n
        PROVE  /\ s[i] \in Nat /\ s[i] < dims[i]
               /\ x % e[i] = s[i] * e[i + 1] + (x % e[i + 1])
    <2> DEFINE p == e[i + 1]  d == dims[i]  u == x % e[i]
    <2>1. i + 1 \in 1 .. n + 1 /\ i \in 1 .. n + 1
      OBVIOUS
    <2>2. p \in Nat \ {0} /\ d \in Nat \ {0} /\ e[i] = d * p /\ e[i] \in Nat \ {0}
      BY <1>1, <1>4, <2>1 DEF Positive
    <2>3. u \in 0 .. e[i] - 1
      BY <1>5, <2>2, Divided
    <2>4. u % p = x % p
      <3> HIDE DEF p, d
      <3>1. (x % (d * p)) % p = x % p
        BY <1>5, <2>2, RemainderTwice
      <3> QED
        BY <2>2, <3>1
    <2>5. u \in Nat /\ u < d * p
      BY <2>2, <2>3
    <2>6. s[i] = u \div p
      OBVIOUS
    <2> HIDE DEF p, d, u, s
    <2>7. u \div p \in Nat /\ u = (u \div p) * p + (u % p) /\ u \div p < d
      BY <2>2, <2>5, Divided
    <2>8. u = s[i] * p + (x % p) /\ s[i] \in Nat /\ s[i] < d
      BY <2>4, <2>6, <2>7
    <2> QED
      BY <2>8 DEF p, d, u
  <1>7. s \in [1 .. n -> Int]
    BY <1>6
  <1>8. s \in InBounds(n, dims)
    <2>1. \A i \in 1 .. n : 0 <= s[i] /\ s[i] < dims[i]
      BY <1>6
    <2> QED
      BY <1>7, <2>1 DEF InBounds
  <1> HIDE DEF s
  <1>9. r \in [1 .. n + 1 -> Int] /\ r[n + 1] = 0 /\ \A i \in 1 .. n : r[i] = s[i] * e[i + 1] + r[i + 1]
    BY <1>7, InsidePart DEF e
  <1> HIDE DEF r
  <1> DEFINE Good == {i \in 1 .. n + 1 : r[i] = x % e[i]}
  <1>10. n + 1 \in Good
    BY <1>1, <1>5, <1>9, x % 1 = 0
  <1>11. ASSUME NEW i \in 1 .. n, i + 1 \in Good PROVE i \in Good
    <2>1. r[i] = s[i] * e[i + 1] + r[i + 1] /\ x % e[i] = s[i] * e[i + 1] + (x % e[i + 1])
      BY <1>6, <1>9
    <2>2. r[i + 1] = x % e[i + 1]
      BY <1>11
    <2>3. i \in 1 .. n + 1
      OBVIOUS
    <2>4. r[i] = x % e[i]
      BY <2>1, <2>2
    <2> HIDE DEF e
    <2> QED
      BY <2>3, <2>4
  <1> HIDE DEF Good
  <1>12. 1 .. n + 1 \subseteq Good
    BY <1>10, <1>11, DownTo
  <1>13. r[1] = x % e[1]
    BY <1>12, 1 \in 1 .. n + 1 DEF Good
  <1>14. x % e[1] = x
    <2> DEFINE p == e[1]
    <2>1. p \in Nat \ {0} /\ x \in 0 .. p - 1
      BY <1>3, <1>4, 1 \in 1 .. n + 1
    <2> HIDE DEF p
    <2>2. x % p = x
      BY <2>1
    <2> QED
      BY <2>2 DEF p
  <1>15. r[1] = x
    BY <1>13, <1>14
  <1> QED
    BY <1>8, <1>15 DEF r

\* Sums with nothing but zeros after some position.
Longer(m, n, t, u) ==
  /\ \A i \in 1 .. m : u[i] = t[i]
  /\ \A i \in 1 .. n : i > m => u[i] = 0

LEMMA SumsPadded ==
  ASSUME NEW m \in Nat, NEW n \in Nat, m <= n,
         NEW t \in [1 .. m -> Int], NEW u \in [1 .. n -> Int], Longer(m, n, t, u)
  PROVE  Total(u) = Total(t)
  <1> USE DEF Longer
  <1> DEFINE a == Sums(t)  b == Sums(u)
  <1>1. a \in [1 .. m + 1 -> Int] /\ a[m + 1] = 0 /\ \A i \in 1 .. m : a[i] = t[i] + a[i + 1]
    BY SumsIs
  <1>2. b \in [1 .. n + 1 -> Int] /\ b[n + 1] = 0 /\ \A i \in 1 .. n : b[i] = u[i] + b[i + 1]
    BY SumsIs
  <1> HIDE DEF a, b
  <1> DEFINE Good == {i \in 1 .. n + 1 : b[i] = IF i <= m THEN a[i] ELSE 0}
  <1>3. n + 1 \in Good
    BY <1>2
  <1>4. ASSUME NEW i \in 1 .. n, i + 1 \in Good PROVE i \in Good
    <2>1. i \in 1 .. n + 1 /\ b[i] = u[i] + b[i + 1] /\ b[i + 1] = IF i + 1 <= m THEN a[i + 1] ELSE 0
      BY <1>2, <1>4
    <2>2. CASE i > m
      <3>1. u[i] = 0 /\ b[i + 1] = 0
        BY <2>1, <2>2
      <3> QED
        BY <2>1, <2>2, <3>1
    <2>3. CASE i = m
      <3>1. u[i] = t[i] /\ b[i + 1] = 0 /\ i \in 1 .. m
        BY <2>1, <2>3
      <3>2. a[i] = t[i] + a[i + 1] /\ a[i + 1] = 0
        BY <1>1, <2>3, <3>1
      <3> QED
        BY <2>1, <2>3, <3>1, <3>2
    <2>4. CASE i < m
      <3>1. u[i] = t[i] /\ b[i + 1] = a[i + 1] /\ i \in 1 .. m
        BY <2>1, <2>4
      <3>2. a[i] = t[i] + a[i + 1]
        BY <1>1, <3>1
      <3> QED
        BY <2>1, <2>4, <3>1, <3>2
    <2> QED
      BY <2>2, <2>3, <2>4
  <1> HIDE DEF Good
  <1>5. 1 .. n + 1 \subseteq Good
    BY <1>3, <1>4, DownTo
  <1>6. b[1] = IF 1 <= m THEN a[1] ELSE 0
    BY <1>5, 1 \in 1 .. n + 1 DEF Good
  <1>7. b[1] = a[1]
    BY <1>1, <1>6
  <1> QED
    BY <1>7 DEF Total, a, b

-----------------------------------------------------------------------------
(* Access to an array of given dimensions.                                 *)

ArrayOf(dims) == [d |-> Listed(dims), length |-> Product(dims)]

\* A shorter list of indices, padded with zeros.
Padded(m, n, s) == [i \in 1 .. n |-> IF i <= m THEN s[i] ELSE 0]

LEMMA AtShort ==
  ASSUME NEW n \in Nat, NEW dims \in [1 .. n -> Nat], NEW m \in 0 .. n, NEW s \in [1 .. m -> Int]
  PROVE  at(ArrayOf(dims), s) =
            IF \E i \in 1 .. m : s[i] < 0 \/ s[i] >= dims[i] THEN Error
            ELSE Wrap(Total([i \in 1 .. m |-> s[i] * fillOffsets(dims)[i]]))
  <1>1. Len(dims) = n /\ Len(s) = m /\ DOMAIN s = 1 .. m
    BY LengthIs
  <1>2. ~ (m > n)
    OBVIOUS
  <1> QED
    BY <1>1, <1>2 DEF at, getIndexChecked, getIndex, rank, ArrayOf, Listed

LEMMA AtPositive ==
  ASSUME NEW n \in Nat, NEW dims \in [1 .. n -> Nat], Positive(n, dims), Product(dims) <= Capacity,
         NEW m \in 0 .. n, NEW s \in [1 .. m -> Int],
         ~ \E i \in 1 .. m : s[i] < 0 \/ s[i] >= dims[i]
  PROVE  /\ Padded(m, n, s) \in InBounds(n, dims)
         /\ at(ArrayOf(dims), s) = Inside(n, dims, Padded(m, n, s))[1]
         /\ at(ArrayOf(dims), s) \in 0 .. Product(dims) - 1
  <1> DEFINE e == Extent(dims)
             p == Padded(m, n, s)
             t == [i \in 1 .. m |-> s[i] * fillOffsets(dims)[i]]
             u == Terms(n, dims, p)
  <1>1. e \in [1 .. n + 1 -> Nat]
    BY ExtentNat
  <1>2. \A i \in 1 .. m : i \in 1 .. n /\ i + 1 \in 1 .. n + 1 /\ s[i] \in Int /\ dims[i] \in Nat
    OBVIOUS
  <1>3. p \in [1 .. n -> Int]
    BY DEF Padded
  <1>4. p \in InBounds(n, dims)
    <2>1. \A i \in 1 .. n : p[i] = (IF i <= m THEN s[i] ELSE 0) /\ (i <= m => i \in 1 .. m) /\ dims[i] \in Nat
      BY DEF Padded
    <2>2. \A i \in 1 .. n : dims[i] >= 1
      BY DEF Positive
    <2>3. \A i \in 1 .. m : 0 <= s[i] /\ s[i] < dims[i]
      BY <1>2
    <2>4. \A i \in 1 .. n : 0 <= p[i] /\ p[i] < dims[i]
      <3> HIDE DEF p
      <3> QED
        BY <2>1, <2>2, <2>3
    <2> HIDE DEF p
    <2> QED
      BY <1>3, <2>4 DEF InBounds
  <1>5. \A i \in 1 .. m : fillOffsets(dims)[i] = e[i + 1]
    BY <1>2, OffsetsRight
  <1>6. \A i \in 1 .. m : t[i] = s[i] * e[i + 1] /\ s[i] * e[i + 1] \in Int
    <2>1. \A i \in 1 .. m : e[i + 1] \in Int
      BY <1>1, <1>2
    <2> HIDE DEF e
    <2> QED
      BY <1>2, <1>5, <2>1
  <1>7. u \in [1 .. n -> Int]
    BY <1>3, InsidePart
  <1>8. \A i \in 1 .. n : u[i] = p[i] * e[i + 1]
    BY DEF Terms
  <1>9. \A i \in 1 .. n : u[i] = IF i <= m THEN t[i] ELSE 0
    <2>1. ASSUME NEW i \in 1 .. n PROVE u[i] = IF i <= m THEN t[i] ELSE 0
      <3>1. e[i + 1] \in Nat /\ (i <= m => i \in 1 .. m)
        BY <1>1, i + 1 \in 1 .. n + 1
      <3>2. p[i] = IF i <= m THEN s[i] ELSE 0
        BY DEF Padded
      <3> HIDE DEF e, p, t, u
      <3> QED
        BY <1>6, <1>8, <3>1, <3>2
    <2> QED
      BY <2>1
  <1>10. t \in [1 .. m -> Int]
    <2> HIDE DEF e
    <2>1. \A i \in 1 .. m : t[i] \in Int
      BY <1>6
    <2> QED
      BY <2>1
  <1>11. Total(u) = Total(t)
    <2> HIDE DEF t, u
    <2>1. m \in Nat /\ m <= n
      OBVIOUS
    <2>2. \A i \in 1 .. m : u[i] = t[i]
      BY <1>2, <1>9
    <2>3. \A i \in 1 .. n : i > m => u[i] = 0
      BY <1>9, <2>1
    <2>4. Longer(m, n, t, u)
      BY <2>2, <2>3 DEF Longer
    <2> QED
      BY <1>7, <1>10, <2>1, <2>4, SumsPadded, ZenonT(30)
  <1>12. Inside(n, dims, p)[1] = Total(t)
    BY <1>11 DEF Inside, Total
  <1>13. Inside(n, dims, p)[1] \in 0 .. Product(dims) - 1
    <2> HIDE DEF p
    <2> QED
      BY <1>4, InsideBounds, 1 \in 1 .. n + 1 DEF Product
  <1>14. Product(dims) \in Nat /\ Capacity \in Nat
    BY <1>1, 1 \in 1 .. n + 1, ArraysAssumption DEF Product
  <1>15. Inside(n, dims, p)[1] \in 0 .. Capacity
    <2> DEFINE x == Inside(n, dims, p)[1]  c == Product(dims)
    <2>1. x \in 0 .. c - 1 /\ c \in Nat /\ c <= Capacity /\ Capacity \in Nat
      BY <1>13, <1>14
    <2> HIDE DEF x, c
    <2>2. x \in 0 .. Capacity
      BY <2>1
    <2> QED
      BY <2>2 DEF x
  <1>16. at(ArrayOf(dims), s) = Wrap(Total(t))
    BY AtShort
  <1>17. Wrap(Total(t)) = Total(t)
    <2> HIDE DEF t
    <2>1. Total(t) \in 0 .. Capacity
      BY <1>12, <1>15
    <2> QED
      BY <2>1, WrapKeeps
  <1> QED
    BY <1>4, <1>12, <1>13, <1>16, <1>17

\* Full lists of indices need no padding.
LEMMA PaddedFull ==
  ASSUME NEW n \in Nat, NEW s \in [1 .. n -> Int]
  PROVE  Padded(n, n, s) = s
  BY DEF Padded

\* What a conforming array's accesses accept, and where they lead.
LEMMA AcceptedFull ==
  ASSUME NEW n \in Nat, NEW dims \in [1 .. n -> Nat], Product(dims) <= Capacity
  PROVE  /\ Accepted(ArrayOf(dims), n) = InBounds(n, dims)
         /\ \A s \in InBounds(n, dims) : at(ArrayOf(dims), s) = Inside(n, dims, s)[1]
  <1> DEFINE a == ArrayOf(dims)
  <1>1. n \in 0 .. n
    OBVIOUS
  <1>2. ASSUME NEW s \in InBounds(n, dims)
        PROVE  /\ at(a, s) = Inside(n, dims, s)[1] /\ at(a, s) # Error
               /\ s \in [1 .. n -> -1 .. Capacity]
    <2>1. Positive(n, dims) /\ s \in [1 .. n -> Int]
      BY BoundsPositive
    <2>2. \A i \in 1 .. n : 0 <= s[i] /\ s[i] < dims[i] /\ s[i] \in Int
      BY DEF InBounds
    <2>3. ~ \E i \in 1 .. n : s[i] < 0 \/ s[i] >= dims[i]
      BY <2>2
    <2>4. Padded(n, n, s) = s
      BY <2>1, PaddedFull
    <2>5. at(a, s) = Inside(n, dims, Padded(n, n, s))[1] /\ at(a, s) \in 0 .. Product(dims) - 1
      BY <1>1, <2>1, <2>3, AtPositive
    <2>6. at(a, s) \in Int
      BY <2>5
    <2>7. \A i \in 1 .. n : dims[i] \in 1 .. Product(dims)
      BY <2>1, ExtentShrinks
    <2>8. Product(dims) \in Int /\ Capacity \in Int
      BY ExtentNat, 1 \in 1 .. n + 1, ArraysAssumption DEF Product
    <2>9. \A i \in 1 .. n : s[i] \in -1 .. Capacity
      <3> DEFINE c == Product(dims)
      <3> HIDE DEF c
      <3>1. c \in Int /\ c <= Capacity /\ \A i \in 1 .. n : dims[i] \in 1 .. c
        BY <2>7, <2>8 DEF c
      <3> QED
        BY <2>2, <2>8, <3>1
    <2> QED
      BY <2>1, <2>4, <2>5, <2>6, <2>9, ArraysAssumption
  <1>3. ASSUME NEW s \in [1 .. n -> -1 .. Capacity], at(a, s) # Error PROVE s \in InBounds(n, dims)
    <2>1. s \in [1 .. n -> Int]
      BY ArraysAssumption
    <2>2. ~ \E i \in 1 .. n : s[i] < 0 \/ s[i] >= dims[i]
      BY <1>1, <1>3, <2>1, AtShort
    <2>3. \A i \in 1 .. n : 0 <= s[i] /\ s[i] < dims[i]
      <3>1. \A i \in 1 .. n : s[i] \in Int /\ dims[i] \in Int
        BY <2>1
      <3> QED
        BY <2>2, <3>1
    <2> QED
      BY <2>1, <2>3 DEF InBounds
  <1> HIDE DEF a
  <1>4. Accepted(a, n) = InBounds(n, dims)
    BY <1>2, <1>3 DEF Accepted
  <1> QED
    BY <1>2, <1>4 DEF a

\* A list of indices followed by zeros.
LEMMA WithZeros ==
  ASSUME NEW n \in Nat, NEW m \in 0 .. n, NEW s \in [1 .. m -> Int]
  PROVE  s \o [i \in 1 .. n - m |-> 0] = Padded(m, n, s)
  <1> DEFINE z == [i \in 1 .. n - m |-> 0]  p == Padded(m, n, s)
  <1>1. n - m \in Nat /\ m \in Nat /\ z \in [1 .. n - m -> Int]
    OBVIOUS
  <1>2. p \in [1 .. n -> Int] /\ \A i \in 1 .. n : p[i] = IF i <= m THEN s[i] ELSE 0
    BY DEF Padded
  <1>3. \A i \in 1 .. n - m : z[i] = 0
    OBVIOUS
  <1> HIDE DEF z, p
  <1>4. s \in Seq(Int) /\ Len(s) = m /\ z \in Seq(Int) /\ Len(z) = n - m
    BY <1>1, LengthIs
  <1>5. /\ s \o z \in Seq(Int) /\ Len(s \o z) = n
        /\ \A i \in 1 .. n : (s \o z)[i] = IF i <= m THEN s[i] ELSE z[i - m]
    <2>1. m + (n - m) = n
      BY <1>1
    <2>2. /\ s \o z \in Seq(Int) /\ Len(s \o z) = Len(s) + Len(z)
          /\ \A i \in 1 .. Len(s) + Len(z) : (s \o z)[i] = IF i <= Len(s) THEN s[i] ELSE z[i - Len(s)]
      BY <1>4, ConcatProperties
    <2>3. Len(s) + Len(z) = n
      BY <1>4, <2>1
    <2> QED
      BY <1>4, <2>2, <2>3
  <1>6. p \in Seq(Int) /\ Len(p) = n
    BY <1>2, LengthIs
  <1>7. ASSUME NEW i \in 1 .. n PROVE (s \o z)[i] = p[i]
    <2>1. ~ (i <= m) => i - m \in 1 .. n - m
      BY <1>1
    <2> QED
      BY <1>2, <1>3, <1>5, <2>1
  <1>8. s \o z = p
    BY <1>5, <1>6, <1>7, SeqEqual
  <1> QED
    BY <1>8 DEF z, p

\* AccessSound holds of every array the kernel can make.
LEMMA AccessHolds ==
  ASSUME NEW n \in Nat, NEW dims \in [1 .. n -> Nat], Product(dims) <= Capacity
  PROVE  AccessSound(ArrayOf(dims))
  <1> DEFINE a == ArrayOf(dims)  c == Product(dims)
  <1>1. c \in Nat /\ Capacity \in Nat
    BY ExtentNat, 1 \in 1 .. n + 1, ArraysAssumption DEF Product
  <1>2. /\ a.length = c /\ a.d.dims = dims /\ a.d.flattenedLength = totalLengthFromDims(dims)
        /\ Len(dims) = n /\ rank(a.d) = n
    BY LengthIs DEF ArrayOf, Listed, rank
  <1>3. a.d.flattenedLength = a.length
    BY <1>2, LengthRight
  <1>4. /\ Accepted(a, n) = InBounds(n, dims)
        /\ \A s \in InBounds(n, dims) : at(a, s) = Inside(n, dims, s)[1]
    BY AcceptedFull
  <1> HIDE DEF a, c
  <1>5. ASSUME NEW i \in -1 .. Capacity + 1
        PROVE  getFlatIndexChecked(a.d, i) # Error <=> i \in 0 .. a.length - 1
    <2>1. i \in Int /\ i # Error
      BY <1>1, ArraysAssumption
    <2> QED
      BY <1>1, <1>2, <1>3, <2>1 DEF getFlatIndexChecked
  <1>6. \A s \in InBounds(n, dims) : Inside(n, dims, s)[1] \in 0 .. c - 1
    BY InsideBounds, 1 \in 1 .. n + 1 DEF c, Product
  <1>7. \A x \in 0 .. c - 1 : \E s \in InBounds(n, dims) : Inside(n, dims, s)[1] = x
    <2>1. CASE Positive(n, dims)
      BY <2>1, InsideAll DEF c
    <2>2. CASE ~ Positive(n, dims)
      <3>1. c = 0
        BY <2>2, ExtentZero DEF c
      <3> QED
        BY <3>1
    <2> QED
      BY <2>1, <2>2
  <1>8. {at(a, s) : s \in Accepted(a, rank(a.d))} = 0 .. a.length - 1
    <2>1. {Inside(n, dims, s)[1] : s \in InBounds(n, dims)} = 0 .. c - 1
      BY <1>6, <1>7
    <2>2. {at(a, s) : s \in InBounds(n, dims)} = {Inside(n, dims, s)[1] : s \in InBounds(n, dims)}
      BY <1>4
    <2> QED
      BY <1>2, <1>4, <2>1, <2>2
  <1>9. Cardinality(Accepted(a, rank(a.d))) = a.length
    <2> DEFINE S == 0 .. c - 1  T == InBounds(n, dims)
               f == [x \in S |-> CHOOSE s \in T : Inside(n, dims, s)[1] = x]
    <2>1. ASSUME NEW x \in S PROVE f[x] \in T /\ Inside(n, dims, f[x])[1] = x
      BY <1>7
    <2>2. f \in [S -> T]
      BY <2>1
    <2>3. ASSUME NEW x \in S, NEW y \in S, f[x] = f[y] PROVE x = y
      <3> HIDE DEF f
      <3> QED
        BY <2>1, <2>3
    <2>4. ASSUME NEW s \in T PROVE \E x \in S : f[x] = s
      <3> DEFINE x == Inside(n, dims, s)[1]
      <3>1. x \in S
        BY <1>6
      <3>2. f[x] \in T /\ Inside(n, dims, f[x])[1] = Inside(n, dims, s)[1]
        BY <2>1, <3>1
      <3> HIDE DEF f, x
      <3>3. f[x] = s
        BY <3>2, InsideOnce
      <3> QED
        BY <3>1, <3>3
    <2> HIDE DEF f
    <2>5. f \in Bijection(S, T)
      <3> HIDE DEF S, T
      <3>1. f \in Injection(S, T)
        BY <2>2, <2>3 DEF Injection, IsInjective
      <3>2. f \in Surjection(S, T)
        BY <2>2, <2>4 DEF Surjection
      <3> QED
        BY <3>1, <3>2 DEF Bijection
    <2>6. ExistsBijection(S, T)
      BY <2>5 DEF ExistsBijection
    <2>7. IsFiniteSet(S) /\ Cardinality(S) = c
      <3>1. 0 \in Int /\ c - 1 \in Int
        BY <1>1
      <3>2. IsFiniteSet(S) /\ Cardinality(S) = IF 0 > c - 1 THEN 0 ELSE c - 1 - 0 + 1
        BY <3>1, FS_Interval
      <3> QED
        BY <1>1, <3>2
    <2>8. Cardinality(T) = c
      <3> HIDE DEF S, T
      <3> QED
        BY <2>6, <2>7, FS_Bijection
    <2> QED
      BY <1>2, <1>4, <2>8
  <1>10. Accepted(a, rank(a.d) + 1) = {}
    <2>1. ASSUME NEW s \in [1 .. n + 1 -> -1 .. Capacity] PROVE at(a, s) = Error
      <3>1. Len(s) = n + 1
        BY LengthIs
      <3> QED
        BY <1>2, <3>1 DEF at, getIndexChecked
    <2> QED
      BY <1>2, <2>1 DEF Accepted
  <1>11. ASSUME NEW m \in 0 .. n - 1, NEW s \in Accepted(a, m), a.length > 0
         PROVE  at(a, s) = at(a, s \o [i \in 1 .. n - m |-> 0])
    <2>1. s \in [1 .. m -> Int] /\ at(a, s) # Error /\ m \in 0 .. n
      BY <1>1 DEF Accepted
    <2>2. Positive(n, dims)
      BY <1>1, <1>2, <1>11, ExtentZero DEF c
    <2>3. ~ \E i \in 1 .. m : s[i] < 0 \/ s[i] >= dims[i]
      BY <2>1, AtShort DEF a
    <2>4. /\ Padded(m, n, s) \in InBounds(n, dims)
          /\ at(a, s) = Inside(n, dims, Padded(m, n, s))[1]
      BY <2>1, <2>2, <2>3, AtPositive DEF a
    <2>5. at(a, Padded(m, n, s)) = Inside(n, dims, Padded(m, n, s))[1]
      BY <1>4, <2>4
    <2> QED
      BY <2>1, <2>4, <2>5, WithZeros
  <1>12. ASSUME NEW i \in -1 .. n PROVE dimension(a.d, i) # Error <=> i \in 0 .. n - 1
    <2>1. i \in 0 .. n - 1 => dims[i + 1] \in Int
      OBVIOUS
    <2> QED
      BY <1>2, <2>1, ArraysAssumption DEF dimension
  <1>13. n \in Nat
    OBVIOUS
  <1> QED
    BY <1>2, <1>3, <1>5, <1>8, <1>9, <1>10, <1>11, <1>12 DEF AccessSound, a

-----------------------------------------------------------------------------
(* Images.                                                                 *)

LEMMA SequenceIs ==
  ASSUME NEW S, NEW s \in Seq(S)
  PROVE  s \in [1 .. Len(s) -> S]
  OBVIOUS

\* One more at the end, or at the beginning.
IsAppended(n, S, s, x, b) ==
    b \in [1 .. n + 1 -> S] /\ b[n + 1] = x /\ \A i \in 1 .. n : b[i] = s[i]
IsPrepended(n, S, s, x, b) ==
    b \in [1 .. n + 1 -> S] /\ b[1] = x /\ \A i \in 1 .. n : b[i + 1] = s[i]

LEMMA Appended1 ==
  ASSUME NEW S, NEW n \in Nat, NEW s \in [1 .. n -> S], NEW x \in S
  PROVE  IsAppended(n, S, s, x, Append(s, x))
  <1>1. s \in Seq(S) /\ Len(s) = n
    BY LengthIs
  <1>2. /\ Append(s, x) \in Seq(S) /\ Len(Append(s, x)) = n + 1 /\ Append(s, x)[n + 1] = x
        /\ \A i \in 1 .. n : Append(s, x)[i] = s[i]
    BY <1>1, AppendProperties
  <1>3. Append(s, x) \in [1 .. n + 1 -> S]
    BY <1>2, SequenceIs
  <1> QED
    BY <1>2, <1>3 DEF IsAppended

LEMMA Prepended1 ==
  ASSUME NEW S, NEW n \in Nat, NEW s \in [1 .. n -> S], NEW x \in S
  PROVE  IsPrepended(n, S, s, x, <<x>> \o s)
  <1> DEFINE e == <<x>>
  <1>1. s \in Seq(S) /\ Len(s) = n /\ e \in Seq(S) /\ Len(e) = 1 /\ e[1] = x
    BY LengthIs
  <1> HIDE DEF e
  <1>2. /\ e \o s \in Seq(S) /\ Len(e \o s) = Len(e) + Len(s)
        /\ \A i \in 1 .. Len(e) + Len(s) : (e \o s)[i] = IF i <= Len(e) THEN e[i] ELSE s[i - Len(e)]
    BY <1>1, ConcatProperties
  <1>3. Len(e) + Len(s) = n + 1
    BY <1>1
  <1>4. e \o s \in [1 .. n + 1 -> S]
    BY <1>2, <1>3, SequenceIs
  <1>5. \A i \in 1 .. n + 1 : (e \o s)[i] = IF i <= 1 THEN e[i] ELSE s[i - 1]
    BY <1>1, <1>2, <1>3
  <1>6. (e \o s)[1] = x
    <2>1. 1 \in 1 .. n + 1 /\ 1 <= 1
      OBVIOUS
    <2>2. (e \o s)[1] = e[1]
      BY <1>5, <2>1
    <2> QED
      BY <1>1, <2>2
  <1>7. ASSUME NEW i \in 1 .. n PROVE (e \o s)[i + 1] = s[i]
    BY <1>5, i + 1 \in 1 .. n + 1, ~ (i + 1 <= 1), (i + 1) - 1 = i
  <1> QED
    BY <1>4, <1>6, <1>7 DEF e, IsPrepended

LEMMA ExtentAppended ==
  ASSUME NEW n \in Nat, NEW dims \in [1 .. n -> Nat], NEW c \in Nat
  PROVE  \A i \in 1 .. n + 1 : Extent(Append(dims, c))[i] = Extent(dims)[i] * c
  <1> DEFINE b == Append(dims, c)  e == Extent(dims)  f == Extent(b)
  <1>1. b \in [1 .. n + 1 -> Nat] /\ b[n + 1] = c /\ \A i \in 1 .. n : b[i] = dims[i]
    <2>1. IsAppended(n, Nat, dims, c, b)
      BY Appended1
    <2> QED
      BY <2>1 DEF IsAppended
  <1>2. e \in [1 .. n + 1 -> Nat] /\ e[n + 1] = 1 /\ \A i \in 1 .. n : e[i] = dims[i] * e[i + 1]
    BY ExtentNat
  <1> HIDE DEF b
  <1>3. /\ f \in [1 .. (n + 1) + 1 -> Nat] /\ f[(n + 1) + 1] = 1
        /\ \A i \in 1 .. n + 1 : f[i] = b[i] * f[i + 1]
    BY <1>1, ExtentNat, n + 1 \in Nat
  <1> HIDE DEF e, f
  <1> DEFINE Good == {i \in 1 .. n + 1 : f[i] = e[i] * c}
  <1>4. n + 1 \in Good
    <2>1. f[n + 1] = c * 1
      BY <1>1, <1>3, n + 1 \in 1 .. n + 1
    <2> QED
      BY <1>2, <2>1
  <1>5. ASSUME NEW i \in 1 .. n, i + 1 \in Good PROVE i \in Good
    <2>1. i \in 1 .. n + 1 /\ i + 1 \in 1 .. n + 1
      OBVIOUS
    <2>2. f[i] = dims[i] * f[i + 1] /\ e[i] = dims[i] * e[i + 1] /\ f[i + 1] = e[i + 1] * c
      BY <1>1, <1>2, <1>3, <1>5, <2>1
    <2>3. dims[i] \in Nat /\ e[i + 1] \in Nat
      BY <1>2, <2>1
    <2>4. \A x, y, z \in Nat : x * (y * z) = (x * y) * z
      OBVIOUS
    <2>5. f[i] = e[i] * c
      BY <2>2, <2>3, <2>4
    <2> QED
      BY <2>1, <2>5
  <1> HIDE DEF Good
  <1>6. 1 .. n + 1 \subseteq Good
    BY <1>4, <1>5, DownTo
  <1> QED
    BY <1>6 DEF Good, e, f, b

LEMMA ExtentPrepended ==
  ASSUME NEW n \in Nat, NEW dims \in [1 .. n -> Nat], NEW c \in Nat
  PROVE  /\ \A i \in 1 .. n + 1 : Extent(<<c>> \o dims)[i + 1] = Extent(dims)[i]
         /\ Product(<<c>> \o dims) = c * Product(dims)
  <1> DEFINE b == <<c>> \o dims  e == Extent(dims)  f == Extent(b)
  <1>1. b \in [1 .. n + 1 -> Nat] /\ b[1] = c /\ \A i \in 1 .. n : b[i + 1] = dims[i]
    <2>1. IsPrepended(n, Nat, dims, c, b)
      BY Prepended1
    <2> QED
      BY <2>1 DEF IsPrepended
  <1>2. e \in [1 .. n + 1 -> Nat] /\ e[n + 1] = 1 /\ \A i \in 1 .. n : e[i] = dims[i] * e[i + 1]
    BY ExtentNat
  <1> HIDE DEF b
  <1>3. /\ f \in [1 .. (n + 1) + 1 -> Nat] /\ f[(n + 1) + 1] = 1
        /\ \A i \in 1 .. n + 1 : f[i] = b[i] * f[i + 1]
    BY <1>1, ExtentNat, n + 1 \in Nat
  <1> HIDE DEF e, f
  <1> DEFINE Good == {i \in 1 .. n + 1 : f[i + 1] = e[i]}
  <1>4. n + 1 \in Good
    BY <1>2, <1>3
  <1>5. ASSUME NEW i \in 1 .. n, i + 1 \in Good PROVE i \in Good
    <2>1. i \in 1 .. n + 1 /\ i + 1 \in 1 .. n + 1
      OBVIOUS
    <2>2. f[i + 1] = dims[i] * f[(i + 1) + 1] /\ e[i] = dims[i] * e[i + 1] /\ f[(i + 1) + 1] = e[i + 1]
      BY <1>1, <1>2, <1>3, <1>5, <2>1
    <2>3. f[i + 1] = e[i]
      BY <2>2
    <2> QED
      BY <2>1, <2>3
  <1> HIDE DEF Good
  <1>6. \A i \in 1 .. n + 1 : f[i + 1] = e[i]
    BY <1>4, <1>5, DownTo DEF Good
  <1>7. f[1] = c * e[1]
    BY <1>1, <1>3, <1>6, 1 \in 1 .. n + 1
  <1> QED
    BY <1>6, <1>7 DEF Product, e, f, b

\* at() with a full list of indices, in bounds or not.
Found(n, dims, s) == IF s \in InBounds(n, dims) THEN Inside(n, dims, s)[1] ELSE Error

LEMMA AtFound ==
  ASSUME NEW n \in Nat, NEW dims \in [1 .. n -> Nat], Product(dims) <= Capacity, NEW s \in [1 .. n -> Int]
  PROVE  at(ArrayOf(dims), s) = Found(n, dims, s)
  <1>1. CASE s \in InBounds(n, dims)
    BY <1>1, AcceptedFull DEF Found
  <1>2. CASE s \notin InBounds(n, dims)
    <2>1. PICK i \in 1 .. n : ~ (0 <= s[i] /\ s[i] < dims[i])
      BY <1>2 DEF InBounds
    <2>2. s[i] \in Int /\ dims[i] \in Int
      OBVIOUS
    <2>3. \E j \in 1 .. n : s[j] < 0 \/ s[j] >= dims[j]
      BY <2>1, <2>2
    <2> QED
      BY <1>2, <2>3, AtShort, n \in 0 .. n DEF Found
  <1> QED
    BY <1>1, <1>2

\* A dimension of 1 at the end, or at the beginning, changes nothing.
LEMMA LastOne ==
  ASSUME NEW n \in Nat, NEW dims \in [1 .. n -> Nat], NEW s \in [1 .. n -> Int]
  PROVE  Found(n + 1, Append(dims, 1), Append(s, 0)) = Found(n, dims, s)
  <1> DEFINE b == Append(dims, 1)  t == Append(s, 0)
  <1>1. b \in [1 .. n + 1 -> Nat] /\ b[n + 1] = 1 /\ \A i \in 1 .. n : b[i] = dims[i]
    <2>1. IsAppended(n, Nat, dims, 1, b)
      BY Appended1
    <2> QED
      BY <2>1 DEF IsAppended
  <1>2. t \in [1 .. n + 1 -> Int] /\ t[n + 1] = 0 /\ \A i \in 1 .. n : t[i] = s[i]
    <2>1. IsAppended(n, Int, s, 0, t)
      BY Appended1
    <2> QED
      BY <2>1 DEF IsAppended
  <1>3. \A i \in 1 .. n + 1 : Extent(b)[i] = Extent(dims)[i] * 1
    BY ExtentAppended
  <1>4. Extent(dims) \in [1 .. n + 1 -> Nat] /\ Extent(b) \in [1 .. (n + 1) + 1 -> Nat]
    <2> HIDE DEF b
    <2> QED
      BY <1>1, ExtentNat, n + 1 \in Nat
  <1> HIDE DEF b, t
  <1>5. t \in InBounds(n + 1, b) <=> s \in InBounds(n, dims)
    <2>1. ASSUME \A i \in 1 .. n : 0 <= s[i] /\ s[i] < dims[i], NEW i \in 1 .. n + 1
          PROVE  0 <= t[i] /\ t[i] < b[i]
      <3>1. CASE i = n + 1
        BY <1>1, <1>2, <3>1
      <3>2. CASE i # n + 1
        BY <1>1, <1>2, <2>1, <3>2, i \in 1 .. n
      <3> QED
        BY <3>1, <3>2
    <2>2. ASSUME \A i \in 1 .. n + 1 : 0 <= t[i] /\ t[i] < b[i], NEW i \in 1 .. n
          PROVE  0 <= s[i] /\ s[i] < dims[i]
      BY <1>1, <1>2, <2>2, i \in 1 .. n + 1
    <2> QED
      BY <1>2, <2>1, <2>2 DEF InBounds
  <1> DEFINE u == Terms(n, dims, s)  w == Terms(n + 1, b, t)
  <1>6. u \in [1 .. n -> Int]
    BY InsidePart
  <1>7. w \in [1 .. n + 1 -> Int]
    BY <1>1, <1>2, InsidePart, n + 1 \in Nat
  <1>8. Longer(n, n + 1, u, w)
    <2>1. ASSUME NEW i \in 1 .. n PROVE w[i] = u[i]
      <3>1. Extent(b)[i + 1] = Extent(dims)[i + 1]
        <4>1. i + 1 \in 1 .. n + 1
          OBVIOUS
        <4> QED
          BY <1>3, <1>4, <4>1
      <3> QED
        BY <1>2, <3>1, i \in 1 .. n + 1 DEF Terms
    <2>2. w[n + 1] = 0
      <3>1. w[n + 1] = 0 * Extent(b)[(n + 1) + 1]
        BY <1>2, n + 1 \in 1 .. n + 1 DEF Terms
      <3>2. Extent(b)[(n + 1) + 1] \in Nat
        BY <1>4, (n + 1) + 1 \in 1 .. (n + 1) + 1
      <3> QED
        BY <3>1, <3>2
    <2> HIDE DEF u, w
    <2> QED
      BY <2>1, <2>2 DEF Longer
  <1>9. Total(w) = Total(u)
    <2> HIDE DEF u, w
    <2> QED
      BY <1>6, <1>7, <1>8, SumsPadded, n + 1 \in Nat, n <= n + 1
  <1>10. Inside(n + 1, b, t)[1] = Inside(n, dims, s)[1]
    BY <1>9 DEF Inside, Total
  <1> QED
    BY <1>5, <1>10 DEF Found, b, t

LEMMA FirstOne ==
  ASSUME NEW n \in Nat, NEW dims \in [1 .. n -> Nat], NEW s \in [1 .. n -> Int]
  PROVE  Found(n + 1, <<1>> \o dims, <<0>> \o s) = Found(n, dims, s)
  <1> DEFINE b == <<1>> \o dims  t == <<0>> \o s
  <1>1. b \in [1 .. n + 1 -> Nat] /\ b[1] = 1 /\ \A i \in 1 .. n : b[i + 1] = dims[i]
    <2>1. IsPrepended(n, Nat, dims, 1, b)
      BY Prepended1
    <2> QED
      BY <2>1 DEF IsPrepended
  <1>2. t \in [1 .. n + 1 -> Int] /\ t[1] = 0 /\ \A i \in 1 .. n : t[i + 1] = s[i]
    <2>1. IsPrepended(n, Int, s, 0, t)
      <3>1. 0 \in Int
        OBVIOUS
      <3> HIDE DEF b
      <3> QED
        BY <3>1, Prepended1 DEF t
    <2> QED
      BY <2>1 DEF IsPrepended
  <1>3. \A i \in 1 .. n + 1 : Extent(b)[i + 1] = Extent(dims)[i]
    BY ExtentPrepended
  <1> HIDE DEF b, t
  <1>4. t \in InBounds(n + 1, b) <=> s \in InBounds(n, dims)
    <2>1. ASSUME \A i \in 1 .. n : 0 <= s[i] /\ s[i] < dims[i], NEW i \in 1 .. n + 1
          PROVE  0 <= t[i] /\ t[i] < b[i]
      <3>1. CASE i = 1
        BY <1>1, <1>2, <3>1
      <3>2. CASE i # 1
        <4>1. i - 1 \in 1 .. n /\ (i - 1) + 1 = i
          BY <3>2
        <4> QED
          BY <1>1, <1>2, <2>1, <4>1
      <3> QED
        BY <3>1, <3>2
    <2>2. ASSUME \A i \in 1 .. n + 1 : 0 <= t[i] /\ t[i] < b[i], NEW i \in 1 .. n
          PROVE  0 <= s[i] /\ s[i] < dims[i]
      BY <1>1, <1>2, <2>2, i + 1 \in 1 .. n + 1
    <2> QED
      BY <1>2, <2>1, <2>2 DEF InBounds
  <1> DEFINE e == Extent(dims)  f == Extent(b)  q == Inside(n, dims, s)  r == Inside(n + 1, b, t)
  <1>5. q \in [1 .. n + 1 -> Int] /\ q[n + 1] = 0 /\ \A i \in 1 .. n : q[i] = s[i] * e[i + 1] + q[i + 1]
    BY InsidePart
  <1>6. /\ r \in [1 .. (n + 1) + 1 -> Int] /\ r[(n + 1) + 1] = 0
        /\ \A i \in 1 .. n + 1 : r[i] = t[i] * f[i + 1] + r[i + 1]
    BY <1>1, <1>2, InsidePart, n + 1 \in Nat
  <1>7. e \in [1 .. n + 1 -> Nat]
    BY ExtentNat
  <1>8. \A i \in 1 .. n + 1 : f[i + 1] = e[i]
    BY <1>3
  <1> HIDE DEF e, f, q, r
  <1> DEFINE Good == {i \in 1 .. n + 1 : r[i + 1] = q[i]}
  <1>9. n + 1 \in Good
    BY <1>5, <1>6
  <1>10. ASSUME NEW i \in 1 .. n, i + 1 \in Good PROVE i \in Good
    <2>1. i \in 1 .. n + 1 /\ i + 1 \in 1 .. n + 1
      OBVIOUS
    <2>2. /\ r[i + 1] = t[i + 1] * f[(i + 1) + 1] + r[(i + 1) + 1] /\ r[(i + 1) + 1] = q[i + 1]
          /\ q[i] = s[i] * e[i + 1] + q[i + 1] /\ t[i + 1] = s[i] /\ f[(i + 1) + 1] = e[i + 1]
      BY <1>2, <1>5, <1>6, <1>8, <1>10, <2>1
    <2>3. r[i + 1] = q[i]
      BY <2>2
    <2> QED
      BY <2>1, <2>3
  <1> HIDE DEF Good
  <1>11. \A i \in 1 .. n + 1 : r[i + 1] = q[i]
    BY <1>9, <1>10, DownTo DEF Good
  <1>12. r[1] = q[1]
    <2>1. 1 \in 1 .. n + 1
      OBVIOUS
    <2>2. r[1] = t[1] * f[2] + r[2] /\ f[2] = e[1] /\ r[2] = q[1]
      BY <1>6, <1>8, <1>11, <2>1
    <2>3. e[1] \in Nat /\ q[1] \in Int
      BY <1>5, <1>7, <2>1
    <2> QED
      BY <1>2, <2>2, <2>3
  <1> QED
    BY <1>4, <1>12 DEF Found, b, t, q, r

\* What the kernel finds, counting from 1, is what at() finds, counting from 0.
LEMMA KernelFinds ==
  ASSUME NEW n \in Nat, NEW dims \in [1 .. n -> Nat], NEW here \in [1 .. n -> Int]
  PROVE  (IF \E i \in DOMAIN dims : here[i] \notin 1 .. dims[i] THEN Error
          ELSE Total([i \in DOMAIN dims |-> (here[i] - 1) * Extent(dims)[i + 1]]))
         = Found(n, dims, [i \in 1 .. n |-> here[i] - 1])
  <1> DEFINE s == [i \in 1 .. n |-> here[i] - 1]
  <1>1. DOMAIN dims = 1 .. n /\ s \in [1 .. n -> Int] /\ \A i \in 1 .. n : s[i] = here[i] - 1
    BY LengthIs
  <1>2. s \in InBounds(n, dims) <=> ~ \E i \in DOMAIN dims : here[i] \notin 1 .. dims[i]
    <2>1. \A i \in 1 .. n : here[i] \in 1 .. dims[i] <=> 0 <= s[i] /\ s[i] < dims[i]
      <3>1. ASSUME NEW i \in 1 .. n PROVE here[i] \in 1 .. dims[i] <=> 0 <= s[i] /\ s[i] < dims[i]
        <4>1. here[i] \in Int /\ dims[i] \in Nat
          OBVIOUS
        <4> QED
          BY <1>1, <4>1
      <3> QED
        BY <3>1
    <2> HIDE DEF s
    <2> QED
      BY <1>1, <2>1 DEF InBounds
  <1>3. Terms(n, dims, s) = [i \in DOMAIN dims |-> (here[i] - 1) * Extent(dims)[i + 1]]
    <2>1. \A i \in 1 .. n : s[i] * Extent(dims)[i + 1] = (here[i] - 1) * Extent(dims)[i + 1]
      BY <1>1
    <2> HIDE DEF s
    <2> QED
      BY <1>1, <2>1 DEF Terms
  <1>4. Inside(n, dims, s)[1] = Total([i \in DOMAIN dims |-> (here[i] - 1) * Extent(dims)[i + 1]])
    BY <1>3 DEF Inside, Total
  <1> HIDE DEF s
  <1>5. CASE \E i \in DOMAIN dims : here[i] \notin 1 .. dims[i]
    BY <1>2, <1>5 DEF Found, s
  <1>6. CASE ~ \E i \in DOMAIN dims : here[i] \notin 1 .. dims[i]
    BY <1>2, <1>4, <1>6 DEF Found, s
  <1> QED
    BY <1>5, <1>6

-----------------------------------------------------------------------------
(* What is made, and images.                                               *)

AnImage(k, im) ==
    /\ im.space \in [1 .. k -> Nat] /\ Positive(k, im.space)
    /\ im.channels \in {1, 2} /\ im.interleaved \in BOOLEAN
    /\ Product(im.space) * im.channels <= Capacity

\* The image is the array of its dimensions.
LEMMA ImageMade ==
  ASSUME NEW k \in Nat, NEW im, AnImage(k, im)
  PROVE  \E n \in Nat : LET dims == dimensionsFromGenericImage(im)
                        IN  /\ dims \in [1 .. n -> Nat] /\ Product(dims) <= Capacity
                            /\ FromImage(im) = ArrayOf(dims)
  <1> DEFINE sp == im.space  c == im.channels  dims == dimensionsFromGenericImage(im)
  <1>1. /\ sp \in [1 .. k -> Nat] /\ (\A i \in 1 .. k : sp[i] >= 1)
        /\ c \in {1, 2} /\ im.interleaved \in BOOLEAN /\ Product(sp) * c <= Capacity
    BY DEF AnImage, Positive
  <1>2. Product(sp) \in Nat
    BY <1>1, ExtentNat, 1 \in 1 .. k + 1 DEF Product
  <1>3. SUFFICES ASSUME NEW n \in Nat, dims \in [1 .. n -> Nat], \A i \in 1 .. n : dims[i] >= 1,
                        Product(dims) = Product(sp) * c
                 PROVE  Product(dims) <= Capacity /\ FromImage(im) = ArrayOf(dims)
    <2>1. CASE c = 1
      <3>1. dims = sp
        BY <2>1 DEF dimensionsFromGenericImage
      <3>2. Product(dims) = Product(sp) * c
        <4> HIDE DEF sp, c, dims
        <4> QED
          BY <1>2, <2>1, <3>1
      <3> QED
        BY <1>1, <1>3, <3>1, <3>2
    <2>2. CASE c # 1 /\ im.interleaved
      <3>1. dims = Append(sp, c)
        BY <2>2 DEF dimensionsFromGenericImage
      <3> HIDE DEF sp, c, dims
      <3>2. c \in Nat /\ c >= 1
        BY <1>1
      <3>3. dims \in [1 .. k + 1 -> Nat] /\ dims[k + 1] = c /\ \A i \in 1 .. k : dims[i] = sp[i]
        <4>1. IsAppended(k, Nat, sp, c, dims)
          BY <1>1, <3>1, <3>2, Appended1
        <4> QED
          BY <4>1 DEF IsAppended
      <3>4. ASSUME NEW i \in 1 .. k + 1 PROVE dims[i] >= 1
        BY <1>1, <3>2, <3>3
      <3>5. Product(dims) = Product(sp) * c
        BY <1>1, <3>1, <3>2, ExtentAppended, 1 \in 1 .. k + 1 DEF Product
      <3> QED
        BY <1>3, <3>3, <3>4, <3>5, k + 1 \in Nat DEF sp, c, dims
    <2>3. CASE c # 1 /\ ~ im.interleaved
      <3>1. dims = <<c>> \o sp
        BY <2>3 DEF dimensionsFromGenericImage
      <3> HIDE DEF sp, c, dims
      <3>2. c \in Nat /\ c >= 1
        BY <1>1
      <3>3. dims \in [1 .. k + 1 -> Nat] /\ dims[1] = c /\ \A i \in 1 .. k : dims[i + 1] = sp[i]
        <4>1. IsPrepended(k, Nat, sp, c, dims)
          BY <1>1, <3>1, <3>2, Prepended1
        <4> QED
          BY <4>1 DEF IsPrepended
      <3>4. ASSUME NEW i \in 1 .. k + 1 PROVE dims[i] >= 1
        <4>1. CASE i = 1
          BY <3>2, <3>3, <4>1
        <4>2. CASE i # 1
          <5>1. i - 1 \in 1 .. k /\ (i - 1) + 1 = i
            BY <4>2
          <5> QED
            BY <1>1, <3>3, <5>1
        <4> QED
          BY <4>1, <4>2
      <3>5. Product(dims) = c * Product(sp)
        BY <1>1, <3>1, <3>2, ExtentPrepended
      <3>6. Product(dims) = Product(sp) * c
        BY <1>2, <3>2, <3>5
      <3> QED
        BY <1>3, <3>3, <3>4, <3>6, k + 1 \in Nat DEF sp, c, dims
    <2> QED
      BY <1>1, <2>1, <2>2, <2>3
  <1> HIDE DEF sp, c, dims
  <1>4. Len(dims) = n /\ DOMAIN dims = 1 .. n
    BY <1>3, LengthIs
  <1>5. Acceptable(dims)
    BY <1>3, <1>4 DEF Acceptable
  <1>6. FromImage(im) = [d |-> Listed(dims), length |-> Product(sp) * c]
    BY <1>5 DEF FromImage, dims, sp, c
  <1> QED
    BY <1>1, <1>3, <1>6 DEF ArrayOf

LEMMA ImageAgrees ==
  ASSUME NEW k \in Nat, NEW im, AnImage(k, im), MaxDim \in Nat
  PROVE  PixelsAgree(im)
  <1> DEFINE sp == im.space  c == im.channels  dims == dimensionsFromGenericImage(im)
             wide == IF im.interleaved THEN Append(sp, c) ELSE <<c>> \o sp
  <1>1. /\ sp \in [1 .. k -> Nat] /\ c \in {1, 2} /\ c \in Nat /\ im.interleaved \in BOOLEAN
        /\ DOMAIN sp = 1 .. k
    BY LengthIs DEF AnImage
  <1>2. wide \in [1 .. k + 1 -> Nat]
    <2> HIDE DEF sp, c
    <2>1. IsAppended(k, Nat, sp, c, Append(sp, c))
      BY <1>1, Appended1
    <2>2. IsPrepended(k, Nat, sp, c, <<c>> \o sp)
      BY <1>1, Prepended1
    <2> QED
      BY <1>1, <2>1, <2>2 DEF IsAppended, IsPrepended
  <1>3. PICK n \in Nat : /\ dims \in [1 .. n -> Nat] /\ Product(dims) <= Capacity
                         /\ FromImage(im) = ArrayOf(dims)
    BY ImageMade
  <1>4. ASSUME NEW pos \in [1 .. k -> 1 .. MaxDim], NEW channel \in 1 .. c
        PROVE  LET from0 == [i \in DOMAIN pos |-> pos[i] - 1]
                   here == IF im.channels = 1 THEN from0
                           ELSE IF im.interleaved THEN Append(from0, channel - 1) ELSE <<channel - 1>> \o from0
               IN  at(FromImage(im), here) = getValueAt(im, pos, channel)
    <2> DEFINE from0 == [i \in DOMAIN pos |-> pos[i] - 1]
               long == IF im.interleaved THEN Append(pos, channel) ELSE <<channel>> \o pos
               long0 == [i \in 1 .. k + 1 |-> long[i] - 1]
               from1 == IF im.interleaved THEN Append(from0, channel - 1) ELSE <<channel - 1>> \o from0
    <2>1. /\ pos \in [1 .. k -> Int] /\ channel \in Int /\ channel - 1 \in Int
          /\ DOMAIN pos = 1 .. k /\ from0 \in [1 .. k -> Int] /\ \A i \in 1 .. k : from0[i] = pos[i] - 1
      BY <1>1
    <2> HIDE DEF sp, c, dims, from0
    <2>2. /\ IsAppended(k, Int, pos, channel, Append(pos, channel))
          /\ IsAppended(k, Int, from0, channel - 1, Append(from0, channel - 1))
      BY <2>1, Appended1
    <2>3. /\ IsPrepended(k, Int, pos, channel, <<channel>> \o pos)
          /\ IsPrepended(k, Int, from0, channel - 1, <<channel - 1>> \o from0)
      BY <2>1, Prepended1
    <2>4. long \in [1 .. k + 1 -> Int] /\ from1 \in [1 .. k + 1 -> Int]
      BY <1>1, <2>2, <2>3 DEF IsAppended, IsPrepended
    <2>5. long0 = from1
      <3>1. ASSUME NEW i \in 1 .. k + 1, im.interleaved PROVE long0[i] = from1[i]
        <4>1. CASE i = k + 1
          BY <2>1, <2>2, <3>1, <4>1 DEF IsAppended
        <4>2. CASE i # k + 1
          BY <2>1, <2>2, <3>1, <4>2, i \in 1 .. k DEF IsAppended
        <4> QED
          BY <4>1, <4>2
      <3>2. ASSUME NEW i \in 1 .. k + 1, ~ im.interleaved PROVE long0[i] = from1[i]
        <4>1. CASE i = 1
          BY <2>1, <2>3, <3>2, <4>1 DEF IsPrepended
        <4>2. CASE i # 1
          <5>1. i - 1 \in 1 .. k /\ (i - 1) + 1 = i
            BY <4>2
          <5> QED
            BY <2>1, <2>3, <3>2, <5>1 DEF IsPrepended
        <4> QED
          BY <4>1, <4>2
      <3>3. \A i \in 1 .. k + 1 : long0[i] = from1[i]
        BY <1>1, <3>1, <3>2
      <3>4. long0 \in [1 .. k + 1 -> Int]
        <4> HIDE DEF long
        <4> QED
          BY <2>4
      <3> HIDE DEF long0, from1
      <3> QED
        BY <2>4, <3>3, <3>4
    <2>6. getValueAt(im, pos, channel)
          = IF \E i \in DOMAIN wide : long[i] \notin 1 .. wide[i] THEN Error
            ELSE Total([i \in DOMAIN wide |-> (long[i] - 1) * Extent(wide)[i + 1]])
      BY DEF getValueAt, KernelPixel, sp, c
    <2>7. getValueAt(im, pos, channel) = Found(k + 1, wide, long0)
      <3> HIDE DEF wide, long
      <3> QED
        BY <1>2, <2>4, <2>6, KernelFinds, k + 1 \in Nat
    <2>8. CASE c = 1
      <3>1. dims = sp
        BY <2>8 DEF dimensionsFromGenericImage, dims, sp, c
      <3>2. at(FromImage(im), from0) = Found(k, sp, from0)
        <4>1. Product(sp) <= Capacity
          BY <1>3, <3>1
        <4> QED
          BY <1>1, <1>3, <2>1, <3>1, <4>1, AtFound
      <3>3. channel - 1 = 0
        BY <2>8
      <3>4. Found(k + 1, wide, from1) = Found(k, sp, from0)
        <4>1. CASE im.interleaved
          <5>1. wide = Append(sp, 1) /\ from1 = Append(from0, 0)
            BY <2>8, <3>3, <4>1
          <5> QED
            BY <1>1, <2>1, <5>1, LastOne
        <4>2. CASE ~ im.interleaved
          <5>1. wide = <<1>> \o sp /\ from1 = <<0>> \o from0
            BY <2>8, <3>3, <4>2
          <5> QED
            BY <1>1, <2>1, <5>1, FirstOne
        <4> QED
          BY <4>1, <4>2
      <3> HIDE DEF wide, long, long0, from1
      <3> QED
        BY <2>5, <2>7, <2>8, <3>2, <3>4 DEF c, from0
    <2>9. CASE c # 1
      <3>1. dims = wide
        BY <2>9 DEF dimensionsFromGenericImage, dims, sp, c
      <3>2. at(FromImage(im), from1) = Found(k + 1, wide, from1)
        <4> HIDE DEF wide, from1
        <4> QED
          BY <1>2, <1>3, <2>4, <3>1, AtFound, k + 1 \in Nat
      <3>3. at(FromImage(im), from1) = getValueAt(im, pos, channel)
        <4> HIDE DEF wide, long, long0, from1
        <4> QED
          BY <2>5, <2>7, <3>2
      <3>4. im.channels # 1
        BY <2>9 DEF c
      <3> QED
        BY <3>3, <3>4 DEF from0
    <2> QED
      BY <2>8, <2>9
  <1> QED
    BY <1>1, <1>4 DEF PixelsAgree

LEMMA DispatchHolds ==
  ASSUME NEW kind \in {"NumericArray", "Image", "Tensor"}
  PROVE  DispatchAgrees(kind)
  <1> DEFINE o == operateOn(kind)  t == TypeOf(kind)
  <1>1. DOMAIN o = Range(t)
    <2>1. CASE kind = "NumericArray"
      BY <2>1 DEF operateOn, TypeOf, NumericArrayType, Range
    <2>2. CASE kind = "Image"
      BY <2>2 DEF operateOn, TypeOf, ImageType, Range
    <2>3. CASE kind = "Tensor"
      BY <2>3 DEF operateOn, TypeOf, TensorType, Range
    <2> QED
      BY <2>1, <2>2, <2>3
  <1>2. \A type \in DOMAIN o : t[o[type]] = type /\ o[type] \in DOMAIN t
    <2>1. CASE kind = "NumericArray"
      BY <2>1 DEF operateOn, TypeOf, NumericArrayType
    <2>2. CASE kind = "Image"
      BY <2>2 DEF operateOn, TypeOf, ImageType
    <2>3. CASE kind = "Tensor"
      BY <2>3 DEF operateOn, TypeOf, TensorType
    <2> QED
      BY <2>1, <2>2, <2>3
  <1>3. kind = "NumericArray" => NumericArrayFromEnum = o
    BY DEF NumericArrayFromEnum, operateOn
  <1> HIDE DEF o, t
  <1>4. \A type \in DOMAIN o : Wrapped(kind, o[type], type) # Error
    <2>1. Error \notin DOMAIN t
      BY TypesAssumption DEF TypeOf, t
    <2> QED
      BY <1>2, <2>1 DEF Wrapped, t
  <1> QED
    BY <1>1, <1>3, <1>4 DEF DispatchAgrees, o, t

AnArray(a) == \E n \in Nat : \E dims \in [1 .. n -> Nat] : Product(dims) <= Capacity /\ a = ArrayOf(dims)

LEMMA FilledArray ==
  ASSUME NEW m \in Nat, NEW n \in Nat, NEW dims \in [1 .. n -> Int], Filled(m, Listed(dims)) # Error
  PROVE  AnArray(Filled(m, Listed(dims)))
  <1>1. DOMAIN dims = 1 .. n /\ Listed(dims).dims = dims
    BY LengthIs DEF Listed
  <1>2. /\ KernelMakes(dims) /\ m = Product(dims)
        /\ Filled(m, Listed(dims)) = [d |-> Listed(dims), length |-> m]
    BY <1>1 DEF Filled
  <1>3. dims \in [1 .. n -> Nat] /\ Product(dims) <= Capacity
    BY <1>1, <1>2 DEF KernelMakes
  <1> QED
    BY <1>2, <1>3 DEF AnArray, ArrayOf

LEMMA MadeArray ==
  ASSUME NEW a \in Made \ {Error}
  PROVE  AnArray(a)
  <1>1. Capacity \in Nat /\ Half \in Nat
    BY ArraysAssumption, HalfIs
  <1>2. \A dims \in DimLists : \E n \in Nat : dims \in [1 .. n -> Int]
    BY ElementsAssumption DEF DimLists
  <1>3. ASSUME NEW m \in 0 .. Capacity, NEW dims \in DimLists, a = Filled(m, Listed(dims))
        PROVE  AnArray(a)
    BY <1>1, <1>2, <1>3, FilledArray
  <1>4. ASSUME NEW m \in 0 .. Capacity, NEW dims \in DimLists, a = Filled(m, Checked(dims))
        PROVE  AnArray(a)
    <2>1. Checked(dims) = Listed(dims)
      BY <1>4 DEF Checked, Filled
    <2> QED
      BY <1>3, <1>4, <2>1
  <1>5. ASSUME NEW m \in 0 .. Half - 1, a = Flat(m)
        PROVE  AnArray(a)
    <2>1. <<m>> \in [1 .. 1 -> Int] /\ m \in Nat
      BY <1>1
    <2> QED
      BY <1>1, <1>5, <2>1, FilledArray, 1 \in Nat DEF Flat
  <1>6. ASSUME NEW dims \in DimLists, KernelMakes(dims), a = FromGeneric(dims)
        PROVE  AnArray(a)
    <2>1. PICK n \in Nat : dims \in [1 .. n -> Int]
      BY <1>2
    <2>2. DOMAIN dims = 1 .. n
      BY <2>1
    <2>3. dims \in [1 .. n -> Nat] /\ Product(dims) <= Capacity
      BY <1>6, <2>1, <2>2 DEF KernelMakes
    <2>4. a = ArrayOf(dims)
      BY <1>6 DEF FromGeneric, ArrayOf
    <2> QED
      BY <2>3, <2>4 DEF AnArray
  <1> QED
    BY <1>3, <1>4, <1>5, <1>6 DEF Made

LEMMA ImageTaken ==
  ASSUME NEW im \in [kind : {"image"}, space : Spaces, channels : 1 .. 2, interleaved : BOOLEAN],
         Product(im.space) * im.channels <= Capacity
  PROVE  \E k \in Nat : AnImage(k, im)
  <1>1. PICK k \in {2, 3} : im.space \in [1 .. k -> 1 .. MaxDim]
    BY DEF Spaces
  <1>2. im.space \in [1 .. k -> Nat] /\ \A i \in 1 .. k : im.space[i] >= 1
    BY <1>1, ElementsAssumption
  <1>3. im.channels \in {1, 2} /\ im.interleaved \in BOOLEAN
    OBVIOUS
  <1> QED
    BY <1>2, <1>3 DEF AnImage, Positive

-----------------------------------------------------------------------------

\* Reading and writing elements, for arrays and images of every rank, size and
\* width of a mint: what the library takes up is either an array that has been
\* made, an image, or a type to dispatch on.
THEOREM ElementsSound == ElementsSpec => []ArraysSound
  <1>1. ASSUME NEW i \in Inputs, i.kind = "array" PROVE AccessSound(i.array)
    <2>1. i \in [kind : {"array"}, array : Made \ {Error}]
      BY <1>1 DEF Inputs
    <2>2. AnArray(i.array)
      BY <2>1, MadeArray
    <2> QED
      BY <2>2, AccessHolds DEF AnArray
  <1>2. ASSUME NEW i \in Inputs, i.kind = "image" PROVE AccessSound(FromImage(i)) /\ PixelsAgree(i)
    <2>1. /\ i \in [kind : {"image"}, space : Spaces, channels : 1 .. 2, interleaved : BOOLEAN]
          /\ Product(i.space) * i.channels <= Capacity
      BY <1>2 DEF Inputs
    <2>2. PICK k \in Nat : AnImage(k, i)
      BY <2>1, ImageTaken
    <2>3. PixelsAgree(i)
      BY <2>2, ImageAgrees, ElementsAssumption
    <2>4. AccessSound(FromImage(i))
      BY <2>2, ImageMade, AccessHolds
    <2> QED
      BY <2>3, <2>4
  <1> DEFINE IInv == input = Nothing \/ input \in Inputs
  <1>3. IInv => ArraysSound
    <2> SUFFICES ASSUME input \in Inputs PROVE ArraysSound
      BY DEF ArraysSound
    <2> QED
      BY <1>1, <1>2, DispatchHolds DEF ArraysSound
  <1>4. IInv /\ [Take \/ PutAway]_input => IInv'
    BY DEF Take, PutAway
  <1>5. input = Nothing => IInv
    OBVIOUS
  <1> HIDE DEF IInv
  <1> QED
    BY <1>3, <1>4, <1>5, PTL DEF ElementsSpec

-----------------------------------------------------------------------------
(* Arguments: integers.                                                    *)

\* Numbers of half a range on either side of 0.
LEMMA Centred ==
  ASSUME NEW h \in Nat, h >= 1, NEW x \in -h .. h - 1
  PROVE  ((x + h) % (2 * h)) - h = x
  OBVIOUS

LEMMA Unwrapped ==
  ASSUME NEW h \in Nat, h >= 1, NEW x \in 0 .. 2 * h - 1
  PROVE  (((x + h) % (2 * h)) - h) % (2 * h) = x
  <1>1. CASE x < h
    <2>1. (x + h) % (2 * h) = x + h
      BY <1>1
    <2> QED
      BY <2>1
  <1>2. CASE x >= h
    <2>1. (x + h) % (2 * h) = x - h
      <3>1. x + h = 2 * h + (x - h) /\ x - h \in 0 .. 2 * h - 1
        BY <1>2
      <3> QED
        BY <3>1
    <2>2. (x - 2 * h) % (2 * h) = x
      OBVIOUS
    <2>3. ((x + h) % (2 * h)) - h = x - 2 * h
      BY <2>1
    <2> QED
      BY <2>2, <2>3
  <1> QED
    BY <1>1, <1>2

LEMMA IntegerHolds ==
  ASSUME NEW T \in IntegerTypes, NEW n \in ValuesOf(T)
  PROVE  IntegerKept(T, n)
  <1> DEFINE wide == ~ T.signed /\ T.bits = Width
  <1>1. Width \in Nat /\ Width >= 1 /\ T.bits \in 1 .. Width /\ T.bits \in 0 .. Width /\ T.bits - 1 \in 0 .. Width
        /\ T.signed \in BOOLEAN
    BY ArraysAssumption DEF IntegerTypes
  <1>2. Half \in Nat /\ Half >= 1 /\ Power[Width] = 2 * Half
    BY HalfIs
  <1>3. CASE wide
    <2>1. n \in 0 .. 2 * Half - 1
      BY <1>2, <1>3 DEF ValuesOf
    <2>2. Converted(T, Wrap(n)) = (((n + Half) % (2 * Half)) - Half) % (2 * Half)
      BY <1>2, <1>3 DEF Converted, Wrap
    <2>3. getInteger(T, setInteger(n)) = n
      BY <1>2, <2>1, <2>2, Unwrapped DEF getInteger, setInteger
    <2>4. Common(T, MINT_MAX) = Half - 1 /\ Common(T, MINT_MIN) = Half
      <3>1. \A h \in Nat : h >= 1 => (h - 1) % (2 * h) = h - 1 /\ (-h) % (2 * h) = h
        OBVIOUS
      <3> QED
        BY <1>2, <1>3, <3>1 DEF Common, MINT_MAX, MINT_MIN
    <2>5. CASE n >= Half - 1
      <3>1. setMintAndCheck(T, n) = [res |-> Half - 1, clipped |-> TRUE]
        BY <2>4, <2>5 DEF setMintAndCheck, MINT_MAX
      <3> QED
        BY <1>3, <2>3, <3>1 DEF IntegerKept, MINT_MAX
    <2>6. CASE ~ (n >= Half - 1)
      <3>1. n <= Half /\ ~ (n > Half - 1)
        BY <1>2, <2>1, <2>6
      <3>2. setMintAndCheck(T, n) = [res |-> -Half, clipped |-> TRUE]
        BY <2>4, <2>6, <3>1 DEF setMintAndCheck, MINT_MIN
      <3> QED
        BY <1>3, <2>3, <3>1, <3>2 DEF IntegerKept, MINT_MIN, MINT_MAX
    <2> QED
      BY <2>5, <2>6
  <1>4. CASE ~ wide
    <2>1. n \in -Half .. Half - 1 /\ Converted(T, n) = n
      <3>1. CASE T.signed
        <4>1. Power[T.bits] = 2 * Power[T.bits - 1] /\ Power[T.bits - 1] \in Nat /\ Power[T.bits - 1] >= 1
          BY <1>1, PowerIs, PowerGrows
        <4>2. Power[T.bits - 1] <= Half
          <5>1. Width - 1 \in 0 .. Width /\ T.bits - 1 \in 0 .. Width - 1
            BY <1>1
          <5> QED
            BY <5>1, PowerGrows DEF Half
        <4>3. n \in -Power[T.bits - 1] .. Power[T.bits - 1] - 1
          BY <3>1 DEF ValuesOf
        <4>4. Converted(T, n) = n
          <5> DEFINE p == Power[T.bits - 1]
          <5>1. p \in Nat /\ p >= 1 /\ n \in -p .. p - 1 /\ Power[T.bits] = 2 * p
            BY <4>1, <4>3
          <5>2. Converted(T, n) = ((n + p) % (2 * p)) - p
            BY <3>1, <5>1 DEF Converted
          <5> HIDE DEF p
          <5> QED
            BY <5>1, <5>2, Centred
        <4> QED
          BY <1>2, <4>1, <4>2, <4>3, <4>4
      <3>2. CASE ~ T.signed
        <4>1. T.bits \in 0 .. Width - 1 /\ Width - 1 \in 0 .. Width
          BY <1>1, <1>4, <3>2
        <4>2. Power[T.bits] \in Nat /\ Power[T.bits] >= 1 /\ Power[T.bits] <= Half
          BY <1>1, <4>1, PowerGrows DEF Half
        <4>3. n \in 0 .. Power[T.bits] - 1
          BY <3>2 DEF ValuesOf
        <4>4. Converted(T, n) = n % Power[T.bits]
          BY <3>2 DEF Converted
        <4>5. \A p \in Nat : n \in 0 .. p - 1 => n % p = n
          OBVIOUS
        <4> QED
          BY <1>2, <4>2, <4>3, <4>4, <4>5
      <3> QED
        BY <3>1, <3>2
    <2>2. Wrap(n) = n
      BY <1>2, <2>1, Centred DEF Wrap
    <2>3. Common(T, MINT_MAX) = Half - 1 /\ Common(T, MINT_MIN) = -Half
      BY <1>4 DEF Common, MINT_MAX, MINT_MIN
    <2>4. getInteger(T, setInteger(n)) = n
      BY <2>1, <2>2 DEF getInteger, setInteger
    <2>5. CASE n >= Half - 1
      <3>1. n = Half - 1
        BY <1>2, <2>1, <2>5
      <3>2. setMintAndCheck(T, n) = [res |-> Half - 1, clipped |-> TRUE]
        BY <2>3, <2>5 DEF setMintAndCheck, MINT_MAX
      <3> QED
        BY <1>2, <1>4, <2>4, <3>1, <3>2 DEF IntegerKept, MINT_MAX
    <2>6. CASE ~ (n >= Half - 1) /\ n <= -Half
      <3>1. n = -Half
        BY <1>2, <2>1, <2>6
      <3>2. setMintAndCheck(T, n) = [res |-> -Half, clipped |-> TRUE]
        BY <2>3, <2>6 DEF setMintAndCheck, MINT_MIN
      <3> QED
        BY <1>2, <1>4, <2>1, <2>4, <3>1, <3>2 DEF IntegerKept, MINT_MIN, MINT_MAX
    <2>7. CASE ~ (n >= Half - 1) /\ ~ (n <= -Half)
      <3>1. n # Half - 1 /\ n # -Half
        BY <1>2, <2>1, <2>7
      <3>2. setMintAndCheck(T, n) = [res |-> n, clipped |-> FALSE]
        BY <2>2, <2>3, <2>7 DEF setMintAndCheck, setInteger
      <3> QED
        BY <1>2, <1>4, <2>1, <2>4, <3>1, <3>2 DEF IntegerKept, MINT_MIN, MINT_MAX
    <2> QED
      BY <2>5, <2>6, <2>7
  <1> QED
    BY <1>3, <1>4

-----------------------------------------------------------------------------
(* Arguments: packs.                                                       *)

\* The same from the first position of a sequence.
ChainedIn(n, V) == [2 .. n -> [V -> V]]
Chain(n, V, z, step) == \E f \in [1 .. n -> V] : f[1] = z /\ \A i \in 2 .. n : f[i] = step[i][f[i - 1]]

LEMMA Onward ==
  ASSUME NEW n \in Nat \ {0}, NEW V, NEW z \in V, NEW step \in ChainedIn(n, V)
  PROVE  Chain(n, V, z, step)
  <1> DEFINE m == n - 1
             shifted == [i \in 1 .. m |-> step[i + 1]]
  <1>1. m \in Nat /\ n = m + 1
    OBVIOUS
  <1>2. shifted \in StepsIn(m, V)
    <2>1. \A i \in 1 .. m : i + 1 \in 2 .. n
      OBVIOUS
    <2> QED
      BY <2>1 DEF StepsIn, ChainedIn
  <1>3. Climbs(m, V, z, shifted)
    <2> HIDE DEF m, shifted
    <2> QED
      BY <1>1, <1>2, Upward
  <1>4. PICK g \in [0 .. m -> V] : g[0] = z /\ \A i \in 1 .. m : g[i] = shifted[i][g[i - 1]]
    BY <1>3 DEF Climbs
  <1> DEFINE f == [i \in 1 .. n |-> g[i - 1]]
  <1>5. \A i \in 1 .. n : i - 1 \in 0 .. m
    OBVIOUS
  <1>6. f \in [1 .. n -> V]
    BY <1>5
  <1>7. f[1] = z
    BY <1>4, 1 \in 1 .. n, 1 - 1 = 0
  <1>8. ASSUME NEW i \in 2 .. n PROVE f[i] = step[i][f[i - 1]]
    <2>1. i - 1 \in 1 .. m /\ (i - 1) + 1 = i /\ i \in 1 .. n /\ i - 1 \in 1 .. n
      OBVIOUS
    <2>2. g[i - 1] = shifted[i - 1][g[(i - 1) - 1]]
      BY <1>4, <2>1
    <2>3. shifted[i - 1] = step[i]
      BY <2>1
    <2> QED
      BY <2>1, <2>2, <2>3
  <1> QED
    BY <1>6, <1>7, <1>8 DEF Chain

\* Or from all the values before it.
CourseIn(n, V) == [0 .. n -> [[0 .. n -> V] -> V]]
Earlier(n, V, step) ==
    \A T \in 0 .. n : \A f, g \in [0 .. n -> V] : (\A S \in 0 .. T - 1 : f[S] = g[S]) => step[T][f] = step[T][g]
Recurs(n, V, step) == \E f \in [0 .. n -> V] : \A T \in 0 .. n : f[T] = step[T][f]

LEMMA CourseOfValues ==
  ASSUME NEW n \in Nat, NEW V, V # {}, NEW step \in CourseIn(n, V), Earlier(n, V, step)
  PROVE  Recurs(n, V, step)
  <1> DEFINE To(j, f) == \A T \in 0 .. j - 1 : f[T] = step[T][f]
             Can == {j \in 0 .. n + 1 : \E f \in [0 .. n -> V] : To(j, f)}
  <1>1. 0 \in Can
    <2>1. PICK w : w \in V
      OBVIOUS
    <2> DEFINE f == [i \in 0 .. n |-> w]
    <2>2. f \in [0 .. n -> V] /\ 0 \in 0 .. n + 1
      BY <2>1
    <2>3. To(0, f)
      OBVIOUS
    <2> QED
      BY <2>2, <2>3
  <1>2. ASSUME NEW j \in 0 .. n + 1 - 1, j \in Can PROVE j + 1 \in Can
    <2>1. PICK f \in [0 .. n -> V] : To(j, f)
      BY <1>2
    <2>2. j \in 0 .. n /\ j + 1 \in 0 .. n + 1 /\ (j + 1) - 1 = j
      OBVIOUS
    <2> DEFINE v == step[j][f]
               g == [i \in 0 .. n |-> IF i = j THEN v ELSE f[i]]
    <2>3. v \in V
      BY <2>2 DEF CourseIn
    <2> HIDE DEF v
    <2>4. g \in [0 .. n -> V]
      BY <2>3
    <2>5. \A i \in 0 .. n : i # j => g[i] = f[i]
      OBVIOUS
    <2>6. g[j] = v
      BY <2>2
    <2> HIDE DEF g
    <2>7. ASSUME NEW T \in 0 .. j PROVE step[T][g] = step[T][f]
      <3>1. T \in 0 .. n /\ \A S \in 0 .. T - 1 : S \in 0 .. n /\ S # j
        BY <2>2
      <3>2. \A S \in 0 .. T - 1 : g[S] = f[S]
        BY <2>5, <3>1
      <3> QED
        BY <2>4, <3>1, <3>2 DEF Earlier
    <2>8. ASSUME NEW T \in 0 .. (j + 1) - 1 PROVE g[T] = step[T][g]
      <3>1. T \in 0 .. j /\ T \in 0 .. n
        BY <2>2
      <3>2. CASE T = j
        BY <2>6, <2>7, <3>1, <3>2 DEF v
      <3>3. CASE T # j
        <4>1. T \in 0 .. j - 1
          BY <3>1, <3>3
        <4>2. f[T] = step[T][f]
          BY <2>1, <4>1
        <4> QED
          BY <2>5, <2>7, <3>1, <3>3, <4>2
      <3> QED
        BY <3>2, <3>3
    <2> QED
      BY <2>2, <2>4, <2>8
  <1>3. 0 .. n + 1 \subseteq Can
    <2> HIDE DEF Can
    <2> QED
      BY <1>1, <1>2, UpTo, n + 1 \in Nat
  <1>4. n + 1 \in Can
    <2> HIDE DEF Can
    <2> QED
      BY <1>3, n + 1 \in 0 .. n + 1
  <1>5. PICK f \in [0 .. n -> V] : To(n + 1, f)
    BY <1>4
  <1>6. \A T \in 0 .. n : T \in 0 .. (n + 1) - 1
    OBVIOUS
  <1>7. \A T \in 0 .. n : f[T] = step[T][f]
    BY <1>5, <1>6
  <1> QED
    BY <1>7 DEF Recurs

\* Sequences one after another.
SequencesIn(n, S) == [1 .. n -> Seq(S)]
Joined(n, S, values) ==
    \E f \in [1 .. n -> Seq(S)] :
       /\ f[1] = values[1] /\ \A i \in 2 .. n : f[i] = f[i - 1] \o values[i]
       /\ FlattenSeq(values) = f[n]

LEMMA FlattenIs ==
  ASSUME NEW n \in Nat \ {0}, NEW S, NEW values \in SequencesIn(n, S)
  PROVE  Joined(n, S, values)
  <1> DEFINE V == Seq(S)
             Is(g) == g = [i \in 1 .. n |-> IF i = 1 THEN values[i] ELSE g[i - 1] \o values[i]]
             flat == CHOOSE g : Is(g)
             step == [i \in 2 .. n |-> [v \in V |-> v \o values[i]]]
  <1>0. values \in [1 .. n -> Seq(S)]
    BY DEF SequencesIn
  <1>1. FlattenSeq(values) = flat[n]
    <2>1. Len(values) = n /\ n # 0
      BY <1>0, LengthIs
    <2> QED
      BY <2>1 DEF FlattenSeq
  <1>2. \A i \in 2 .. n : i \in 1 .. n /\ i - 1 \in 1 .. n /\ i # 1
    OBVIOUS
  <1>3. step \in ChainedIn(n, V)
    BY <1>0, <1>2 DEF ChainedIn
  <1>4. \A i \in 2 .. n, v \in V : step[i][v] = v \o values[i]
    OBVIOUS
  <1>5. values[1] \in V /\ 1 \in 1 .. n /\ n \in 1 .. n
    BY <1>0
  <1>6. Chain(n, V, values[1], step)
    <2> HIDE DEF step, V
    <2> QED
      BY <1>3, <1>5, Onward
  <1> HIDE DEF step
  <1>7. PICK f \in [1 .. n -> V] : f[1] = values[1] /\ \A i \in 2 .. n : f[i] = step[i][f[i - 1]]
    BY <1>6 DEF Chain
  <1>8. \A i \in 2 .. n : f[i] = f[i - 1] \o values[i]
    BY <1>2, <1>4, <1>7
  <1>9. \A i \in 1 .. n : i = 1 \/ i \in 2 .. n
    OBVIOUS
  <1>10. Is(f)
    BY <1>2, <1>7, <1>8, <1>9
  <1>11. Is(flat)
    BY <1>10
  <1> HIDE DEF flat
  <1>12. flat[1] = values[1] /\ \A i \in 2 .. n : flat[i] = flat[i - 1] \o values[i]
    BY <1>2, <1>5, <1>11
  <1>13. flat = f
    <2> DEFINE Good == {i \in 0 .. n : i = 0 \/ flat[i] = f[i]}
    <2>1. 0 \in Good
      OBVIOUS
    <2>2. ASSUME NEW k \in 0 .. n - 1, k \in Good PROVE k + 1 \in Good
      <3>1. k + 1 \in 0 .. n /\ (k = 0 \/ (k + 1 \in 2 .. n /\ (k + 1) - 1 = k /\ k # 0))
        OBVIOUS
      <3>2. CASE k = 0
        BY <1>7, <1>12, <3>1, <3>2
      <3>3. CASE k # 0
        <4>1. k + 1 \in 2 .. n /\ (k + 1) - 1 = k /\ flat[k] = f[k]
          BY <2>2, <3>1, <3>3
        <4>2. f[k + 1] = f[k] \o values[k + 1] /\ flat[k + 1] = flat[k] \o values[k + 1]
          BY <1>8, <1>12, <3>1, <4>1
        <4> QED
          BY <3>1, <4>1, <4>2
      <3> QED
        BY <3>2, <3>3
    <2> HIDE DEF Good
    <2>3. 0 .. n \subseteq Good
      BY <2>1, <2>2, UpTo
    <2>4. \A i \in 1 .. n : i \in 0 .. n /\ i # 0
      OBVIOUS
    <2>5. \A i \in 1 .. n : flat[i] = f[i]
      BY <2>3, <2>4 DEF Good
    <2>6. flat = [i \in 1 .. n |-> flat[i]]
      BY <1>11
    <2>7. f = [i \in 1 .. n |-> f[i]]
      OBVIOUS
    <2> QED
      BY <2>5, <2>6, <2>7
  <1> QED
    BY <1>1, <1>7, <1>8, <1>13 DEF Joined

LEMMA TypesAre ==
  /\ Len(CorrespondingTypes) \in Nat
  /\ CustomTypes = 1 .. Len(CorrespondingTypes)
  /\ Types = 0 .. Len(CorrespondingTypes)
  /\ \A T \in CustomTypes : /\ CorrespondingTypes[T] \in Seq(0 .. T - 1)
                            /\ CorrespondingTypes[T] \in Seq(Types)
  <1>1. CorrespondingTypes \in Seq(Seq(Nat))
    BY ArgumentsAssumption
  <1>2. Len(CorrespondingTypes) \in Nat /\ CustomTypes = 1 .. Len(CorrespondingTypes)
    BY <1>1 DEF CustomTypes
  <1>3. Types = 0 .. Len(CorrespondingTypes)
    BY <1>2 DEF Types, Basic
  <1>4. ASSUME NEW T \in CustomTypes
        PROVE  CorrespondingTypes[T] \in Seq(0 .. T - 1) /\ CorrespondingTypes[T] \in Seq(Types)
    <2> DEFINE of == CorrespondingTypes[T]
    <2>1. of \in Seq(Nat) /\ T \in 1 .. Len(CorrespondingTypes)
      BY <1>1, <1>2
    <2>2. \A i \in DOMAIN of : of[i] < T
      BY ArgumentsAssumption
    <2> HIDE DEF of
    <2>3. \A i \in DOMAIN of : of[i] \in 0 .. T - 1 /\ of[i] \in Types
      BY <1>2, <1>3, <2>1, <2>2
    <2>4. of \in [1 .. Len(of) -> 0 .. T - 1] /\ of \in [1 .. Len(of) -> Types] /\ Len(of) \in Nat
      BY <2>1, <2>3
    <2>5. of \in Seq(0 .. T - 1)
      <3> DEFINE S == 0 .. T - 1
      <3>1. of \in [1 .. Len(of) -> S] /\ Len(of) \in Nat
        BY <2>4
      <3> HIDE DEF S
      <3>2. of \in Seq(S)
        BY <3>1, LengthIs
      <3> QED
        BY <3>2 DEF S
    <2>6. of \in Seq(Types)
      BY <2>4, LengthIs
    <2> QED
      BY <2>5, <2>6 DEF of
  <1> QED
    BY <1>2, <1>3, <1>4

LEMMA SlotsAre ==
  ASSUME NEW T \in Types
  PROVE  getArgSlotCount(T) \in Nat
  <1>1. CASE T \in CustomTypes
    BY <1>1, TypesAre DEF getArgSlotCount
  <1>2. CASE T \notin CustomTypes
    BY <1>2 DEF getArgSlotCount
  <1> QED
    BY <1>1, <1>2

LEMMA OffsetsAre ==
  ASSUME NEW types \in Seq(Types), NEW I0 \in Nat
  PROVE  /\ getOffsets(I0, types) \in [DOMAIN types -> Nat]
         /\ types # <<>> => getOffsets(I0, types)[1] = I0
         /\ \A i \in 2 .. Len(types) :
               getOffsets(I0, types)[i] = getOffsets(I0, types)[i - 1] + getArgSlotCount(types[i - 1])
  <1> DEFINE n == Len(types)
             Is(g) == g = [i \in 1 .. n |-> IF i = 1 THEN I0 ELSE g[i - 1] + getArgSlotCount(types[i - 1])]
             offsets == CHOOSE g : Is(g)
             step == [i \in 2 .. n |-> [v \in Nat |-> v + getArgSlotCount(types[i - 1])]]
  <1>1. n \in Nat /\ DOMAIN types = 1 .. n
    OBVIOUS
  <1>2. getOffsets(I0, types) = offsets
    BY <1>1 DEF getOffsets
  <1> HIDE DEF n
  <1>3. CASE n = 0
    <2>1. types = <<>> /\ 1 .. n = {} /\ 2 .. n = {}
      BY <1>3 DEF n
    <2> DEFINE f == [i \in 1 .. n |-> IF i = 1 THEN I0 ELSE 0]
    <2>2. Is(f)
      BY <2>1
    <2>3. Is(offsets)
      BY <2>2
    <2> HIDE DEF offsets
    <2>4. offsets \in [1 .. n -> Nat]
      BY <2>1, <2>3
    <2> QED
      BY <1>1, <1>2, <2>1, <2>4 DEF n
  <1>4. CASE n # 0
    <2>1. n \in Nat \ {0} /\ 1 \in 1 .. n
      BY <1>1, <1>4
    <2>2. \A i \in 2 .. n : i \in 1 .. n /\ i - 1 \in 1 .. n /\ i # 1
      BY <1>1
    <2>3. \A i \in 2 .. n : getArgSlotCount(types[i - 1]) \in Nat
      BY <1>1, <2>2, SlotsAre
    <2>4. step \in ChainedIn(n, Nat)
      BY <2>3 DEF ChainedIn
    <2>5. \A i \in 2 .. n, v \in Nat : step[i][v] = v + getArgSlotCount(types[i - 1])
      OBVIOUS
    <2> HIDE DEF step
    <2>6. Chain(n, Nat, I0, step)
      BY <2>1, <2>4, Onward
    <2>7. PICK f \in [1 .. n -> Nat] : f[1] = I0 /\ \A i \in 2 .. n : f[i] = step[i][f[i - 1]]
      BY <2>6 DEF Chain
    <2>8. \A i \in 1 .. n : i = 1 \/ i \in 2 .. n
      BY <1>1
    <2>9. \A i \in 2 .. n : f[i] = f[i - 1] + getArgSlotCount(types[i - 1])
      BY <2>2, <2>5, <2>7
    <2>10. Is(f)
      BY <2>2, <2>7, <2>8, <2>9
    <2>11. Is(offsets)
      BY <2>10
    <2> HIDE DEF offsets
    <2>12. /\ offsets[1] = I0
           /\ \A i \in 2 .. n : offsets[i] = offsets[i - 1] + getArgSlotCount(types[i - 1])
      BY <2>1, <2>2, <2>11
    <2>13. offsets \in [1 .. n -> Nat]
      <3> DEFINE Good == {i \in 0 .. n : i = 0 \/ offsets[i] \in Nat}
      <3>1. 0 \in Good
        BY <1>1
      <3>2. ASSUME NEW k \in 0 .. n - 1, k \in Good PROVE k + 1 \in Good
        <4>1. k + 1 \in 0 .. n /\ (k = 0 \/ (k + 1 \in 2 .. n /\ (k + 1) - 1 = k /\ k # 0))
          BY <1>1
        <4> QED
          BY <2>3, <2>12, <3>2, <4>1
      <3> HIDE DEF Good
      <3>3. 0 .. n \subseteq Good
        BY <1>1, <3>1, <3>2, UpTo
      <3>4. \A i \in 1 .. n : i \in 0 .. n /\ i # 0
        BY <1>1
      <3>5. \A i \in 1 .. n : offsets[i] \in Nat
        BY <3>3, <3>4 DEF Good
      <3>6. offsets = [i \in 1 .. n |-> offsets[i]]
        BY <2>11
      <3> QED
        BY <3>5, <3>6
    <2> QED
      BY <1>1, <1>2, <2>12, <2>13 DEF n
  <1> QED
    BY <1>3, <1>4

\* What comes of a value: the arguments it holds, or an exception.
Outcomes == {Error} \cup Seq(Nat)

LEMMA ErrorApart == Error \notin Seq(Nat)
  <1>1. Seq(Nat) \subseteq Seq(Int)
    OBVIOUS
  <1> QED
    BY <1>1, ArgumentsAssumption

LEMMA PackTyped ==
  ASSUME NEW argc \in Nat, NEW n \in Nat, NEW values \in [1 .. n -> Outcomes]
  PROVE  Pack(argc, values) \in Outcomes
  <1>1. CASE Len(values) > argc \/ Error \in Range(values)
    BY <1>1 DEF Pack, Outcomes
  <1>2. CASE ~ (Len(values) > argc \/ Error \in Range(values))
    <2>1. \A i \in 1 .. n : values[i] \in Seq(Nat)
      <3>1. DOMAIN values = 1 .. n
        OBVIOUS
      <3>2. \A i \in 1 .. n : values[i] # Error
        BY <1>2, <3>1 DEF Range
      <3> QED
        BY <3>2 DEF Outcomes
    <2>2. values \in [1 .. n -> Seq(Nat)]
      <3>1. values = [i \in 1 .. n |-> values[i]]
        OBVIOUS
      <3> QED
        BY <2>1, <3>1
    <2>3. Len(values) = n
      BY LengthIs
    <2>4. FlattenSeq(values) \in Seq(Nat)
      <3>1. CASE n = 0
        BY <2>2, <2>3, <3>1 DEF FlattenSeq
      <3>2. CASE n # 0
        <4>1. n \in Nat \ {0} /\ n \in 1 .. n
          BY <3>2
        <4>2. Joined(n, Nat, values)
          <5>1. values \in SequencesIn(n, Nat)
            BY <2>2 DEF SequencesIn
          <5> QED
            BY <4>1, <5>1, FlattenIs
        <4> QED
          BY <4>1, <4>2 DEF Joined
      <3> QED
        BY <3>1, <3>2
    <2> QED
      BY <1>2, <2>4 DEF Pack, Outcomes
  <1> QED
    BY <1>1, <1>2

\* The recursion of get ends, and does what it says.
LEMMA GetIs ==
  ASSUME NEW argc \in Nat, NEW T \in Types, NEW index \in Nat
  PROVE  /\ get(argc, T, index) \in Outcomes
         /\ get(argc, T, index) = IF T \in CustomTypes THEN getTuple(argc, CorrespondingTypes[T], index)
                                  ELSE IF index >= argc THEN Error ELSE <<index>>
  <1> DEFINE N == Len(CorrespondingTypes)
             V == [Nat -> Outcomes]
             Of(type) == CorrespondingTypes[type]
             Parts(g, type, from) ==
                 [i \in DOMAIN Of(type) |-> g[Of(type)[i]][getOffsets(from, Of(type))[i]]]
             One(from) == IF getArgs(argc, from) = Error THEN Error ELSE <<getArgs(argc, from)>>
             Val(g, type) ==
                 [from \in Nat |-> IF type \in CustomTypes THEN Pack(argc, Parts(g, type, from)) ELSE One(from)]
             Is(g) == g = [type \in Types |-> Val(g, type)]
             value == CHOOSE g : Is(g)
             step == [type \in 0 .. N |-> [g \in [0 .. N -> V] |-> Val(g, type)]]
  <1>1. \A t \in Types, i \in Nat : get(argc, t, i) = value[t][i]
    BY DEF get
  <1>2. N \in Nat /\ Types = 0 .. N /\ CustomTypes = 1 .. N
    BY TypesAre
  <1>3. \A from \in Nat : /\ One(from) = IF from >= argc THEN Error ELSE <<from>>
                          /\ One(from) \in Outcomes
    <2> SUFFICES ASSUME NEW from \in Nat
                 PROVE  /\ One(from) = IF from >= argc THEN Error ELSE <<from>>
                        /\ One(from) \in Outcomes
      OBVIOUS
    <2>1. from # Error
      BY ArraysAssumption
    <2>2. One(from) = IF from >= argc THEN Error ELSE <<from>>
      BY <2>1 DEF getArgs
    <2> QED
      BY <2>2 DEF Outcomes
  <1>4. ASSUME NEW type \in CustomTypes
        PROVE  /\ Of(type) \in Seq(0 .. type - 1) /\ Of(type) \in Seq(Types)
               /\ Len(Of(type)) \in Nat /\ DOMAIN Of(type) = 1 .. Len(Of(type))
               /\ \A i \in DOMAIN Of(type) : Of(type)[i] \in 0 .. type - 1 /\ Of(type)[i] \in Types
               /\ \A from \in Nat : \A i \in DOMAIN Of(type) : getOffsets(from, Of(type))[i] \in Nat
    <2> HIDE DEF Of
    <2>1. Of(type) \in Seq(0 .. type - 1) /\ Of(type) \in Seq(Types)
      BY TypesAre DEF Of
    <2>2. /\ Len(Of(type)) \in Nat /\ DOMAIN Of(type) = 1 .. Len(Of(type))
          /\ \A i \in DOMAIN Of(type) : Of(type)[i] \in 0 .. type - 1 /\ Of(type)[i] \in Types
      <3>1. \A S : Of(type) \in Seq(S) => /\ Len(Of(type)) \in Nat /\ DOMAIN Of(type) = 1 .. Len(Of(type))
                                         /\ \A i \in DOMAIN Of(type) : Of(type)[i] \in S
        OBVIOUS
      <3> QED
        BY <2>1, <3>1
    <2>3. ASSUME NEW from \in Nat, NEW i \in DOMAIN Of(type) PROVE getOffsets(from, Of(type))[i] \in Nat
      <3>1. getOffsets(from, Of(type)) \in [DOMAIN Of(type) -> Nat]
        BY <2>1, OffsetsAre
      <3> QED
        BY <3>1
    <2> QED
      BY <2>1, <2>2, <2>3
  <1> HIDE DEF Of, One, N
  <1>5. ASSUME NEW g, NEW type \in CustomTypes, \A S \in 0 .. type - 1 : g[S] \in V, NEW from \in Nat
        PROVE  Pack(argc, Parts(g, type, from)) \in Outcomes
    <2>1. \A i \in DOMAIN Of(type) : g[Of(type)[i]][getOffsets(from, Of(type))[i]] \in Outcomes
      BY <1>4, <1>5
    <2>2. Parts(g, type, from) \in [1 .. Len(Of(type)) -> Outcomes]
      BY <1>4, <2>1
    <2> HIDE DEF Parts
    <2> QED
      BY <1>4, <2>2, PackTyped
  <1>6. ASSUME NEW g, NEW type \in Types, \A S \in 0 .. type - 1 : g[S] \in V
        PROVE  Val(g, type) \in V
    <2> HIDE DEF Parts
    <2> QED
      BY <1>3, <1>5, <1>6
  <1>7. step \in CourseIn(N, V)
    <2> SUFFICES ASSUME NEW type \in 0 .. N, NEW g \in [0 .. N -> V] PROVE Val(g, type) \in V
      BY DEF CourseIn
    <2>1. \A S \in 0 .. type - 1 : g[S] \in V
      <3>1. \A S \in 0 .. type - 1 : S \in 0 .. N
        BY <1>2
      <3> HIDE DEF V
      <3> QED
        BY <3>1
    <2> HIDE DEF Val, V
    <2> QED
      BY <1>2, <1>6, <2>1
  <1>8. ASSUME NEW type \in Types, NEW f, NEW g, \A S \in 0 .. type - 1 : f[S] = g[S]
        PROVE  Val(f, type) = Val(g, type)
    <2>1. ASSUME NEW from \in Nat, type \in CustomTypes
          PROVE  Parts(f, type, from) = Parts(g, type, from)
      <3>1. \A i \in DOMAIN Of(type) : f[Of(type)[i]] = g[Of(type)[i]]
        BY <1>4, <1>8, <2>1
      <3> QED
        BY <3>1
    <2> HIDE DEF Parts
    <2> QED
      BY <2>1
  <1>9. Earlier(N, V, step)
    <2> HIDE DEF Val
    <2> QED
      BY <1>2, <1>8 DEF Earlier
  <1>10. V # {}
    <2>1. [from \in Nat |-> Error] \in V
      BY DEF Outcomes
    <2> QED
      BY <2>1
  <1>11. \A type \in 0 .. N, g \in [0 .. N -> V] : step[type][g] = Val(g, type)
    <2> HIDE DEF Val
    <2> QED
      OBVIOUS
  <1>12. Recurs(N, V, step)
    <2> HIDE DEF V, step
    <2> QED
      BY <1>2, <1>7, <1>9, <1>10, CourseOfValues
  <1>13. PICK f \in [0 .. N -> V] : \A type \in 0 .. N : f[type] = Val(f, type)
    <2> HIDE DEF V, step, Val
    <2> QED
      BY <1>11, <1>12 DEF Recurs
  <1>14. Is(f)
    <2> HIDE DEF V, Val
    <2> QED
      BY <1>2, <1>13
  <1>15. Is(value)
    <2> HIDE DEF Val
    <2> QED
      BY <1>14
  <1>16. \A type \in Types : value[type] = Val(value, type)
    <2> HIDE DEF Val, value
    <2> QED
      BY <1>15
  <1> HIDE DEF value
  <1>17. \A type \in Types : value[type] \in V
    <2> DEFINE Good == {n \in 0 .. N + 1 : \A type \in 0 .. n - 1 : value[type] \in V}
    <2>1. 0 \in Good
      BY <1>2
    <2>2. ASSUME NEW n \in 0 .. (N + 1) - 1, n \in Good PROVE n + 1 \in Good
      <3>1. n \in Types /\ n + 1 \in 0 .. N + 1
        BY <1>2
      <3>2. \A type \in 0 .. n - 1 : value[type] \in V
        BY <2>2
      <3>3. Val(value, n) \in V
        <4> HIDE DEF Val, V
        <4> QED
          BY <1>6, <3>1, <3>2
      <3>4. value[n] \in V
        <4> HIDE DEF Val, V
        <4> QED
          BY <1>16, <3>1, <3>3
      <3>5. \A type \in 0 .. (n + 1) - 1 : type = n \/ type \in 0 .. n - 1
        BY <3>1
      <3> HIDE DEF V
      <3> QED
        BY <3>1, <3>2, <3>4, <3>5
    <2> HIDE DEF Good
    <2>3. 0 .. N + 1 \subseteq Good
      <3>1. \A k \in 0 .. (N + 1) - 1 : k \in Good => k + 1 \in Good
        BY <2>2
      <3>2. N + 1 \in Nat
        BY <1>2
      <3> QED
        BY <2>1, <3>1, <3>2, UpTo
    <2>4. N + 1 \in Good
      BY <1>2, <2>3, N + 1 \in 0 .. N + 1
    <2>5. \A type \in Types : type \in 0 .. (N + 1) - 1
      BY <1>2
    <2> HIDE DEF V
    <2> QED
      BY <2>4, <2>5 DEF Good
  <1>18. value[T][index] = IF T \in CustomTypes THEN Pack(argc, Parts(value, T, index)) ELSE One(index)
    <2> HIDE DEF Parts
    <2> QED
      BY <1>16
  <1>19. T \in CustomTypes => Parts(value, T, index) = [i \in DOMAIN Of(T) |-> get(argc, Of(T)[i], getOffsets(index, Of(T))[i])]
    <2> SUFFICES ASSUME T \in CustomTypes
                 PROVE  \A i \in DOMAIN Of(T) : value[Of(T)[i]][getOffsets(index, Of(T))[i]] = get(argc, Of(T)[i], getOffsets(index, Of(T))[i])
      OBVIOUS
    <2> QED
      BY <1>1, <1>4
  <1>20. value[T][index] \in Outcomes
    BY <1>17
  <1> HIDE DEF Parts
  <1> QED
    BY <1>1, <1>3, <1>18, <1>19, <1>20 DEF getTuple, Of

LEMMA TotalNat ==
  ASSUME NEW n \in Nat, NEW terms \in [1 .. n -> Nat]
  PROVE  /\ Total(terms) \in Nat
         /\ \A i \in 1 .. n + 1 : Sums(terms)[i] \in Nat
  <1>1. terms \in [1 .. n -> Int]
    OBVIOUS
  <1>2. /\ Sums(terms)[n + 1] = 0
        /\ \A i \in 1 .. n : Sums(terms)[i] = terms[i] + Sums(terms)[i + 1]
    BY <1>1, SumsIs
  <1> DEFINE Good == {i \in 1 .. n + 1 : Sums(terms)[i] \in Nat}
  <1>3. n + 1 \in Good
    BY <1>2
  <1>4. ASSUME NEW i \in 1 .. n, i + 1 \in Good PROVE i \in Good
    BY <1>2, <1>4
  <1> HIDE DEF Good
  <1>5. 1 .. n + 1 \subseteq Good
    BY <1>3, <1>4, DownTo
  <1>6. \A i \in 1 .. n + 1 : Sums(terms)[i] \in Nat
    BY <1>5 DEF Good
  <1> QED
    BY <1>6, 1 \in 1 .. n + 1 DEF Total

LEMMA SizeIs ==
  ASSUME NEW T \in Types
  PROVE  /\ Size[T] \in Nat
         /\ Size[T] = IF T \in CustomTypes
                      THEN Total([i \in DOMAIN CorrespondingTypes[T] |-> Size[CorrespondingTypes[T][i]]])
                      ELSE 1
  <1> DEFINE N == Len(CorrespondingTypes)
             Of(type) == CorrespondingTypes[type]
             Parts(g, type) == [i \in DOMAIN Of(type) |-> g[Of(type)[i]]]
             Val(g, type) == IF type \in CustomTypes THEN Total(Parts(g, type)) ELSE 1
             Is(g) == g = [type \in Types |-> Val(g, type)]
             size == CHOOSE g : Is(g)
             step == [type \in 0 .. N |-> [g \in [0 .. N -> Nat] |-> Val(g, type)]]
  <1>1. Size = size
    BY DEF Size
  <1>2. N \in Nat /\ Types = 0 .. N /\ CustomTypes = 1 .. N
    BY TypesAre
  <1>4. ASSUME NEW type \in CustomTypes
        PROVE  /\ Len(Of(type)) \in Nat /\ DOMAIN Of(type) = 1 .. Len(Of(type))
               /\ \A i \in DOMAIN Of(type) : Of(type)[i] \in 0 .. type - 1
    <2> HIDE DEF Of
    <2>1. Of(type) \in Seq(0 .. type - 1)
      BY TypesAre DEF Of
    <2>2. \A S : Of(type) \in Seq(S) => /\ Len(Of(type)) \in Nat /\ DOMAIN Of(type) = 1 .. Len(Of(type))
                                        /\ \A i \in DOMAIN Of(type) : Of(type)[i] \in S
      OBVIOUS
    <2> QED
      BY <2>1, <2>2
  <1> HIDE DEF Of, N
  <1>6. ASSUME NEW g, NEW type \in Types, \A S \in 0 .. type - 1 : g[S] \in Nat
        PROVE  Val(g, type) \in Nat
    <2>1. CASE type \in CustomTypes
      <3>1. \A i \in DOMAIN Of(type) : g[Of(type)[i]] \in Nat
        BY <1>4, <1>6, <2>1
      <3>2. Parts(g, type) \in [1 .. Len(Of(type)) -> Nat]
        BY <1>4, <2>1, <3>1
      <3> HIDE DEF Parts
      <3> QED
        BY <1>4, <2>1, <3>2, TotalNat
    <2>2. CASE type \notin CustomTypes
      BY <2>2
    <2> QED
      BY <2>1, <2>2
  <1>7. step \in CourseIn(N, Nat)
    <2> SUFFICES ASSUME NEW type \in 0 .. N, NEW g \in [0 .. N -> Nat] PROVE Val(g, type) \in Nat
      BY DEF CourseIn
    <2>1. \A S \in 0 .. type - 1 : g[S] \in Nat
      <3>1. \A S \in 0 .. type - 1 : S \in 0 .. N
        BY <1>2
      <3> QED
        BY <3>1
    <2> HIDE DEF Val
    <2> QED
      BY <1>2, <1>6, <2>1
  <1>8. ASSUME NEW type \in Types, NEW f, NEW g, \A S \in 0 .. type - 1 : f[S] = g[S]
        PROVE  Val(f, type) = Val(g, type)
    <2>1. ASSUME type \in CustomTypes
          PROVE  Parts(f, type) = Parts(g, type)
      <3>1. \A i \in DOMAIN Of(type) : f[Of(type)[i]] = g[Of(type)[i]]
        BY <1>4, <1>8, <2>1
      <3> QED
        BY <3>1
    <2> HIDE DEF Parts
    <2> QED
      BY <2>1
  <1>9. Earlier(N, Nat, step)
    <2> HIDE DEF Val
    <2> QED
      BY <1>2, <1>8 DEF Earlier
  <1>11. \A type \in 0 .. N, g \in [0 .. N -> Nat] : step[type][g] = Val(g, type)
    <2> HIDE DEF Val
    <2> QED
      OBVIOUS
  <1>12. Recurs(N, Nat, step)
    <2> HIDE DEF step
    <2> QED
      BY <1>2, <1>7, <1>9, CourseOfValues, Nat # {}
  <1>13. PICK f \in [0 .. N -> Nat] : \A type \in 0 .. N : f[type] = Val(f, type)
    <2> HIDE DEF step, Val
    <2> QED
      BY <1>11, <1>12 DEF Recurs
  <1>14. Is(f)
    <2> HIDE DEF Val
    <2> QED
      BY <1>2, <1>13
  <1>15. Is(size)
    <2> HIDE DEF Val
    <2> QED
      BY <1>14
  <1>16. \A type \in Types : size[type] = Val(size, type)
    <2> HIDE DEF Val, size
    <2> QED
      BY <1>15
  <1> HIDE DEF size
  <1>17. \A type \in Types : size[type] \in Nat
    <2> DEFINE Good == {n \in 0 .. N + 1 : \A type \in 0 .. n - 1 : size[type] \in Nat}
    <2>1. 0 \in Good
      BY <1>2
    <2>2. ASSUME NEW n \in 0 .. (N + 1) - 1, n \in Good PROVE n + 1 \in Good
      <3>1. n \in Types /\ n + 1 \in 0 .. N + 1
        BY <1>2
      <3>2. \A type \in 0 .. n - 1 : size[type] \in Nat
        BY <2>2
      <3>3. Val(size, n) \in Nat
        <4> HIDE DEF Val
        <4> QED
          BY <1>6, <3>1, <3>2
      <3>4. size[n] \in Nat
        <4> HIDE DEF Val
        <4> QED
          BY <1>16, <3>1, <3>3
      <3>5. \A type \in 0 .. (n + 1) - 1 : type = n \/ type \in 0 .. n - 1
        BY <1>2, <3>1
      <3> QED
        BY <3>1, <3>2, <3>4, <3>5
    <2> HIDE DEF Good
    <2>3. 0 .. N + 1 \subseteq Good
      <3>1. \A k \in 0 .. (N + 1) - 1 : k \in Good => k + 1 \in Good
        BY <2>2
      <3>2. N + 1 \in Nat
        BY <1>2
      <3> QED
        BY <2>1, <3>1, <3>2, UpTo
    <2>4. N + 1 \in Good
      BY <1>2, <2>3, N + 1 \in 0 .. N + 1
    <2>5. \A type \in Types : type \in 0 .. (N + 1) - 1
      BY <1>2
    <2> QED
      BY <2>4, <2>5 DEF Good
  <1>18. Size[T] = Val(size, T)
    <2> HIDE DEF Val
    <2> QED
      BY <1>1, <1>16
  <1>19. Parts(size, T) = [i \in DOMAIN CorrespondingTypes[T] |-> Size[CorrespondingTypes[T][i]]]
    BY <1>1 DEF Of
  <1> HIDE DEF Parts
  <1> QED
    BY <1>1, <1>17, <1>18, <1>19

\* The arguments from i on, so many of them.
From(i, n) == [k \in 1 .. n |-> i + k - 1]
ReadAt(argc, i, n) == IF i + n > argc THEN Error ELSE From(i, n)

LEMMA FromIs ==
  ASSUME NEW i \in Nat, NEW n \in Nat, NEW m \in Nat
  PROVE  /\ From(i, n) \in Seq(Nat)
         /\ From(i, n) \o From(i + n, m) = From(i, n + m)
  <1>1. From(i, n) \in [1 .. n -> Nat] /\ From(i + n, m) \in [1 .. m -> Nat]
    BY DEF From
  <1>2. /\ From(i, n) \in Seq(Nat) /\ Len(From(i, n)) = n
        /\ From(i + n, m) \in Seq(Nat) /\ Len(From(i + n, m)) = m
    BY <1>1, LengthIs
  <1> DEFINE both == From(i, n) \o From(i + n, m)
  <1>3. /\ both \in Seq(Nat) /\ Len(both) = n + m
        /\ \A k \in 1 .. n + m : both[k] = IF k <= n THEN From(i, n)[k] ELSE From(i + n, m)[k - n]
    <2> DEFINE a == From(i, n)
               b == From(i + n, m)
    <2>1. a \in Seq(Nat) /\ Len(a) = n /\ b \in Seq(Nat) /\ Len(b) = m
      BY <1>2
    <2> HIDE DEF a, b
    <2>2. /\ a \o b \in Seq(Nat) /\ Len(a \o b) = Len(a) + Len(b)
          /\ \A k \in 1 .. Len(a) + Len(b) : (a \o b)[k] = IF k <= Len(a) THEN a[k] ELSE b[k - Len(a)]
      BY <2>1, ConcatProperties
    <2> QED
      BY <2>1, <2>2 DEF a, b
  <1> HIDE DEF both
  <1>4. ASSUME NEW k \in 1 .. n + m PROVE both[k] = From(i, n + m)[k]
    <2>1. From(i, n + m)[k] = i + k - 1
      BY DEF From
    <2>2. CASE k <= n
      <3>1. k \in 1 .. n /\ From(i, n)[k] = i + k - 1
        BY <2>2 DEF From
      <3>2. both[k] = From(i, n)[k]
        BY <1>3, <2>2
      <3> QED
        BY <2>1, <3>1, <3>2
    <2>3. CASE ~ (k <= n)
      <3>1. k - n \in 1 .. m /\ (i + n) + (k - n) - 1 = i + k - 1
        BY <2>3
      <3>2. both[k] = From(i + n, m)[k - n]
        BY <1>3, <2>3
      <3>3. From(i + n, m)[k - n] = (i + n) + (k - n) - 1
        BY <3>1 DEF From
      <3> QED
        BY <2>1, <3>1, <3>2, <3>3
    <2> QED
      BY <2>2, <2>3
  <1>5. both = [k \in 1 .. n + m |-> both[k]]
    BY <1>3
  <1>6. both = From(i, n + m)
    BY <1>4, <1>5 DEF From
  <1> QED
    BY <1>2, <1>6 DEF both

\* How many arguments each type of a pack is made from.
Sizes(types) == [i \in DOMAIN types |-> Size[types[i]]]

\* Each type of such a pack begins where the one before it ends, and the last
\* ends where the pack does.
LEMMA OffsetsAdd ==
  ASSUME NEW types \in Seq(Types), Straight(types), NEW index \in Nat,
         \A i \in DOMAIN types : Size[types[i]] >= 1
  PROVE  LET n == Len(types)
             begin(i) == getOffsets(index, types)[i]
             s == Sizes(types)
         IN  /\ n \in Nat \ {0} /\ s \in [1 .. n -> Nat] /\ Total(s) \in Nat
             /\ n <= Total(s)
             /\ begin(1) = index
             /\ \A i \in 2 .. n : begin(i) = begin(i - 1) + s[i - 1]
             /\ \A i \in 1 .. n : begin(i) \in Nat /\ begin(i) + s[i] <= index + Total(s)
             /\ begin(n) + s[n] = index + Total(s)
  <1> DEFINE n == Len(types)
             begin(i) == getOffsets(index, types)[i]
             s == Sizes(types)
             sum == Sums(s)
  <1>1. n \in Nat \ {0} /\ DOMAIN types = 1 .. n /\ types # <<>> /\ \A i \in 1 .. n : types[i] \in Types
    BY DEF Straight
  <1>2. /\ \A i \in 1 .. n : s[i] \in Nat /\ s[i] >= 1
        /\ s \in [1 .. n -> Nat] /\ s \in [1 .. n -> Int]
    <2>1. \A i \in 1 .. n : s[i] = Size[types[i]] /\ s[i] \in Nat /\ s[i] >= 1
      BY <1>1, SizeIs DEF Sizes
    <2>2. s = [i \in 1 .. n |-> s[i]]
      BY <1>1 DEF Sizes
    <2> HIDE DEF s, n
    <2> QED
      BY <2>1, <2>2
  <1>3. \A i \in 2 .. n : getArgSlotCount(types[i - 1]) = s[i - 1]
    BY <1>1 DEF Straight, Sizes
  <1>4. /\ \A i \in 1 .. n : begin(i) \in Nat
        /\ begin(1) = index
        /\ \A i \in 2 .. n : begin(i) = begin(i - 1) + getArgSlotCount(types[i - 1])
    BY <1>1, OffsetsAre
  <1> HIDE DEF s, begin, n
  <1>5. \A i \in 2 .. n : begin(i) = begin(i - 1) + s[i - 1]
    BY <1>3, <1>4
  <1>6. /\ Total(s) \in Nat /\ Total(s) = sum[1]
        /\ \A i \in 1 .. n + 1 : sum[i] \in Nat
        /\ sum[n + 1] = 0
        /\ \A i \in 1 .. n : sum[i] = s[i] + sum[i + 1]
    BY <1>1, <1>2, TotalNat, SumsIs DEF Total
  <1> HIDE DEF sum
  <1>7. \A i \in 1 .. n : begin(i) + sum[i] = index + sum[1]
    <2> DEFINE Good == {i \in 0 .. n : i = 0 \/ begin(i) + sum[i] = index + sum[1]}
    <2>1. 0 \in Good
      BY <1>1
    <2>2. ASSUME NEW k \in 0 .. n - 1, k \in Good PROVE k + 1 \in Good
      <3>1. k + 1 \in 0 .. n /\ k + 1 \in 1 .. n + 1 /\ k + 1 \in 1 .. n
        BY <1>1
      <3>2. CASE k = 0
        BY <1>4, <3>1, <3>2
      <3>3. CASE k # 0
        <4>1. k \in 1 .. n /\ k \in 1 .. n + 1 /\ k + 1 \in 2 .. n /\ (k + 1) - 1 = k
          BY <1>1, <3>3
        <4>2. begin(k + 1) = begin(k) + s[k]
          BY <1>5, <4>1
        <4>3. sum[k] = s[k] + sum[k + 1] /\ begin(k) + sum[k] = index + sum[1]
          BY <1>6, <2>2, <3>3, <4>1
        <4>4. begin(k) \in Nat /\ s[k] \in Nat /\ sum[k + 1] \in Nat /\ sum[k] \in Nat
          BY <1>2, <1>4, <1>6, <3>1, <4>1
        <4>5. begin(k + 1) + sum[k + 1] = index + sum[1]
          BY <4>2, <4>3, <4>4
        <4> QED
          BY <3>1, <4>5
      <3> QED
        BY <3>2, <3>3
    <2> HIDE DEF Good
    <2>3. 0 .. n \subseteq Good
      BY <1>1, <2>1, <2>2, UpTo
    <2>4. \A i \in 1 .. n : i \in 0 .. n /\ i # 0
      BY <1>1
    <2> QED
      BY <2>3, <2>4 DEF Good
  <1>8. n <= sum[1]
    <2> DEFINE Good == {i \in 1 .. n + 1 : n + 1 - i <= sum[i]}
    <2>1. n + 1 \in Good
      BY <1>1, <1>6
    <2>2. ASSUME NEW i \in 1 .. n, i + 1 \in Good PROVE i \in Good
      <3>1. i \in 1 .. n + 1 /\ i + 1 \in 1 .. n + 1
        BY <1>1
      <3>2. sum[i] = s[i] + sum[i + 1] /\ s[i] \in Nat /\ s[i] >= 1 /\ sum[i + 1] \in Nat
        BY <1>2, <1>6, <3>1
      <3>3. n + 1 - (i + 1) <= sum[i + 1]
        BY <2>2
      <3> QED
        BY <1>1, <3>1, <3>2, <3>3
    <2> HIDE DEF Good
    <2>3. 1 .. n + 1 \subseteq Good
      BY <1>1, <2>1, <2>2, DownTo
    <2>4. 1 \in Good
      BY <1>1, <2>3, 1 \in 1 .. n + 1
    <2> QED
      BY <1>1, <1>6, <2>4 DEF Good
  <1>9. \A i \in 1 .. n : begin(i) + s[i] <= index + sum[1] /\ (i = n => begin(i) + s[i] = index + sum[1])
    <2> SUFFICES ASSUME NEW i \in 1 .. n
                 PROVE  begin(i) + s[i] <= index + sum[1] /\ (i = n => begin(i) + s[i] = index + sum[1])
      OBVIOUS
    <2>1. i + 1 \in 1 .. n + 1 /\ 1 \in 1 .. n + 1
      BY <1>1
    <2>2. begin(i) \in Nat /\ s[i] \in Nat /\ sum[i + 1] \in Nat /\ sum[1] \in Nat /\ sum[i] = s[i] + sum[i + 1]
      BY <1>2, <1>4, <1>6, <2>1
    <2>3. begin(i) + sum[i] = index + sum[1]
      BY <1>7
    <2>4. i = n => sum[i + 1] = 0
      BY <1>6
    <2> QED
      BY <2>2, <2>3, <2>4
  <1>10. n \in 1 .. n
    BY <1>1
  <1>11. /\ n \in Nat \ {0} /\ s \in [1 .. n -> Nat] /\ Total(s) \in Nat
         /\ n <= Total(s)
         /\ begin(1) = index
         /\ \A i \in 2 .. n : begin(i) = begin(i - 1) + s[i - 1]
         /\ \A i \in 1 .. n : begin(i) \in Nat /\ begin(i) + s[i] <= index + Total(s)
         /\ begin(n) + s[n] = index + Total(s)
    BY <1>1, <1>2, <1>4, <1>5, <1>6, <1>8, <1>9, <1>10
  <1> QED
    BY <1>11 DEF n, begin, s

LEMMA PackReads ==
  ASSUME NEW types \in Seq(Types), Straight(types), NEW argc \in Nat, NEW index \in Nat,
         \A i \in DOMAIN types : /\ Size[types[i]] >= 1
                                 /\ \A from \in Nat : get(argc, types[i], from) = ReadAt(argc, from, Size[types[i]])
  PROVE  getTuple(argc, types, index) = ReadAt(argc, index, Total(Sizes(types)))
  <1> DEFINE n == Len(types)
             begin(i) == getOffsets(index, types)[i]
             s == Sizes(types)
             all == Total(s)
             values == [i \in DOMAIN types |-> get(argc, types[i], begin(i))]
  <1>1. /\ n \in Nat \ {0} /\ s \in [1 .. n -> Nat] /\ all \in Nat
        /\ n <= all
        /\ begin(1) = index
        /\ \A i \in 2 .. n : begin(i) = begin(i - 1) + s[i - 1]
        /\ \A i \in 1 .. n : begin(i) \in Nat /\ begin(i) + s[i] <= index + all
        /\ begin(n) + s[n] = index + all
    BY OffsetsAdd
  <1>2. DOMAIN types = 1 .. n
    OBVIOUS
  <1>3. \A i \in 1 .. n : values[i] = ReadAt(argc, begin(i), s[i])
    BY <1>1, <1>2 DEF Sizes
  <1>4. DOMAIN values = 1 .. n
    BY <1>2
  <1>5. getTuple(argc, types, index) = Pack(argc, values)
    BY DEF getTuple
  <1> HIDE DEF values, begin, s, n, all
  <1>6. Len(values) = n
    <2>1. values = [i \in 1 .. n |-> values[i]]
      BY <1>2, <1>4 DEF values
    <2>2. values \in [1 .. n -> {values[i] : i \in 1 .. n}]
      BY <2>1
    <2> QED
      BY <1>1, <2>2, LengthIs
  <1>7. n \in 1 .. n /\ 1 \in 1 .. n /\ \A i \in 1 .. n : begin(i) \in Nat /\ s[i] \in Nat
    BY <1>1
  <1>8. CASE index + all > argc
    <2>1. values[n] = Error
      BY <1>1, <1>3, <1>7, <1>8 DEF ReadAt
    <2>2. Error \in Range(values)
      BY <1>4, <1>7, <2>1 DEF Range
    <2> QED
      BY <1>5, <1>8, <2>2 DEF Pack, ReadAt, all, s
  <1>9. CASE ~ (index + all > argc)
    <2>1. \A i \in 1 .. n : values[i] = From(begin(i), s[i])
      <3> SUFFICES ASSUME NEW i \in 1 .. n PROVE values[i] = From(begin(i), s[i])
        OBVIOUS
      <3>1. ~ (begin(i) + s[i] > argc)
        BY <1>1, <1>7, <1>9
      <3> QED
        BY <1>3, <3>1 DEF ReadAt
    <2>2. \A i \in 1 .. n : values[i] \in Seq(Nat)
      <3> SUFFICES ASSUME NEW i \in 1 .. n PROVE values[i] \in Seq(Nat)
        OBVIOUS
      <3>1. begin(i) \in Nat /\ s[i] \in Nat /\ 0 \in Nat
        BY <1>7
      <3>2. From(begin(i), s[i]) \in Seq(Nat)
        BY <3>1, FromIs
      <3> QED
        BY <2>1, <3>2
    <2>3. Error \notin Range(values)
      BY <1>4, <2>2, ErrorApart DEF Range
    <2>4. ~ (n > argc)
      BY <1>1, <1>9
    <2>5. values \in SequencesIn(n, Nat)
      <3>1. values = [i \in 1 .. n |-> values[i]]
        BY <1>2, <1>4 DEF values
      <3> QED
        BY <2>2, <3>1 DEF SequencesIn
    <2>6. Joined(n, Nat, values)
      BY <1>1, <2>5, FlattenIs
    <2>7. PICK f \in [1 .. n -> Seq(Nat)] :
             /\ f[1] = values[1] /\ \A i \in 2 .. n : f[i] = f[i - 1] \o values[i]
             /\ FlattenSeq(values) = f[n]
      BY <2>6 DEF Joined
    <2>8. \A i \in 1 .. n : begin(i) >= index /\ f[i] = From(index, begin(i) + s[i] - index)
      <3> DEFINE Good == {i \in 0 .. n : i = 0 \/ (begin(i) >= index /\ f[i] = From(index, begin(i) + s[i] - index))}
      <3>1. 0 \in Good
        BY <1>1
      <3>2. ASSUME NEW k \in 0 .. n - 1, k \in Good PROVE k + 1 \in Good
        <4>1. k + 1 \in 0 .. n /\ k + 1 \in 1 .. n
          BY <1>1
        <4>2. CASE k = 0
          <5>1. begin(1) + s[1] - index = s[1]
            BY <1>1, <1>7
          <5> QED
            BY <1>1, <2>1, <2>7, <4>1, <4>2, <5>1
        <4>3. CASE k # 0
          <5>1. k \in 1 .. n /\ k + 1 \in 2 .. n /\ (k + 1) - 1 = k
            BY <1>1, <4>3
          <5>2. f[k + 1] = f[k] \o values[k + 1] /\ begin(k + 1) = begin(k) + s[k]
            BY <1>1, <2>7, <5>1
          <5>3. begin(k) >= index /\ f[k] = From(index, begin(k) + s[k] - index)
            BY <3>2, <4>3
          <5>4. begin(k) \in Nat /\ s[k] \in Nat /\ s[k + 1] \in Nat
            BY <1>7, <4>1, <5>1
          <5> DEFINE m == begin(k) + s[k] - index
          <5>5. m \in Nat /\ index + m = begin(k + 1)
            BY <5>2, <5>3, <5>4
          <5>6. f[k + 1] = From(index, m) \o From(index + m, s[k + 1])
            BY <2>1, <4>1, <5>2, <5>3, <5>5
          <5>7. begin(k + 1) >= index /\ m + s[k + 1] = begin(k + 1) + s[k + 1] - index
            BY <5>2, <5>3, <5>4
          <5> HIDE DEF m
          <5>8. f[k + 1] = From(index, m + s[k + 1])
            BY <5>4, <5>5, <5>6, FromIs
          <5> QED
            BY <4>1, <5>7, <5>8
        <4> QED
          BY <4>2, <4>3
      <3> HIDE DEF Good
      <3>3. 0 .. n \subseteq Good
        BY <1>1, <3>1, <3>2, UpTo
      <3>4. \A i \in 1 .. n : i \in 0 .. n /\ i # 0
        BY <1>1
      <3> QED
        BY <3>3, <3>4 DEF Good
    <2>9. begin(n) + s[n] - index = all
      <3>1. begin(n) \in Nat /\ s[n] \in Nat /\ all \in Nat /\ begin(n) + s[n] = index + all
        BY <1>1, <1>7
      <3> DEFINE a == begin(n)
                 b == s[n]
      <3>2. a \in Nat /\ b \in Nat /\ all \in Nat /\ a + b = index + all
        BY <3>1
      <3> HIDE DEF a, b
      <3>3. a + b - index = all
        BY <3>2
      <3> QED
        BY <3>3 DEF a, b
    <2>10. FlattenSeq(values) = From(index, all)
      BY <1>7, <2>7, <2>8, <2>9
    <2> QED
      BY <1>5, <1>6, <1>9, <2>3, <2>4, <2>10 DEF Pack, ReadAt, all, s
  <1> QED
    BY <1>8, <1>9

\* What a type that is well made takes, it reads.
LEMMA TypeReads ==
  ASSUME NEW argc \in Nat, NEW T \in WellMade
  PROVE  /\ T \in Types /\ Size[T] >= 1
         /\ \A from \in Nat : get(argc, T, from) = ReadAt(argc, from, Size[T])
  <1> DEFINE Well(t) == Size[t] >= 1 /\ \A from \in Nat : get(argc, t, from) = ReadAt(argc, from, Size[t])
             N == Len(CorrespondingTypes)
             Good == {n \in 0 .. N + 1 : \A t \in 0 .. n - 1 : t \in WellMade => Well(t)}
  <1>1. N \in Nat /\ Types = 0 .. N /\ CustomTypes = 1 .. N
    BY TypesAre
  <1>2. ASSUME NEW t \in WellMade
        PROVE  /\ t \in Types
               /\ t \in CustomTypes => Straight(CorrespondingTypes[t]) /\ Range(CorrespondingTypes[t]) \subseteq WellMade
    <2>1. PICK S \in SUBSET Types :
             /\ t \in S
             /\ \A u \in S \cap CustomTypes : Straight(CorrespondingTypes[u]) /\ Range(CorrespondingTypes[u]) \subseteq S
      BY DEF WellMade
    <2>2. S \subseteq WellMade
      BY <2>1 DEF WellMade
    <2> QED
      BY <2>1, <2>2
  <1>3. ASSUME NEW n \in 0 .. (N + 1) - 1, n \in Good PROVE n + 1 \in Good
    <2>1. n \in Types /\ n + 1 \in 0 .. N + 1
      BY <1>1
    <2>2. ASSUME n \in WellMade, n \in CustomTypes PROVE Well(n)
      <3> DEFINE of == CorrespondingTypes[n]
      <3>1. of \in Seq(0 .. n - 1) /\ of \in Seq(Types)
        BY <2>2, TypesAre
      <3>2. Straight(of) /\ Range(of) \subseteq WellMade
        BY <1>2, <2>2
      <3> HIDE DEF of, Well
      <3>3. \A i \in DOMAIN of : of[i] \in 0 .. n - 1 /\ of[i] \in WellMade
        BY <3>1, <3>2 DEF Range
      <3>4. \A i \in DOMAIN of : Well(of[i])
        BY <1>3, <3>3
      <3>5. \A i \in DOMAIN of : Size[of[i]] >= 1 /\ \A from \in Nat : get(argc, of[i], from) = ReadAt(argc, from, Size[of[i]])
        BY <3>4 DEF Well
      <3>6. Size[n] = Total(Sizes(of))
        BY <2>1, <2>2, SizeIs DEF of, Sizes
      <3>7. ASSUME NEW from \in Nat PROVE get(argc, n, from) = ReadAt(argc, from, Size[n])
        <4>1. getTuple(argc, of, from) = ReadAt(argc, from, Total(Sizes(of)))
          BY <3>1, <3>2, <3>5, PackReads
        <4>2. get(argc, n, from) = getTuple(argc, of, from)
          BY <2>1, <2>2, GetIs DEF of
        <4> QED
          BY <3>6, <4>1, <4>2
      <3>8. Size[n] >= 1
        <4>1. Len(of) \in Nat \ {0} /\ Len(of) <= Total(Sizes(of)) /\ Total(Sizes(of)) \in Nat
          BY <3>1, <3>2, <3>5, OffsetsAdd, 0 \in Nat
        <4> QED
          BY <3>6, <4>1
      <3> QED
        BY <3>7, <3>8 DEF Well
    <2>3. ASSUME n \notin CustomTypes PROVE Well(n)
      <3>1. Size[n] = 1
        BY <2>1, <2>3, SizeIs
      <3>2. ASSUME NEW from \in Nat PROVE get(argc, n, from) = ReadAt(argc, from, 1)
        <4>1. get(argc, n, from) = IF from >= argc THEN Error ELSE <<from>>
          BY <2>1, <2>3, GetIs
        <4>2. from + 1 > argc <=> from >= argc
          OBVIOUS
        <4>3. From(from, 1) = <<from>>
          <5>1. \A k \in 1 .. 1 : from + k - 1 = from
            OBVIOUS
          <5>2. From(from, 1) = [k \in 1 .. 1 |-> from]
            BY <5>1 DEF From
          <5> QED
            BY <5>2
        <4> QED
          BY <4>1, <4>2, <4>3 DEF ReadAt
      <3> QED
        BY <3>1, <3>2
    <2> HIDE DEF Well
    <2>4. \A t \in 0 .. (n + 1) - 1 : t = n \/ t \in 0 .. n - 1
      BY <1>1, <2>1
    <2> QED
      BY <1>3, <2>1, <2>2, <2>3, <2>4
  <1> HIDE DEF Well, N
  <1>4. 0 \in Good
    BY <1>1
  <1>5. 0 .. N + 1 \subseteq Good
    <2> HIDE DEF Good
    <2>1. \A k \in 0 .. (N + 1) - 1 : k \in Good => k + 1 \in Good
      BY <1>3
    <2>2. N + 1 \in Nat
      BY <1>1
    <2> QED
      BY <1>4, <2>1, <2>2, UpTo
  <1>6. N + 1 \in 0 .. N + 1 /\ T \in 0 .. (N + 1) - 1
    BY <1>1, <1>2
  <1>7. Well(T)
    BY <1>5, <1>6
  <1> QED
    BY <1>2, <1>7 DEF Well

LEMMA PackHolds ==
  ASSUME NEW argc \in Nat, NEW types \in Seq(Types), NEW index \in Nat
  PROVE  PackReadsInOrder(argc, types, index)
  <1> SUFFICES ASSUME Straight(types), Range(types) \subseteq WellMade
               PROVE  getTuple(argc, types, index) = ReadAt(argc, index, Total(Sizes(types)))
    BY DEF PackReadsInOrder, ReadAt, From, Sizes
  <1>1. \A i \in DOMAIN types : types[i] \in WellMade
    BY DEF Range
  <1> QED
    BY <1>1, TypeReads, PackReads

(***************************************************************************)
(* For all types of the user's own and packs of any length in which every  *)
(* type but the last counts for as many arguments as it takes (Straight,   *)
(* here and in the types themselves; nothing is said of other packs),      *)
(* arguments are read in order, each once, or not at all.  An integer of   *)
(* any type, in a mint of any width, comes back as it was set; one that    *)
(* setMintAndCheck does not report is kept, and so are all those of types  *)
(* narrower than mint or signed (MArgumentManager.h:360, :808-863,         *)
(* :935-1000).                                                             *)
(***************************************************************************)
THEOREM ArgumentsHold == ArgumentsSpec => []ArgumentsSound
<1> DEFINE Inv == input = Nothing \/ input \in ArgumentInputs
<1>1. input = Nothing => Inv
  OBVIOUS
<1>2. Inv /\ [TakeArguments \/ PutAway]_input => Inv'
  BY DEF TakeArguments, PutAway
<1>3. Inv => ArgumentsSound
  <2> SUFFICES ASSUME input \in ArgumentInputs
               PROVE  /\ input.kind = "pack" => PackReadsInOrder(input.argc, input.types, input.index)
                      /\ input.kind = "integer" => IntegerKept(input.T, input.n)
    BY DEF ArgumentsSound
  <2>1. CASE input \in [kind : {"pack"}, argc : 0 .. MaxArgc, types : Packs, index : 0 .. MaxArgc]
    <3>1. input.kind = "pack" /\ input.argc \in Nat /\ input.index \in Nat /\ input.types \in Packs
      BY <2>1, PacksAssumption
    <3>2. PICK n \in 0 .. MaxPack : input.types \in [1 .. n -> Types]
      BY <3>1 DEF Packs
    <3>3. input.types \in Seq(Types)
      BY <3>2, LengthIs, n \in Nat, PacksAssumption
    <3> QED
      BY <3>1, <3>3, PackHolds
  <2>2. CASE input \in UNION {[kind : {"integer"}, T : {T}, n : ValuesOf(T)] : T \in IntegerTypes}
    <3>1. PICK T \in IntegerTypes : input \in [kind : {"integer"}, T : {T}, n : ValuesOf(T)]
      BY <2>2
    <3>2. input.kind = "integer" /\ input.T = T /\ input.n \in ValuesOf(T)
      BY <3>1
    <3> QED
      BY <3>2, IntegerHolds
  <2> QED
    BY <2>1, <2>2 DEF ArgumentInputs
<1> QED
  BY <1>1, <1>2, <1>3, PTL DEF ArgumentsSpec
=============================================================================
