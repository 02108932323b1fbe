----------------------------- MODULE Arguments ------------------------------
(***************************************************************************)
(* How MArgumentManager finds arguments and sets integers                  *)
(* (include/LLU/MArgumentManager.h): the slots of get and getTuple with    *)
(* types of the user's own, the width of integers, the owner that a        *)
(* passing mode stands for.  What throws gives Error.                      *)
(***************************************************************************)
EXTENDS Arrays   \* Error, and the width of a mint

CONSTANT CorrespondingTypes   \* of each CustomType

(***************************************************************************)
(* A type is a number: Basic for all that LLU reads from one argument, and *)
(* the user's own from 1 on, each made of a sequence of types.  As no type *)
(* is made of itself, they can be numbered in an order in which each is    *)
(* made of those before it.                                                *)
(***************************************************************************)
Basic == 0
CustomTypes == DOMAIN CorrespondingTypes
Types == {Basic} \cup CustomTypes

ASSUME ArgumentsAssumption ==
    /\ CorrespondingTypes \in Seq(Seq(Nat))
    /\ \A T \in CustomTypes : \A i \in DOMAIN CorrespondingTypes[T] : CorrespondingTypes[T][i] < T
    /\ Error \notin Seq(Int)

\* A type of the user's own takes as many as its types, whatever those take.
getArgSlotCount(T) == IF T \in CustomTypes THEN Len(CorrespondingTypes[T]) ELSE 1

\* Where each type of a pack begins.
getOffsets(I0, types) ==
    LET offsets[i \in DOMAIN types] ==
            IF i = 1 THEN I0 ELSE offsets[i - 1] + getArgSlotCount(types[i - 1])
    IN  offsets

getArgs(argc, index) == IF index >= argc THEN Error ELSE index

\* MArgPackGetter: what the values of a pack hold, unless one of them throws.
Pack(argc, values) ==
    IF Len(values) > argc \/ Error \in Range(values) THEN Error ELSE FlattenSeq(values)

\* The arguments that a value of type T holds if it begins at index, in order.
get(argc, T, index) ==
    LET value[type \in Types] ==
            [from \in Nat |->
               IF type \in CustomTypes
               THEN LET of == CorrespondingTypes[type]
                    IN  Pack(argc, [i \in DOMAIN of |-> value[of[i]][getOffsets(from, of)[i]]])
               ELSE IF getArgs(argc, from) = Error THEN Error ELSE <<getArgs(argc, from)>>]
    IN  value[T][index]

getTuple(argc, types, index) ==
    Pack(argc, [i \in DOMAIN types |-> get(argc, types[i], getOffsets(index, types)[i])])

-----------------------------------------------------------------------------
(* Integers.                                                               *)

IntegerTypes == [signed : BOOLEAN, bits : 1 .. Width]
Converted(T, n) ==
    IF T.signed THEN ((n + Power[T.bits - 1]) % Power[T.bits]) - Power[T.bits - 1] ELSE n % Power[T.bits]
ValuesOf(T) == IF T.signed THEN -Power[T.bits - 1] .. Power[T.bits - 1] - 1 ELSE 0 .. Power[T.bits] - 1

MINT_MAX == Half - 1
MINT_MIN == -Half

\* getInteger<T>: static_cast.
getInteger(T, n) == Converted(T, n)

setInteger(n) == Wrap(n)

\* The type that result and a mint are compared in.
Common(T, n) == IF ~ T.signed /\ T.bits = Width THEN n % Power[Width] ELSE n

\* Deviation: only the upper limit is looked at, and exactly.
setMintAndCheckUpper(T, result) ==
    IF result > Common(T, MINT_MAX) THEN [res |-> MINT_MIN, clipped |-> TRUE]
    ELSE [res |-> setInteger(result), clipped |-> FALSE]

setMintAndCheck(T, result) ==
    IF result >= Common(T, MINT_MAX) THEN [res |-> MINT_MAX, clipped |-> TRUE]
    ELSE IF result <= Common(T, MINT_MIN) THEN [res |-> MINT_MIN, clipped |-> TRUE]
    ELSE [res |-> setInteger(result), clipped |-> FALSE]
=============================================================================
