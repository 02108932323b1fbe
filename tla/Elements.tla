------------------------------ MODULE Elements ------------------------------
(***************************************************************************)
(* What a library function takes up in one step, out of Arrays: an array   *)
(* or an image however it was made, or one of any type to be dispatched.   *)
(* The state is what is looked at.                                         *)
(***************************************************************************)
EXTENDS Arrays

CONSTANTS Nothing,
          MaxRank, MaxDim   \* bounds

ASSUME ElementsAssumption == MaxRank \in Nat /\ MaxDim \in Nat

VARIABLE input

DimLists == UNION {[1 .. n -> -1 .. MaxDim] : n \in 0 .. MaxRank}
Made == {Filled(n, Listed(dims)) : n \in 0 .. Capacity, dims \in DimLists}
        \cup {Filled(n, Checked(dims)) : n \in 0 .. Capacity, dims \in DimLists}
        \cup {Flat(n) : n \in 0 .. Half - 1}
        \cup {FromGeneric(dims) : dims \in {d \in DimLists : KernelMakes(d)}}
Spaces == UNION {[1 .. n -> 1 .. MaxDim] : n \in {2, 3}}

Inputs ==
    [kind : {"array"}, array : Made \ {Error}]
    \cup {im \in [kind : {"image"}, space : Spaces, channels : 1 .. 2, interleaved : BOOLEAN] :
             Product(im.space) * im.channels <= Capacity}
    \cup [kind : {"NumericArray", "Image", "Tensor"}]

Take == input = Nothing /\ input' \in Inputs
PutAway == input # Nothing /\ input' = Nothing

ElementsSpec == input = Nothing /\ [][Take \/ PutAway]_input

-----------------------------------------------------------------------------
(* Properties.                                                             *)

Accepted(a, n) == {s \in [1 .. n -> -1 .. Capacity] : at(a, s) # Error}

(***************************************************************************)
(* at() stays inside the array, however it was made: full lists of indices *)
(* reach every element once, shorter lists the first element of a part,    *)
(* flat indices all elements and no more.  Sizes that would wrap are       *)
(* refused by the kernel; LLU does not look.  The one exception is a part  *)
(* of an array without elements: at() accepts its indices.                 *)
(***************************************************************************)
AccessSound(a) ==
    LET d == a.d
        zeros(n) == [i \in 1 .. n |-> 0]
    IN  /\ d.flattenedLength = a.length
        /\ \A i \in -1 .. Capacity + 1 : getFlatIndexChecked(d, i) # Error <=> i \in 0 .. a.length - 1
        /\ {at(a, s) : s \in Accepted(a, rank(d))} = 0 .. a.length - 1
        /\ Cardinality(Accepted(a, rank(d))) = a.length
        /\ Accepted(a, rank(d) + 1) = {}
        /\ \A n \in 0 .. rank(d) - 1 : \A s \in Accepted(a, n) :
              a.length > 0 => at(a, s) = at(a, s \o zeros(rank(d) - n))
        /\ \A i \in -1 .. rank(d) : dimension(d, i) # Error <=> i \in 0 .. rank(d) - 1

(***************************************************************************)
(* Image<T>'s two ways to a pixel agree: at(), which counts from 0 in the  *)
(* order of LLU's dimensions, and get(), which counts from 1 and asks the  *)
(* kernel; for 2D and 3D images, interleaved or not.                       *)
(***************************************************************************)
PixelsAgree(im) ==
    \A pos \in [DOMAIN im.space -> 1 .. MaxDim], channel \in 1 .. im.channels :
       LET from0 == [i \in DOMAIN pos |-> pos[i] - 1]
           here == IF im.channels = 1 THEN from0
                   ELSE IF im.interleaved THEN Append(from0, channel - 1) ELSE <<channel - 1>> \o from0
       IN  at(FromImage(im), here) = getValueAt(im, pos, channel)

\* An array of any type that has an element type is passed on as one of that
\* type: the wrapper's own check never refuses what the dispatch chose.
DispatchAgrees(kind) ==
    /\ DOMAIN operateOn(kind) = Range(TypeOf(kind))
    /\ \A type \in DOMAIN operateOn(kind) : Wrapped(kind, operateOn(kind)[type], type) # Error
    /\ kind = "NumericArray" => NumericArrayFromEnum = operateOn(kind)

\* Reading and writing elements: the three properties above.
ArraysSound ==
    input # Nothing =>
       /\ input.kind = "array" => AccessSound(input.array)
       /\ input.kind = "image" => AccessSound(FromImage(input)) /\ PixelsAgree(input)
       /\ input.kind \in {"NumericArray", "Image", "Tensor"} => DispatchAgrees(input.kind)
=============================================================================
