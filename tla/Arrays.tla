------------------------------- MODULE Arrays -------------------------------
(***************************************************************************)
(* Dimensions and elements of tensors, numeric arrays and images:          *)
(* MArrayDimensions, MArray, the constructors of the typed wrappers and    *)
(* the dispatch on types (include/LLU/Containers, include/LLU/Utilities,   *)
(* src/Containers/MArrayDimensions.cpp).  What throws gives Error.         *)
(***************************************************************************)
EXTENDS Integers, SequencesExt, FiniteSetsExt

CONSTANTS Error,        \* the outcome of an operation that throws
          Width,        \* of a mint
          Capacity      \* the kernel makes no array with more elements

\* Of two.
Power[n \in 0 .. Width] == IF n = 0 THEN 1 ELSE 2 * Power[n - 1]

\* Half the values of a mint are negative.
Half == Power[Width - 1]

ASSUME ArraysAssumption ==
    /\ Width \in Nat \ {0}
    /\ Capacity \in 0 .. Half - 1
    /\ Error \notin Int

\* What is left of a product or a sum in a mint.
Wrap(n) == ((n + Half) % (2 * Half)) - Half

\* Sums and products, from each position to the end: so many elements have
\* the same indices before the ith.
Sums(terms) ==
    LET from[i \in 1 .. Len(terms) + 1] == IF i > Len(terms) THEN 0 ELSE terms[i] + from[i + 1]
    IN  from
Extent(dims) ==
    LET from[i \in 1 .. Len(dims) + 1] == IF i > Len(dims) THEN 1 ELSE dims[i] * from[i + 1]
    IN  from

Total(terms) == Sums(terms)[1]
Product(dims) == Extent(dims)[1]

-----------------------------------------------------------------------------
(* MArrayDimensions.                                                       *)

totalLengthFromDims(dims) ==
    LET length[i \in 0 .. Len(dims)] == IF i = 0 THEN 1 ELSE Wrap(length[i - 1] * dims[i])
    IN  length[Len(dims)]

\* Deviation: the last dimension counts, and the first does not.
fillOffsetsShifted(dims) ==
    LET off[i \in DOMAIN dims] == IF i = Len(dims) THEN 1 ELSE Wrap(off[i + 1] * dims[i])
    IN  off

\* The last offset is 1, each before it that of the next, times its dimension.
fillOffsets(dims) ==
    LET off[i \in DOMAIN dims] == IF i = Len(dims) THEN 1 ELSE Wrap(off[i + 1] * dims[i + 1])
    IN  off

\* MArrayDimensions{...} looks at the number of dimensions only.
Listed(dims) == [dims |-> dims, offsets |-> fillOffsets(dims), flattenedLength |-> totalLengthFromDims(dims)]

\* From a range, a vector or the kernel's pointer: only the last may be 0.
Acceptable(dims) == \A i \in DOMAIN dims : dims[i] > 0 \/ (dims[i] = 0 /\ i = Len(dims))
Checked(dims) == IF Acceptable(dims) THEN Listed(dims) ELSE Error

rank(d) == Len(d.dims)

getIndex(d, indices) == Wrap(Total([i \in DOMAIN indices |-> indices[i] * d.offsets[i]]))

\* at() with a list of indices, which may be shorter than the rank.
getIndexChecked(d, indices) ==
    IF \/ Len(indices) > rank(d)
       \/ \E i \in DOMAIN indices : indices[i] < 0 \/ indices[i] >= d.dims[i]
    THEN Error ELSE getIndex(d, indices)

\* at() with one index, counted through the whole array.
getFlatIndexChecked(d, index) == IF index < 0 \/ index >= d.flattenedLength THEN Error ELSE index

\* MArray::at of a list of indices, on an array that has been made.
at(a, indices) == getIndexChecked(a.d, indices)

dimension(d, i) == IF i >= rank(d) \/ i < 0 THEN Error ELSE d.dims[i + 1]

-----------------------------------------------------------------------------
(* Arrays: the wrapper's dimensions and the elements behind it.            *)

KernelMakes(dims) == (\A i \in DOMAIN dims : dims[i] >= 0) /\ Product(dims) <= Capacity

\* Tensor<T>, NumericArray<T> of given dimensions, filled with n values.
Filled(n, d) ==
    IF d = Error THEN Error
    ELSE IF KernelMakes(d.dims) /\ n = Product(d.dims) THEN [d |-> d, length |-> n] ELSE Error

\* From a list, a range or a container: one dimension, its size.
Flat(n) == Filled(n, Listed(<<n>>))

\* Tensor<T>, NumericArray<T> around a generic one; T has to be its type.
FromGeneric(kernelDims) ==
    IF Acceptable(kernelDims) THEN [d |-> Listed(kernelDims), length |-> Product(kernelDims)] ELSE Error

\* Slices (if any), rows and columns; channels after them if interleaved,
\* before them if not, and left out if there is one.
dimensionsFromGenericImage(im) ==
    IF im.channels = 1 THEN im.space
    ELSE IF im.interleaved THEN Append(im.space, im.channels) ELSE <<im.channels>> \o im.space

\* Image<T> around a generic one.
FromImage(im) ==
    LET dims == dimensionsFromGenericImage(im)
    IN  IF Acceptable(dims) THEN [d |-> Listed(dims), length |-> Product(im.space) * im.channels] ELSE Error

\* The kernel's own access to an image: positions and channels from 1.
KernelPixel(im, pos, channel) ==
    LET dims == IF im.interleaved THEN Append(im.space, im.channels) ELSE <<im.channels>> \o im.space
        here == IF im.interleaved THEN Append(pos, channel) ELSE <<channel>> \o pos
    IN  IF \E i \in DOMAIN dims : here[i] \notin 1 .. dims[i] THEN Error
        ELSE Total([i \in DOMAIN dims |-> (here[i] - 1) * Extent(dims)[i + 1]])

\* Image<T>::get and set leave the check to the kernel.
getValueAt(im, pos, channel) == KernelPixel(im, pos, channel)

-----------------------------------------------------------------------------
(* Types of elements.                                                      *)

NumericArrayType ==
    [int8_t |-> "Bit8", uint8_t |-> "UBit8", int16_t |-> "Bit16", uint16_t |-> "UBit16", int32_t |-> "Bit32",
     uint32_t |-> "UBit32", int64_t |-> "Bit64", uint64_t |-> "UBit64", float |-> "Real32", double |-> "Real64",
     complex_float |-> "Complex_Real32", complex_double |-> "Complex_Real64"]
\* And back: what a NumericArray of a known type is made of.
NumericArrayFromEnum ==
    [Bit8 |-> "int8_t", UBit8 |-> "uint8_t", Bit16 |-> "int16_t", UBit16 |-> "uint16_t", Bit32 |-> "int32_t",
     UBit32 |-> "uint32_t", Bit64 |-> "int64_t", UBit64 |-> "uint64_t", Real32 |-> "float", Real64 |-> "double",
     Complex_Real32 |-> "complex_float", Complex_Real64 |-> "complex_double"]
ImageType == [int8_t |-> "Bit", uint8_t |-> "Bit8", uint16_t |-> "Bit16", float |-> "Real32", double |-> "Real"]
TensorType == [mint |-> "Integer", double |-> "Real", complex_double |-> "Complex"]

TypeOf(kind) == CASE kind = "NumericArray" -> NumericArrayType
                  [] kind = "Image" -> ImageType
                  [] OTHER -> TensorType

ASSUME TypesAssumption ==
    Error \notin DOMAIN NumericArrayType \cup DOMAIN ImageType \cup DOMAIN TensorType

\* A typed wrapper or view of T around an array of some type.
Wrapped(kind, T, type) == IF TypeOf(kind)[T] # type THEN Error ELSE T

\* operateOnNumericArray, operateOnImage, operateOnTensor and asTyped...: the
\* T that each type of array is passed on with; the others throw.
operateOn(kind) ==
    CASE kind = "NumericArray" ->
            [Bit8 |-> "int8_t", UBit8 |-> "uint8_t", Bit16 |-> "int16_t", UBit16 |-> "uint16_t",
             Bit32 |-> "int32_t", UBit32 |-> "uint32_t", Bit64 |-> "int64_t", UBit64 |-> "uint64_t",
             Real32 |-> "float", Real64 |-> "double",
             Complex_Real32 |-> "complex_float", Complex_Real64 |-> "complex_double"]
      [] kind = "Image" ->
            [Bit |-> "int8_t", Bit8 |-> "uint8_t", Bit16 |-> "uint16_t", Real32 |-> "float", Real |-> "double"]
      [] OTHER -> [Integer |-> "mint", Real |-> "double", Complex |-> "complex_double"]

=============================================================================
