---------------------------- MODULE ErrorManager ----------------------------
(***************************************************************************)
(* The registry of errors (src/ErrorLog/ErrorManager.cpp): the table of    *)
(* the library's own errors, the errors a paclet adds, the codes they get, *)
(* and the copy of all this that the Wolfram Language layer keeps.         *)
(***************************************************************************)
EXTENDS Integers, Sequences

CONSTANTS PacletErrors,  \* the name and message pairs a paclet registers
          MaxList        \* bound on the length of one registration

ASSUME RegistryAssumption ==
    /\ PacletErrors \subseteq [name : STRING, message : STRING]
    /\ MaxList \in Nat

VARIABLES
    paclet,        \* the entries of the map that a paclet has added
    nextErrorId,
    pending,       \* what registerPacletErrors has still to insert
    lut            \* the paclet's codes that the Wolfram Language layer has

registry == <<paclet, nextErrorId, pending, lut>>

\* ErrorName: the names of all errors that the library throws.
ErrorNames == <<
    "VersionError", "FunctionError", "MemoryError", "NumericalError", "DimensionsError",
    "RankError", "TypeError", "NoError", "LibDataError", "MArgumentIndexError",
    "MArgumentNumericArrayError", "MArgumentTensorError", "MArgumentImageError",
    "ErrorManagerThrowIdError", "ErrorManagerThrowNameError", "ErrorManagerCreateNameError",
    "NumericArrayNewError", "NumericArrayCloneError", "NumericArrayTypeError",
    "NumericArraySizeError", "NumericArrayIndexError", "NumericArrayConversionError",
    "TensorNewError", "TensorCloneError", "TensorTypeError", "TensorSizeError", "TensorIndexError",
    "SparseArrayCloneError", "SparseArrayTypeError", "SparseArrayFromPositionsError",
    "SparseArrayFromTensorError", "SparseArrayImplicitValueResetError",
    "SparseArrayImplicitValueError", "SparseArrayExplicitValuesError",
    "SparseArrayRowPointersError", "SparseArrayColumnIndicesError",
    "SparseArrayExplicitPositionsError", "SparseArrayToTensorError", "ImageNewError",
    "ImageCloneError", "ImageTypeError", "ImageSizeError", "ImageIndexError", "CreateFromNullError",
    "MArrayElementIndexError", "MArrayDimensionIndexError", "WSNullWSLinkError", "WSTestHeadError",
    "WSPutSymbolError", "WSPutFunctionError", "WSTestSymbolError", "WSWrongSymbolForBool",
    "WSGetListError", "WSGetScalarError", "WSGetStringError", "WSGetArrayError", "WSPutListError",
    "WSPutScalarError", "WSPutStringError", "WSPutArrayError", "WSGetSymbolError",
    "WSGetFunctionError", "WSPacketHandleError", "WSFlowControlError", "WSTransferToLoopbackError",
    "WSCreateLoopbackError", "WSLoopbackStackSizeError", "DLNullRawNode", "DLInvalidNodeType",
    "DLGetNodeDataError", "DLSharedDataStore", "DLPushBackTypeError", "ArgumentCreateNull",
    "ArgumentAddNodeMArgument", "Aborted", "ManagedExprInvalidID", "MLEDynamicTypeError",
    "MLENullInstance", "PathNotValidated", "InvalidOpenMode", "OpenFileFailed", "DVShared",
    "DVAPIError", "DVConstructorType", "BitVectorNew", "BitVectorClone" >>

\* The library's table, in the same order; one line repeats the one before.
LLUErrors == [i \in DOMAIN ErrorNames |->
                IF ErrorNames[i] = "MArrayDimensionIndexError" THEN "MArrayElementIndexError"
                                                               ELSE ErrorNames[i]]

VersionError == 7     \* the first code; later ones count down through 0

\* emplace keeps the first entry of a name; each entry takes a code.
Place(n) == CHOOSE i \in DOMAIN LLUErrors :
               /\ LLUErrors[i] = n
               /\ \A j \in 1 .. i-1 : LLUErrors[j] # n

LLUNames == {LLUErrors[i] : i \in DOMAIN LLUErrors}
LLUCodes == [n \in LLUNames |-> VersionError + 1 - Place(n)]

Registered == LLUNames \cup DOMAIN paclet
Code(n) == IF n \in LLUNames THEN LLUCodes[n] ELSE paclet[n].id
Message(n) == IF n \in LLUNames THEN "LLU" ELSE paclet[n].message

-----------------------------------------------------------------------------
RegistryInit ==
    /\ paclet = [n \in {} |-> 0]
    /\ nextErrorId = VersionError - Len(LLUErrors)
    /\ pending = <<>>
    /\ lut = [n \in {} |-> 0]

RegisterPacletErrors(errs) ==
    /\ pending = <<>>
    /\ pending' = errs
    /\ UNCHANGED <<paclet, nextErrorId, lut>>

Insert(err, id) ==
    paclet' = [n \in DOMAIN paclet \cup {err.name} |->
                 IF n = err.name THEN [id |-> id, message |-> err.message]
                                 ELSE paclet[n]]

\* set inserts a new error under the next code.
SetNew ==
    /\ pending # <<>>
    /\ Head(pending).name \notin Registered
    /\ Insert(Head(pending), nextErrorId)
    /\ nextErrorId' = nextErrorId - 1
    /\ pending' = Tail(pending)
    /\ UNCHANGED lut

(***************************************************************************)
(* A name that is there already: the code is given back.  A different      *)
(* message throws; what the list held before it stays, the rest is lost.   *)
(***************************************************************************)

\* Deviation: the code is given back whether or not it had been taken.
SetExistingTwice ==
    /\ pending # <<>>
    /\ Head(pending).name \in Registered
    /\ pending' = IF Message(Head(pending).name) = Head(pending).message
                  THEN Tail(pending) ELSE <<>>
    /\ nextErrorId' = nextErrorId + 1
    /\ UNCHANGED <<paclet, lut>>

SetExisting ==
    /\ pending # <<>>
    /\ Head(pending).name \in Registered
    /\ pending' = IF Message(Head(pending).name) = Head(pending).message
                  THEN Tail(pending) ELSE <<>>
    /\ UNCHANGED <<paclet, nextErrorId, lut>>

\* The Wolfram Language layer asks for all codes; LLUCodes are always the same.
SendRegisteredErrors ==
    /\ pending = <<>>
    /\ lut' = [n \in DOMAIN paclet |-> paclet[n].id]
    /\ UNCHANGED <<paclet, nextErrorId, pending>>

RegistryNext ==
    \/ \E n \in 1 .. MaxList : \E errs \in [1 .. n -> PacletErrors] :
         RegisterPacletErrors(errs)
    \/ SetNew \/ SetExisting \/ SendRegisteredErrors

RegistrySpec == RegistryInit /\ [][RegistryNext]_registry

-----------------------------------------------------------------------------
RegistryTypeOK ==
    /\ DOMAIN paclet \in SUBSET {e.name : e \in PacletErrors}
    /\ \A n \in DOMAIN paclet : paclet[n] \in [id : Int, message : STRING]
    /\ nextErrorId \in Int
    /\ pending \in Seq(PacletErrors)
    /\ \A n \in DOMAIN lut : lut[n] \in Int

\* The invariant behind ErrorIdentified: codes count down, one per error.
CodesDescend ==
    /\ \A n \in DOMAIN lut : n \in DOMAIN paclet /\ lut[n] = paclet[n].id
    /\ nextErrorId <= VersionError - Len(LLUErrors)
    /\ \A n \in DOMAIN paclet :
         /\ n \notin LLUNames
         /\ nextErrorId < paclet[n].id
         /\ paclet[n].id <= VersionError - Len(LLUErrors)
    /\ \A n1, n2 \in DOMAIN paclet : paclet[n1].id = paclet[n2].id => n1 = n2

LLUCodesDiffer == \A n1, n2 \in LLUNames : LLUCodes[n1] = LLUCodes[n2] => n1 = n2

(***************************************************************************)
(* A code identifies one error and keeps identifying it: two errors never  *)
(* share a code, whatever was registered twice or refused half way, and    *)
(* every code the Wolfram Language layer received earlier is still the     *)
(* code of the same name.                                                  *)
(***************************************************************************)
ErrorIdentified ==
    /\ LLUCodesDiffer
    /\ \A n1 \in Registered, n2 \in DOMAIN paclet :
         Code(n1) = Code(n2) => n1 = n2
    /\ \A n \in DOMAIN lut : n \in Registered /\ lut[n] = Code(n)
=============================================================================
