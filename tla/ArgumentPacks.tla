--------------------------- MODULE ArgumentPacks ---------------------------
(***************************************************************************)
(* What a library function takes up in one step, out of Arguments: a pack  *)
(* of arguments to read, or an integer to return.  The state is that of    *)
(* Elements.                                                               *)
(***************************************************************************)
EXTENDS Arguments, Elements

CONSTANTS MaxArgc, MaxPack   \* bounds

ASSUME PacksAssumption == MaxArgc \in Nat /\ MaxPack \in Nat

Packs == UNION {[1 .. n -> Types] : n \in 0 .. MaxPack}

ArgumentInputs ==
    [kind : {"pack"}, argc : 0 .. MaxArgc, types : Packs, index : 0 .. MaxArgc]
    \cup UNION {[kind : {"integer"}, T : {T}, n : ValuesOf(T)] : T \in IntegerTypes}

TakeArguments == input = Nothing /\ input' \in ArgumentInputs

ArgumentsSpec == input = Nothing /\ [][TakeArguments \/ PutAway]_input

-----------------------------------------------------------------------------
(* Properties.                                                             *)

\* How many arguments a value of each type is made from, in the end.
Size ==
    LET size[T \in Types] ==
            IF T \in CustomTypes
            THEN LET of == CorrespondingTypes[T] IN Total([i \in DOMAIN of |-> size[of[i]]])
            ELSE 1
    IN  size

\* The types that are made of some, of which each but the last counts for as
\* many arguments as it takes.
Straight(types) ==
    types # <<>> /\ \A i \in 1 .. Len(types) - 1 : getArgSlotCount(types[i]) = Size[types[i]]

\* And of such, wherever they are made of others.
WellMade ==
    UNION {S \in SUBSET Types :
              \A T \in S \cap CustomTypes : Straight(CorrespondingTypes[T]) /\ Range(CorrespondingTypes[T]) \subseteq S}

(***************************************************************************)
(* A pack of types reads one argument after another, each once, from its   *)
(* index on, or throws because there are not so many: types of LLU's own,  *)
(* types of the user's own that are made of these, and last, or alone, one *)
(* that is made of others of the user's own.  Such a one counts for less   *)
(* than it takes: a type after it would begin too early.                   *)
(***************************************************************************)
PackReadsInOrder(argc, types, index) ==
    LET size == Total([i \in DOMAIN types |-> Size[types[i]]])
    IN  Straight(types) /\ Range(types) \subseteq WellMade =>
          getTuple(argc, types, index) =
             IF index + size > argc THEN Error ELSE [i \in 1 .. size |-> index + i - 1]

(***************************************************************************)
(* An integer comes back as it was set, through setInteger and getInteger. *)
(* A result that setMintAndCheck does not report as clipped is the number  *)
(* itself, one that it reports is a limit of mint, and a number too large  *)
(* for mint becomes the largest and is reported.  For all types but the    *)
(* unsigned ones as wide as a mint every number is kept, and the report    *)
(* comes exactly for the two limits, although these fit.  For the others   *)
(* nothing more is claimed: the code reports every number and turns the    *)
(* small ones into MINT_MIN, where MArgumentManager.h:401 promises "true   *)
(* iff overflow occurred".                                                 *)
(***************************************************************************)
IntegerKept(T, n) ==
    LET r == setMintAndCheck(T, n)
        wide == ~ T.signed /\ T.bits = Width
    IN  /\ getInteger(T, setInteger(n)) = n
        /\ ~ r.clipped => r.res = n
        /\ r.clipped => r.res \in {MINT_MIN, MINT_MAX}
        /\ n > MINT_MAX => r.clipped /\ r.res = MINT_MAX
        /\ ~ wide => r.res = n /\ (r.clipped <=> n \in {MINT_MIN, MINT_MAX})

\* Reading arguments and setting integers: the two properties above.
ArgumentsSound ==
    input # Nothing =>
       /\ input.kind = "pack" => PackReadsInOrder(input.argc, input.types, input.index)
       /\ input.kind = "integer" => IntegerKept(input.T, input.n)
=============================================================================
