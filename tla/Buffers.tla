------------------------------- MODULE Buffers -------------------------------
(***************************************************************************)
(* The memory WSTP hands out to the reader of TypedLink (include/LLU/WSTP: *)
(* Get.h, Release.h, Strings.h).  ListData, ArrayData and StringData own   *)
(* it, as unique_ptrs whose deleters give it back; a vector or a string    *)
(* copies it and gives it back at once.  Of a variable only the type       *)
(* matters here.                                                           *)
(***************************************************************************)
EXTENDS Integers, WireTypes

CONSTANT Read    \* types of the variables read into

VARIABLES var,       \* the reader's variable
          owns,      \* it owns a buffer of WSTP's
          handed     \* how many buffers of each kind WSTP has handed out

\* The function that hands out a buffer for the type, and the one that takes
\* it back; none for a type that owns nothing.
Kind(type) ==
    CASE type.c \in {"list", "array"} -> <<type.c, GetWire[type.T]>>
      [] type.c = "StringData" -> <<"string", type.e>>
      [] OTHER -> <<>>

ReleasedAs(type) ==
    CASE type.c \in {"list", "array"} -> <<type.c, ReleaseWire[type.T]>>
      [] type.c = "StringData" -> <<"string", type.e>>
      [] OTHER -> <<>>

Kinds == {Kind(t) : t \in Read} \cup {<<>>}
Take(b) == [handed EXCEPT ![b] = @ + 1]
GiveBack(h, type) == IF owns THEN [h EXCEPT ![ReleasedAs(type)] = @ - 1] ELSE h

-----------------------------------------------------------------------------
BuffersInit == owns = FALSE /\ handed = [b \in Kinds |-> 0]

\* The variable goes out of scope.
LetGo ==
    /\ handed' = GiveBack(handed, var.type)
    /\ owns' = FALSE

\* The data of WSTP replaces what a ListData, ArrayData or StringData owned.
TakeOver ==
    /\ Kind(var.type) # <<>>
    /\ handed' = GiveBack(Take(Kind(var.type)), var.type)
    /\ owns' = TRUE

\* What the steps of TypedLink are to the buffers.
BuffersNext ==
    \/ LetGo /\ var'.type \in Read
    \/ TakeOver /\ var'.type = var.type
    \/ UNCHANGED <<owns, handed>> /\ var'.type = var.type

(***************************************************************************)
(* A buffer is handed over only when a read into a variable that owns such *)
(* data succeeds, and the one it had is given back in the same step; a     *)
(* variable never changes its type while it keeps a buffer.  TypedLink     *)
(* implements this.                                                        *)
(***************************************************************************)
BuffersSpec == /\ BuffersInit /\ var.type \in Read
               /\ [][BuffersNext]_<<var, owns, handed>>

-----------------------------------------------------------------------------
(***************************************************************************)
(* WSTP has handed out exactly what the variable owns: each buffer is      *)
(* given back once, with the function for its type.                        *)
(***************************************************************************)
BuffersOwned ==
    \A b \in Kinds : handed[b] = IF owns /\ Kind(var.type) = b THEN 1 ELSE 0
=============================================================================
