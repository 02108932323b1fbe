------------------------------ MODULE TypedLink ------------------------------
(***************************************************************************)
(* A program at each end of a link: one sends values of C++ types, the     *)
(* other declares a variable and reads into it, be it of the type that was *)
(* sent or not, goes on after an exception, or gives up the packet.        *)
(***************************************************************************)
EXTENDS TypedData, Buffers, FiniteSets

CONSTANTS Sent,          \* types of the values sent
          EncodingIn, EncodingOut,
          Expressions,   \* sent by programs that do not use the library
          Numbers, Texts, MaxLen    \* bounds of the values

VARIABLE link    \* the tokens in flight

vars == <<link, var, owns, handed>>

-----------------------------------------------------------------------------
(* The values a program may send.                                          *)

RECURSIVE Values(_, _)
Values(e, type) ==
    LET Of(t) == UNION {[1 .. n -> Values(e, t)] : n \in 0 .. MaxLen}
    IN  CASE supportedInWSArithmeticQ(type) -> {n \in Numbers : Holds(PutWire[type.c], n)}
          [] type.c = "bool" -> BOOLEAN
          [] type.c = "symbol" -> {"True", "Null"}
          [] type.c = "function" -> [head : {"List", "Rule", "f"}, argc : 0 .. 2]
          [] type.c \in {"string", "missing", "chars"} -> {s \in Texts : \A i \in DOMAIN s : Has(e, s[i])}
          [] type.c = "StringData" -> {s \in Texts : \A i \in DOMAIN s : Has(type.e, s[i])}
          [] type.c = "As" -> Values(type.e, type.of)
          [] type.c = "list" -> Of([c |-> type.T])
          [] type.c = "array" -> UNION {[1 .. m -> [1 .. n -> Values(e, [c |-> type.T])]] :
                                          m \in 1 .. MaxLen, n \in 0 .. 1}
          [] type.c = "pointer" -> {<<>>} \cup {<<v>> : v \in Values(e, type.of)}
          [] type.c = "vector" -> Of(type.of)
          [] type.c = "set" -> {s \in SUBSET Values(e, type.of) : Cardinality(s) <= MaxLen}
          [] type.c = "map" -> UNION {[keys -> Values(e, type.of)] :
                  keys \in {s \in SUBSET Values(e, type.key) : Cardinality(s) <= MaxLen}}

-----------------------------------------------------------------------------
Init == /\ link = <<>>
        /\ var \in {[type |-> t, val |-> Default(t)] : t \in Read}
        /\ BuffersInit

Send(expr) ==
    /\ link = <<>>
    /\ link' = expr
    /\ UNCHANGED <<var, owns, handed>>

\* A new variable; the old one goes out of scope.
Declare(type) ==
    /\ var' = [type |-> type, val |-> Default(type)]
    /\ LetGo
    /\ UNCHANGED link

Outcome == Get(EncodingIn, var.type, var.val, link)

\* Deviation: the pointer to the new data takes the place of the old without a release.
ReceiveWithoutRelease ==
    /\ link # <<>>
    /\ link' = Outcome.rest
    /\ var' = [var EXCEPT !.val = Outcome.val]
    /\ IF Outcome.ok /\ Kind(var.type) # <<>>
       THEN handed' = Take(Kind(var.type)) /\ owns' = TRUE
       ELSE UNCHANGED <<owns, handed>>

Receive ==
    /\ link # <<>>
    /\ link' = Outcome.rest
    /\ var' = [var EXCEPT !.val = Outcome.val]
    /\ IF Outcome.ok /\ Kind(var.type) # <<>> THEN TakeOver ELSE UNCHANGED <<owns, handed>>

NewPacket ==
    /\ link # <<>>
    /\ link' = <<>>
    /\ UNCHANGED <<var, owns, handed>>

Next ==
    \/ \E t \in Sent : \E v \in Values(EncodingOut, t) : Send(Put(EncodingOut, t, v))
    \/ \E expr \in Expressions : Send(expr)
    \/ \E t \in Read : Declare(t)
    \/ Receive
    \/ NewPacket

Spec == Init /\ [][Next]_vars

-----------------------------------------------------------------------------
(* Properties.                                                             *)

\* Where the first expression on the link ends.
End(s) ==
    LET owed == [i \in 0 .. Len(s) |-> 1 + FoldLeft(LAMBDA n, t : n + t.argc - 1, 0, SubSeq(s, 1, i))]
    IN  CHOOSE i \in DOMAIN s : owed[i] = 0 /\ \A j \in 1 .. i - 1 : owed[j] > 0

\* Heads are read without their arguments.
Whole(type) == type.c # "function"

Reading == link # <<>> /\ Receive

(***************************************************************************)
(* A read that succeeds takes one whole expression off the link, whatever  *)
(* was sent and whatever type it is read as: the next read begins at the   *)
(* next expression.  Only functions are read without their arguments.      *)
(***************************************************************************)
OneExpression ==
    [][Reading /\ Outcome.ok /\ Whole(var.type)
        => link' = SubSeq(link, End(link) + 1, Len(link))]_vars

(***************************************************************************)
(* A failed read leaves the variable as it was, however much of the        *)
(* expression it had read; but for a map, which has kept its entries and   *)
(* may have some of the new ones.                                          *)
(***************************************************************************)
KeptOnFailure ==
    [][Reading /\ ~ Outcome.ok =>
        IF var.type.c = "map"
        THEN \A k \in DOMAIN var.val : k \in DOMAIN var'.val /\ var'.val[k] = var.val[k]
        ELSE var' = var]_vars

-----------------------------------------------------------------------------
\* Texts that a string of type t keeps on its way: Native ends at a NUL, the
\* reader's encoding has to have every character.
Survives(s, out, in) ==
    /\ "Native" \in {out, in} => ~ Contains(s, 0)
    /\ \A i \in DOMAIN s : Has(in, s[i])

RECURSIVE Same(_, _, _, _)
Same(out, in, type, v) ==
    CASE type.c = "string" -> Survives(v, out, in)
      [] type.c = "StringData" -> Survives(v, type.e, type.e)
      [] type.c = "As" -> Same(type.e, type.e, type.of, v)
      [] type.c = "vector" -> \A i \in DOMAIN v : Same(out, in, type.of, v[i])
      [] type.c = "map" -> \A x \in DOMAIN v : Same(out, in, type.key, x) /\ Same(out, in, type.of, v[x])
      [] OTHER -> TRUE

\* Old entries of a map win; anything else is replaced.
Merged(v) ==
    IF var.type.c # "map" THEN v
    ELSE [k \in DOMAIN var.val \cup DOMAIN v |-> IF k \in DOMAIN var.val THEN var.val[k] ELSE v[k]]

(***************************************************************************)
(* What is read as the type it was sent as is the value that was sent, if  *)
(* the encodings have its characters: booleans, numbers, lists, arrays,    *)
(* vectors, maps and strings, in each other, as one encoding or another.   *)
(* A map is not replaced, and keeps its own values for keys it had.        *)
(***************************************************************************)
RoundTrip ==
    [][Reading /\ Whole(var.type) =>
        \A v \in Values(EncodingOut, var.type) :
           /\ link = Put(EncodingOut, var.type, v)
           /\ Same(EncodingOut, EncodingIn, var.type, v)
           /\ var.type.c = "symbol" => var.val \in {"", v}
           => link' = <<>> /\ var'.val = Merged(v)]_vars
=============================================================================
