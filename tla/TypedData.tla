------------------------------ MODULE TypedData ------------------------------
(***************************************************************************)
(* What the overloads of operator<< and operator>> do with values of C++   *)
(* types (include/LLU/WSTP/WSStream.hpp, Get.h, Put.h, Strings.h): Put     *)
(* gives the tokens that a value becomes, Get reads a value off a link.    *)
(* A type is a record; its field c says which overload takes it.           *)
(***************************************************************************)
EXTENDS Integers, SequencesExt, WireTypes

CONSTANTS Bits,          \* the widths of the scalar types
          useFastUTF8, substituteCode   \* EncodingConfig

\* An expression on a link is a token for its head, then its arguments.
Fn(h, n) == [k |-> "function", head |-> h, argc |-> n]
Sym(h) == [k |-> "symbol", head |-> h, argc |-> 0]
Num(n) == [k |-> "number", head |-> n, argc |-> 0]
Str(s) == [k |-> "string", head |-> s, argc |-> 0]

-----------------------------------------------------------------------------
(* Numbers.                                                                *)

\* The numbers of a wire type; reals stand for themselves whatever the width.
Holds(wire, n) ==
    CASE wire = "Integer8" -> n \in 0 .. 2^Bits[wire] - 1
      [] wire \in {"Integer16", "Integer32", "Integer64"} ->
            n \in -(2^(Bits[wire] - 1)) .. 2^(Bits[wire] - 1) - 1
      [] OTHER -> TRUE

supportedInWSArithmeticQ(type) == type.c \in DOMAIN GetWire

-----------------------------------------------------------------------------
(* Strings.  A text is a sequence of characters, each named by its code.   *)

Utf8(ch) == IF ch < 128 THEN <<ch>> ELSE <<195, 128 + (ch % 64)>>   \* shortened
UpToNUL(s) == IF Contains(s, 0) THEN SubSeq(s, 1, SelectInSeq(s, LAMBDA c : c = 0) - 1) ELSE s

\* Deviation: bytes are sent as characters whatever they are.
PutStringUnchecked(e, s) ==
    IF e = "UTF8" /\ useFastUTF8 THEN FlattenSeq([i \in DOMAIN s |-> Utf8(s[i])])
    ELSE IF e = "Native" THEN UpToNUL(s) ELSE s

\* String<E>::Put.  The characters of s are ones that e has.
PutString(e, s) ==
    LET bytes == FlattenSeq([i \in DOMAIN s |-> Utf8(s[i])])
    IN  CASE e = "Native" -> UpToNUL(s)
          [] e = "UTF8" /\ useFastUTF8 /\ \A i \in DOMAIN bytes : bytes[i] <= 127 -> bytes
          [] OTHER -> s

\* The characters that an encoding has.
Has(e, ch) == CASE e = "Byte" -> ch < 2^8
                [] e = "UCS2" -> ch < 2^16
                [] OTHER -> TRUE

\* String<E>::getString: Native has no length, its strings end at a NUL.
GetString(e, s) ==
    IF e = "Native" THEN UpToNUL(s)
    ELSE [i \in DOMAIN s |-> IF Has(e, s[i]) THEN s[i] ELSE substituteCode]

-----------------------------------------------------------------------------
(* Sending.                                                                *)

PutBool(b) == <<Sym(IF b THEN "True" ELSE "False")>>
PutList(s) == <<Fn("List", Len(s))>> \o [i \in DOMAIN s |-> Num(s[i])]
PutArray(rows) == <<Fn("List", Len(rows))>> \o FlattenSeq([i \in DOMAIN rows |-> PutList(rows[i])])
Rule == <<Fn("Rule", 2)>>
Null == <<Sym("Null")>>

RECURSIVE Put(_, _, _)

sendRange(e, type, s) == <<Fn("List", Len(s))>> \o FlattenSeq([i \in DOMAIN s |-> Put(e, type, s[i])])

PutVector(e, type, s) == IF supportedInWSArithmeticQ(type) THEN PutList(s) ELSE sendRange(e, type, s)

PutMap(e, key, of, map) ==
    LET keys == SetToSeq(DOMAIN map)
    IN  <<Fn("Association", Len(keys))>> \o
        FlattenSeq([i \in DOMAIN keys |-> Rule \o Put(e, key, keys[i]) \o Put(e, of, map[keys[i]])])

\* A pointer is a sequence of what it points to.
PutPointer(e, of, p) == IF p = <<>> THEN Null ELSE Put(e, of, p[1])

PutMissing(e, why) == <<Fn("Missing", 1), Str(PutString(e, why))>>

\* A char array that is not const, or one of wider characters, is sent with the
\* NUL it ends with; a literal goes as a const char*, without it, like a string.
PutChars(e, s) == <<Str(PutString(e, Append(s, 0)))>>

\* stream << v, for a stream whose EncodingOut is e.
Put(e, type, v) ==
    CASE supportedInWSArithmeticQ(type) -> <<Num(v)>>
      [] type.c = "symbol"  -> <<Sym(v)>>
      [] type.c = "function" -> <<Fn(v.head, v.argc)>> \o [i \in 1 .. v.argc |-> Num(i)]
      [] type.c = "missing" -> PutMissing(e, v)
      [] type.c = "bool"    -> PutBool(v)
      [] type.c = "list"    -> PutList(v)
      [] type.c = "array"   -> PutArray(v)
      [] type.c = "pointer" -> PutPointer(e, type.of, v)
      [] type.c = "vector"  -> PutVector(e, type.of, v)
      [] type.c = "set"     -> sendRange(e, type.of, SetToSeq(v))
      [] type.c = "map"     -> PutMap(e, type.key, type.of, v)
      [] type.c = "string"  -> <<Str(PutString(e, v))>>
      [] type.c = "chars"   -> PutChars(e, v)
      [] type.c = "StringData" -> <<Str(PutString(type.e, v))>>
      [] type.c = "As"      -> Put(type.e, type.of, v)

-----------------------------------------------------------------------------
(* Receiving: the outcome, the variable, what is left on the link.  A WSTP *)
(* call that fails takes nothing; what LLU itself refuses has been taken.  *)

Got(v, rest) == [ok |-> TRUE, val |-> v, rest |-> rest]
Throws(v, rest) == [ok |-> FALSE, val |-> v, rest |-> rest]

\* What a read finds; behind the last expression there is nothing.
First(link) == IF link = <<>> THEN [k |-> "nothing", head |-> "", argc |-> 0] ELSE link[1]

\* testHead(head): the number of arguments.
TestHead(head, link) ==
    IF First(link).k = "function" /\ First(link).head = head
    THEN Got(First(link).argc, Tail(link)) ELSE Throws(0, link)

\* A symbol with a name is expected, one without is filled in.
GetSymbol(s, link) ==
    IF First(link).k = "symbol" /\ s \in {"", First(link).head}
    THEN Got(First(link).head, Tail(link)) ELSE Throws(s, link)

\* Deviation: the number of arguments is not compared.
GetFunctionAnyArgc(f, link) ==
    IF First(link).k = "function" /\ f.head \in {"", First(link).head}
    THEN Got([head |-> First(link).head, argc |-> First(link).argc], Tail(link)) ELSE Throws(f, link)

\* Likewise a function; one with both name and count is matched with both.
GetFunction(f, link) ==
    IF First(link).k # "function" \/ f.head \notin {"", First(link).head} THEN Throws(f, link)
    ELSE IF f.head # "" /\ f.argc >= 0 /\ f.argc # First(link).argc THEN Throws(f, Tail(link))
    ELSE Got([head |-> First(link).head, argc |-> First(link).argc], Tail(link))

GetBool(b, link) ==
    LET s == GetSymbol("", link)
    IN  IF s.ok /\ s.val \in {"True", "False"} THEN Got(s.val = "True", s.rest)
        ELSE Throws(b, s.rest)

GetScalar(T, n, link) ==
    IF First(link).k = "number" /\ Holds(GetWire[T], First(link).head)
    THEN Got(First(link).head, Tail(link)) ELSE Throws(n, link)

GetList(T, s, link) ==
    LET list == TestHead("List", link)
    IN  IF list.ok /\ \A i \in 1 .. list.val : GetScalar(T, 0, <<list.rest[i]>>).ok
        THEN Got([i \in 1 .. list.val |-> list.rest[i].head], SubSeq(list.rest, list.val + 1, Len(list.rest)))
        ELSE Throws(s, link)

\* Of rank 2, all rows equally long.
GetArray(T, rows, link) ==
    LET list == TestHead("List", link)
        row(acc, i) == IF acc.ok /\ GetList(T, <<>>, acc.rest).ok
                       THEN Got(Append(acc.val, GetList(T, <<>>, acc.rest).val), GetList(T, <<>>, acc.rest).rest)
                       ELSE Throws(rows, link)
        all == FoldLeft(row, Got(<<>>, list.rest), [i \in 1 .. list.val |-> i])
    IN  IF /\ list.ok /\ list.val > 0 /\ all.ok
           /\ \A i \in DOMAIN all.val : Len(all.val[i]) = Len(all.val[1])
        THEN all ELSE Throws(rows, link)

RECURSIVE Get(_, _, _, _)
RECURSIVE Default(_)

Default(type) ==
    CASE supportedInWSArithmeticQ(type) -> 0
      [] type.c = "bool" -> FALSE
      [] type.c = "symbol" -> type.head
      [] type.c = "function" -> [head |-> type.head, argc |-> type.argc]
      [] type.c = "map" -> [k \in {} |-> 0]
      [] type.c = "As" -> Default(type.of)
      [] OTHER -> <<>>

\* Deviation: elements are read into the caller's vector one by one.
GetVectorInPlace(e, type, s, link) ==
    IF supportedInWSArithmeticQ(type) THEN GetList(type.c, s, link)
    ELSE LET list == TestHead("List", link)
             element(acc, i) ==
                LET r == Get(e, type, Default(type), acc.rest)
                IN  IF ~ acc.ok THEN acc
                    ELSE IF r.ok THEN Got(Append(acc.val, r.val), r.rest) ELSE Throws(acc.val, r.rest)
         IN  IF list.ok THEN FoldLeft(element, Got(<<>>, list.rest), [i \in 1 .. list.val |-> i])
             ELSE Throws(s, link)

\* Elements are read into a vector of their own, which is moved at the end.
GetVector(e, type, s, link) ==
    IF supportedInWSArithmeticQ(type) THEN GetList(type.c, s, link)
    ELSE LET list == TestHead("List", link)
             element(acc, i) ==
                LET r == Get(e, type, Default(type), acc.rest)
                IN  IF ~ acc.ok THEN acc
                    ELSE IF r.ok THEN Got(Append(acc.val, r.val), r.rest) ELSE Throws(s, r.rest)
         IN  IF list.ok THEN FoldLeft(element, Got(<<>>, list.rest), [i \in 1 .. list.val |-> i])
             ELSE Throws(s, link)

\* map.emplace leaves an entry that is there.
Emplace(map, k, v) == [x \in DOMAIN map \cup {k} |-> IF x \in DOMAIN map THEN map[x] ELSE v]

\* Entries go into the caller's map one by one.
GetMap(e, key, of, map, link) ==
    LET assoc == TestHead("Association", link)
        entry(acc, i) ==
           LET rule == GetFunction([head |-> "Rule", argc |-> 2], acc.rest)
               k == Get(e, key, Default(key), rule.rest)
               v == Get(e, of, Default(of), k.rest)
           IN  CASE ~ acc.ok  -> acc
                 [] acc.ok /\ ~ rule.ok -> Throws(acc.val, rule.rest)
                 [] acc.ok /\ rule.ok /\ ~ k.ok -> Throws(acc.val, k.rest)
                 [] acc.ok /\ rule.ok /\ k.ok /\ ~ v.ok -> Throws(acc.val, v.rest)
                 [] OTHER -> Got(Emplace(acc.val, k.val, v.val), v.rest)
    IN  IF assoc.ok THEN FoldLeft(entry, Got(map, assoc.rest), [i \in 1 .. assoc.val |-> i])
        ELSE Throws(map, link)

GetText(e, s, link) ==
    IF First(link).k = "string" THEN Got(GetString(e, First(link).head), Tail(link)) ELSE Throws(s, link)

\* stream >> v, for a stream whose EncodingIn is e.
Get(e, type, v, link) ==
    CASE supportedInWSArithmeticQ(type) -> GetScalar(type.c, v, link)
      [] type.c = "symbol" -> GetSymbol(v, link)
      [] type.c = "function" -> GetFunction(v, link)
      [] type.c = "bool"   -> GetBool(v, link)
      [] type.c = "list"   -> GetList(type.T, v, link)
      [] type.c = "array"  -> GetArray(type.T, v, link)
      [] type.c = "vector" -> GetVector(e, type.of, v, link)
      [] type.c = "map"    -> GetMap(e, type.key, type.of, v, link)
      [] type.c = "string" -> GetText(e, v, link)
      [] type.c = "StringData" -> GetText(type.e, v, link)
      [] type.c = "As"     -> Get(type.e, type.of, v, link)
=============================================================================
