---------------------------- MODULE MCTypedLink ----------------------------
(* A small instance of TypedLink; see README.md for the bounds.            *)
EXTENDS TypedLink, TLC

bool == [c |-> "bool"]
int == [c |-> "int"]
short == [c |-> "short"]
string == [c |-> "string"]
vector(t) == [c |-> "vector", of |-> t]
map(k, t) == [c |-> "map", key |-> k, of |-> t]
As(e, t) == [c |-> "As", e |-> e, of |-> t]
data(e) == [c |-> "StringData", e |-> e]

\* Widths that tell the types apart: 0 .. 3, -2 .. 1 and -4 .. 3.
MCBits == [Integer8 |-> 2, Integer16 |-> 2, Integer32 |-> 3, Integer64 |-> 3]
MCNumbers == {-1, 3}
\* The empty text; ASCII; NUL inside; Latin-1; beyond one byte; beyond two.
MCTexts == {<<>>, <<97>>, <<97, 0, 97>>, <<233>>, <<97, 8364>>, <<66000>>}

Both == {bool, [c |-> "uchar"], short, int, string,
         vector(int), vector(bool), vector(string), vector(vector(int)),
         map(int, bool), map(int, vector(bool)),
         As("Native", string), As("Byte", string), data("UTF16"),
         [c |-> "list", T |-> "int"], [c |-> "array", T |-> "int"]}

MCSent == Both \cup {[c |-> "symbol"], [c |-> "function"], [c |-> "missing"], [c |-> "chars"],
                     [c |-> "pointer", of |-> int], [c |-> "set", of |-> int]}
MCRead == Both \cup {[c |-> "symbol", head |-> ""], [c |-> "symbol", head |-> "Null"],
                     [c |-> "function", head |-> "", argc |-> -1],
                     [c |-> "function", head |-> "List", argc |-> -1],
                     [c |-> "function", head |-> "List", argc |-> 2],
                     [c |-> "function", head |-> "Missing", argc |-> -1]}
\* Heads that the library reads, with arguments it does not expect.
MCExpressions == {<<Fn("Association", 1), Fn("Rule", n)>> \o SubSeq(<<Num(3), Sym("True"), Num(3)>>, 1, n) : n \in 1 .. 3}
                 \cup {<<Fn("Association", 2), Fn("Rule", 2), Num(3), Sym("True"), Num(3)>>,
                       <<Fn("List", 2), Num(3), Str(<<97>>)>>,
                       <<Fn("List", 2), Fn("List", 1), Num(3), Fn("List", 0)>>}
=============================================================================
