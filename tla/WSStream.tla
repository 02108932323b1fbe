------------------------------ MODULE WSStream ------------------------------
(***************************************************************************)
(* Sending expressions of unknown length (include/LLU/WSTP/WSStream.hpp):  *)
(* the stack of loopback links behind BeginExpr, DropExpr and EndExpr, the *)
(* link m that every operator<< writes to, and the single flag that tells  *)
(* EndExpr of a drop.  A stream lives for one call of a library function;  *)
(* one stream follows another on the same kernel link.  A link's content   *)
(* is the sequence of heads put on it, each with its argument count.       *)
(***************************************************************************)
EXTENDS Integers, Sequences, FiniteSetsExt

CONSTANTS
    Main,               \* the kernel's link
    Loopbacks,          \* loopback links; a closed one may be opened again
    Heads, NoHead,      \* heads of expressions; the one of the stack's bottom
    Arities,            \* the argument counts put explicitly, 0 for an atom
    MaxOpen,            \* bound on the expressions a caller has begun, not ended
    MaxTokens,          \* bound on what is put on all links together
    MaxFailures         \* bound on the WSTP calls that fail

ASSUME StreamAssumption ==
    /\ Main \notin Loopbacks
    /\ IsFiniteSet(Loopbacks)
    /\ NoHead \notin Heads
    /\ Arities \subseteq Nat
    /\ MaxOpen \in Nat
    /\ MaxTokens \in Nat
    /\ MaxFailures \in Nat

VARIABLES
    m, loopbackStack, currentExprDropped,   \* the members of the stream
    content,     \* what is on each link
    open,        \* the loopback links that are open
    client,      \* the expressions the caller has begun and not ended
    failures,    \* how many WSTP calls have failed
    unfinished   \* expressions that were neither ended nor dropped

stream == <<m, loopbackStack, currentExprDropped>>
vars == <<stream, content, open, client, failures, unfinished>>

Links  == Loopbacks \cup {Main}
Tokens == [head : Heads, argc : Nat]
Token(h, n) == [head |-> h, argc |-> n]
LoopbackData == [head : Heads \cup {NoHead}, link : Links]

(***************************************************************************)
(* What has become of an expression that its caller has not ended yet: it  *)
(* has its link, or the flag stands for it, or neither, because the flag   *)
(* was overwritten or its link was taken for that of another.              *)
(***************************************************************************)
Nesting == {"begun", "dropped", "gone"}

Alive == loopbackStack # <<>>
Top(s) == s[Len(s)]
Pop(s) == SubSeq(s, 1, Len(s) - 1)

-----------------------------------------------------------------------------
(* Complete expressions on a link.                                         *)

\* How many arguments the first k tokens ask for, less the tokens themselves.
Balance(s) ==
    LET bal[k \in 0 .. Len(s)] == IF k = 0 THEN 0 ELSE bal[k-1] + s[k].argc - 1
    IN  bal

\* Positions where a complete expression ends, all before it being complete.
Ends(s) == LET bal == Balance(s)
           IN  {k \in 1 .. Len(s) : \A j \in 0 .. k-1 : bal[k] < bal[j]}

\* Deviation: heads are counted, not expressions.
CountHeads(s) == Len(s)

Count(s) == Cardinality(Ends(s))

\* Where the last complete expression ends.
Whole(s) == Max(Ends(s) \cup {0})

-----------------------------------------------------------------------------
(* The caller, and the bounds.                                             *)

Begun == {i \in DOMAIN client : client[i] = "begun"}
InDropped == client # <<>> /\ Top(client) = "dropped"

\* The caller's expressions when the link of the innermost one is taken.
Taken == [i \in DOMAIN client |->
            IF i = Max(Begun \cup {0}) THEN "gone" ELSE client[i]]

\* The caller's expressions when the flag is reset by no EndExpr.
Forgotten == [i \in DOMAIN client |->
                IF client[i] = "dropped" THEN "gone" ELSE client[i]]

\* A DropExpr takes a link, and the next EndExpr will do nothing.
ClientDrops == client' = [Taken EXCEPT ![Len(client)] = "dropped"]

\* An EndExpr is the end of the caller's last open expression, if it has one.
ClientEnds == client' = IF client = <<>> THEN <<>>
                        ELSE Pop(IF InDropped THEN client ELSE Taken)

\* Room for one more token, and for the heads of the expressions still open.
Used == MapThenSumSet(LAMBDA l : Len(content[l]), Links)
Room == Used + Len(loopbackStack) - 1 < MaxTokens

\* A bound, not in the code: EndExpr always finds a link for its helper.
Spare == Cardinality(Loopbacks \ open) > 1

Fails == failures < MaxFailures /\ failures' = failures + 1

-----------------------------------------------------------------------------
TypeOK ==
    /\ m \in Links
    /\ loopbackStack \in Seq(LoopbackData)
    /\ currentExprDropped \in BOOLEAN
    /\ content \in [Links -> Seq(Tokens)]
    /\ open \in SUBSET Loopbacks
    /\ client \in Seq(Nesting)
    /\ failures \in 0 .. MaxFailures
    /\ unfinished \in Nat

Init ==
    /\ m = Main /\ loopbackStack = <<>> /\ currentExprDropped = FALSE
    /\ content = [l \in Links |-> <<>>]
    /\ open = {}
    /\ client = <<>>
    /\ failures = 0
    /\ unfinished = 0

\* A library function begins: a stream on the kernel's link.
Construct ==
    /\ ~ Alive
    /\ m' = Main
    /\ loopbackStack' = <<[head |-> NoHead, link |-> Main]>>
    /\ currentExprDropped' = FALSE
    /\ UNCHANGED <<content, open, client, failures, unfinished>>

(***************************************************************************)
(* The function returns, or an exception leaves it.  The destructor is the *)
(* default one and closes no link; the kernel reads its own.               *)
(***************************************************************************)
Destroy ==
    /\ Alive
    /\ loopbackStack' = <<>>
    /\ unfinished' = unfinished + Len(loopbackStack) - 1
    /\ content' = [l \in Links |-> <<>>]   \* no stranded link is read again
    /\ client' = <<>>
    /\ UNCHANGED <<m, currentExprDropped, open, failures>>

\* operator<< of a symbol, a number, a string, or a head with its arity.
Put(tok) ==
    /\ Alive /\ Room
    /\ content' = [content EXCEPT ![m] = Append(@, tok)]
    /\ UNCHANGED <<stream, open, client, failures, unfinished>>

PutFails ==
    /\ Alive /\ Fails
    /\ UNCHANGED <<stream, content, open, client, unfinished>>

-----------------------------------------------------------------------------
BeginExpr(h, l) ==
    /\ Alive /\ Room /\ Spare /\ Len(client) < MaxOpen
    /\ l \notin open
    /\ currentExprDropped' = FALSE
    /\ open' = open \cup {l}
    /\ content' = [content EXCEPT ![l] = <<>>]
    /\ loopbackStack' = Append(loopbackStack, [head |-> h, link |-> l])
    /\ m' = l
    /\ client' = Append(Forgotten, "begun")
    /\ UNCHANGED <<failures, unfinished>>

\* getNewLoopback throws after the flag has been reset.
BeginFails ==
    /\ Alive /\ Fails
    /\ currentExprDropped' = FALSE
    /\ client' = Forgotten
    /\ UNCHANGED <<m, loopbackStack, content, open, unfinished>>

\* The size that DropExpr and EndExpr ask for before they pop.
Poppable == Len(loopbackStack) >= 2

\* Deviation: the active link is not refreshed.
DropWithoutRefresh ==
    /\ Alive /\ Poppable
    /\ open' = open \ {Top(loopbackStack).link}
    /\ content' = [content EXCEPT ![Top(loopbackStack).link] = <<>>]
    /\ loopbackStack' = Pop(loopbackStack)
    /\ currentExprDropped' = TRUE
    /\ ClientDrops
    /\ UNCHANGED <<m, failures, unfinished>>

DropExpr ==
    /\ Alive /\ Poppable
    /\ open' = open \ {Top(loopbackStack).link}
    /\ content' = [content EXCEPT ![Top(loopbackStack).link] = <<>>]
    /\ loopbackStack' = Pop(loopbackStack)
    /\ m' = Top(Pop(loopbackStack)).link
    /\ currentExprDropped' = TRUE
    /\ ClientDrops
    /\ UNCHANGED <<failures, unfinished>>

DropTooEarly ==
    /\ Alive /\ ~ Poppable
    /\ UNCHANGED vars

-----------------------------------------------------------------------------
(* EndExpr: the flag, the size, the pop, then three WSTP calls that may    *)
(* each fail: a helper link to count on, the head, the transfer.           *)

\* Deviation: the flag is not reset.
EndDroppedKeepingFlag ==
    /\ Alive /\ currentExprDropped
    /\ ClientEnds
    /\ UNCHANGED <<stream, content, open, failures, unfinished>>

EndDropped ==
    /\ Alive /\ currentExprDropped
    /\ currentExprDropped' = FALSE
    /\ ClientEnds
    /\ UNCHANGED <<m, loopbackStack, content, open, failures, unfinished>>

EndTooEarly ==
    /\ Alive /\ ~ currentExprDropped /\ ~ Poppable
    /\ ClientEnds
    /\ UNCHANGED <<stream, content, open, failures, unfinished>>

EndPops ==
    /\ Alive /\ ~ currentExprDropped /\ Poppable
    /\ loopbackStack' = Pop(loopbackStack)
    /\ m' = Top(Pop(loopbackStack)).link
    /\ ClientEnds
    /\ UNCHANGED currentExprDropped

\* What EndExpr has popped.
Ended == Top(loopbackStack)

\* The expression made of its head and the arguments up to position k.
EndedUpTo(k) == LET args == SubSeq(content[Ended.link], 1, k)
                IN  <<Token(Ended.head, Count(args))>> \o args
Complete == Whole(content[Ended.link])

\* Deviation: the old link is not closed.
OpenAfterCountUnclosed(helper) == open \cup {helper}

\* The expressions are moved to the helper one by one, the old link is closed.
OpenAfterCount(helper) == (open \ {Ended.link}) \cup {helper}

\* The parent receives toks; a link that is closed or stranded holds nothing.
Deliver(toks) ==
    content' = [[content EXCEPT ![Ended.link] = <<>>]
                   EXCEPT ![m'] = @ \o toks]

EndExpr(helper) ==
    /\ EndPops
    /\ helper \notin open
    /\ Deliver(EndedUpTo(Complete))
    /\ open' = OpenAfterCount(helper) \ {helper}
    /\ UNCHANGED <<failures, unfinished>>

\* A failing WSTransferExpression is taken for the end of the arguments.
EndMiscounts(helper) ==
    /\ EndPops /\ Fails
    /\ helper \notin open
    /\ \E k \in Ends(content[Ended.link]) \cup {0} :
         k # Complete /\ Deliver(EndedUpTo(k))
    /\ open' = OpenAfterCount(helper) \ {helper}
    /\ UNCHANGED unfinished

EndFailsToCount ==
    /\ EndPops /\ Fails
    /\ Deliver(<<>>)
    /\ unfinished' = unfinished + 1
    /\ UNCHANGED open

\* The head is refused, or the transfer stops after some of what follows it.
EndFailsToSend(helper) ==
    /\ EndPops /\ Fails
    /\ helper \notin open
    /\ \E k \in 0 .. Complete + 1 : Deliver(SubSeq(EndedUpTo(Complete), 1, k))
    /\ open' = OpenAfterCount(helper)
    /\ unfinished' = unfinished + 1

-----------------------------------------------------------------------------
Next ==
    \/ Construct \/ Destroy
    \/ \E h \in Heads, a \in Arities : Put(Token(h, a))
    \/ PutFails
    \/ \E h \in Heads, l \in Loopbacks : BeginExpr(h, l)
    \/ BeginFails
    \/ DropExpr \/ DropTooEarly
    \/ EndDropped \/ EndTooEarly
    \/ \E helper \in Loopbacks :
         EndExpr(helper) \/ EndMiscounts(helper) \/ EndFailsToSend(helper)
    \/ EndFailsToCount

Spec == Init /\ [][Next]_vars

-----------------------------------------------------------------------------
(* Properties.                                                             *)

StackLinks == {loopbackStack[i].link : i \in DOMAIN loopbackStack}

(***************************************************************************)
(* Whatever was begun, dropped, ended or has failed, m is the top of the   *)
(* stack, and the stack holds the kernel's link at its bottom and distinct *)
(* open loopback links above it: nothing writes to a closed link, and no   *)
(* link is closed twice.                                                   *)
(***************************************************************************)
CurrentLinkUsable ==
    Alive =>
      /\ m = Top(loopbackStack).link
      /\ loopbackStack[1].link = Main
      /\ \A i \in 2 .. Len(loopbackStack) : loopbackStack[i].link \in open
      /\ \A i, j \in DOMAIN loopbackStack :
            loopbackStack[i].link = loopbackStack[j].link => i = j

(***************************************************************************)
(* Every loopback link that is open and not on the stack is lost for good; *)
(* there is exactly one for each expression whose EndExpr failed or never  *)
(* came, and none for an expression that was ended or dropped.             *)
(***************************************************************************)
StrandedExactly == Cardinality(open \ StackLinks) = unfinished

(***************************************************************************)
(* The depth of the stack and the one flag together know the caller's open *)
(* expressions, for any caller: each has its link, or is the last one and  *)
(* has the flag, or is gone.  So EndExpr takes the expression the caller   *)
(* means, unless that one was dropped and a BeginExpr or a second DropExpr *)
(* came before its EndExpr, or an earlier EndExpr took its link for such a *)
(* one; nothing else makes the stack too small for what was begun.         *)
(***************************************************************************)
NestingKnown ==
    Alive =>
      /\ currentExprDropped <=> InDropped
      /\ \A i \in 1 .. Len(client) - 1 : client[i] # "dropped"
      /\ Len(loopbackStack) - 1 = Cardinality(Begun)

(***************************************************************************)
(* The stream delivers expressions as OpenExpressions promises.            *)
(***************************************************************************)
FrameOn(data) ==
    LET s     == content[data.link]
        ends  == Ends(s)
        n     == Cardinality(ends)
        whole == Max(ends \cup {0})
    IN  [head |-> data.head, dropped |-> FALSE,
         done |-> SubSeq(s, 1, whole), n |-> n,
         tail |-> SubSeq(s, whole + 1, Len(s)),
         owed |-> IF whole = Len(s) THEN 0 ELSE Balance(s)[Len(s)] + n + 1]

DroppedFrames ==
    IF Alive /\ currentExprDropped
    THEN <<[head |-> NoHead, dropped |-> TRUE,
            done |-> <<>>, n |-> 0, tail |-> <<>>, owed |-> 0]>>
    ELSE <<>>

Expressions == INSTANCE OpenExpressions WITH
    frames <- [i \in DOMAIN loopbackStack |-> FrameOn(loopbackStack[i])]
                 \o DroppedFrames

DeliversExpressions == Expressions!Spec
=============================================================================
