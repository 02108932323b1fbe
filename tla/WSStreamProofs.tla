--------------------------- MODULE WSStreamProofs ---------------------------
(***************************************************************************)
(* For any number of links, any heads, arities and bounds: the stream      *)
(* writes to open links only, knows the nesting of any caller as far as    *)
(* the one flag allows it, strands exactly one link for each unfinished    *)
(* expression, and delivers expressions as OpenExpressions promises.  And  *)
(* the buffers of typed data, on whatever link: each is given back once.   *)
(***************************************************************************)
EXTENDS WSStream, Buffers, FiniteSetTheorems, SequenceTheorems, WellFoundedInduction, TLAPS

-----------------------------------------------------------------------------
(* Lemmas about positions on a link.                                       *)

\* A set of natural numbers below a bound has a greatest element.
LEMMA MaxInSet ==
  ASSUME NEW n \in Nat, NEW S \in SUBSET (0 .. n), S # {}
  PROVE  Max(S) \in S /\ \A x \in S : Max(S) >= x
  <1> DEFINE below == {n - x : x \in S}
  <1>1. below \subseteq Nat /\ below # {}
    <2>1. \A x \in S : x \in 0 .. n
      OBVIOUS
    <2>2. \A x \in 0 .. n : n - x \in Nat
      OBVIOUS
    <2>3. PICK x \in S : TRUE
      OBVIOUS
    <2> QED
      BY <2>1, <2>2, <2>3
  <1>2. PICK y \in below : \A z \in below : ~ (<<z, y>> \in OpToRel(<, Nat))
    BY <1>1, NatLessThanWellFounded, WFMin
  <1>3. \A z \in below : ~ (z < y)
    BY <1>1, <1>2 DEF OpToRel
  <1>4. n - y \in S /\ \A x \in S : n - y >= x
    <2>1. PICK g \in S : y = n - g
      OBVIOUS
    <2>2. \A x \in S : ~ (n - x < n - g)
      BY <1>3, <2>1
    <2>3. g \in 0 .. n /\ \A x \in S : x \in 0 .. n
      OBVIOUS
    <2> QED
      BY <2>1, <2>2, <2>3
  <1> QED
    BY <1>4 DEF Max

\* Complete expressions end at positions of the sequence.
LEMMA EndsInside ==
  ASSUME NEW s \in Seq(Tokens)
  PROVE  /\ Ends(s) \subseteq 1 .. Len(s)
         /\ Count(s) \in Nat
         /\ Whole(s) \in Ends(s) \cup {0}
         /\ Whole(s) \in 0 .. Len(s)
  <1>1. Ends(s) \subseteq 1 .. Len(s) /\ Len(s) \in Nat
    BY DEF Ends
  <1>2. IsFiniteSet(Ends(s))
    <2>1. IsFiniteSet(1 .. Len(s))
      BY <1>1, FS_Interval
    <2> QED
      BY <1>1, <2>1, FS_Subset
  <1>3. Count(s) \in Nat
    BY <1>2, FS_CardinalityType DEF Count
  <1>4. Ends(s) \cup {0} \in SUBSET (0 .. Len(s))
    BY <1>1
  <1>5. Whole(s) \in Ends(s) \cup {0}
    BY <1>1, <1>4, MaxInSet DEF Whole
  <1> QED
    BY <1>1, <1>3, <1>4, <1>5

\* The first k elements of a sequence.
LEMMA FirstPart ==
  ASSUME NEW S, NEW s \in Seq(S), NEW k \in 0 .. Len(s)
  PROVE  /\ SubSeq(s, 1, k) \in Seq(S)
         /\ Len(SubSeq(s, 1, k)) = k
         /\ \A i \in 1 .. k : SubSeq(s, 1, k)[i] = s[i]
  BY SubSeqProperties

\* A stack without its top.
LEMMA Popped ==
  ASSUME NEW S, NEW s \in Seq(S), s # <<>>
  PROVE  /\ Pop(s) \in Seq(S)
         /\ Len(Pop(s)) = Len(s) - 1
         /\ \A i \in 1 .. Len(s) - 1 : Pop(s)[i] = s[i]
         /\ Top(s) \in S
  <1>1. Len(s) \in Nat \ {0} /\ Len(s) - 1 \in 0 .. Len(s)
    BY EmptySeq
  <1>2. /\ SubSeq(s, 1, Len(s) - 1) \in Seq(S)
        /\ Len(SubSeq(s, 1, Len(s) - 1)) = Len(s) - 1
        /\ \A i \in 1 .. Len(s) - 1 : SubSeq(s, 1, Len(s) - 1)[i] = s[i]
    BY <1>1, FirstPart
  <1>3. s[Len(s)] \in S
    BY <1>1, ElementOfSeq
  <1> QED
    BY <1>2, <1>3 DEF Pop, Top

\* The bottom of a sequence of length one, and its end after an Append.
LEMMA TopOfAppend ==
  ASSUME NEW S, NEW s \in Seq(S), NEW e \in S
  PROVE  /\ Append(s, e) \in Seq(S)
         /\ Append(s, e) # <<>>
         /\ Len(Append(s, e)) = Len(s) + 1
         /\ \A i \in 1 .. Len(s) : Append(s, e)[i] = s[i]
         /\ Append(s, e)[Len(s) + 1] = e
         /\ Top(Append(s, e)) = e
  BY AppendProperties DEF Top

-----------------------------------------------------------------------------
(* The links of the stack.                                                 *)

\* Only the bottom of the stack has no head.
HeadsKnown == \A i \in 2 .. Len(loopbackStack) : loopbackStack[i].head \in Heads

IInv == TypeOK /\ CurrentLinkUsable /\ HeadsKnown

\* Nothing exists initially.
LEMMA InitInv == ASSUME Init PROVE IInv
  <1>1. TypeOK
    <2>1. <<>> \in Seq(Tokens) /\ <<>> \in Seq(LoopbackData) /\ <<>> \in Seq(Nesting)
      OBVIOUS
    <2>2. content \in [Links -> Seq(Tokens)]
      BY <2>1 DEF Init
    <2>3. m \in Links /\ failures \in 0 .. MaxFailures
      BY StreamAssumption DEF Init, Links
    <2> QED
      BY <2>1, <2>2, <2>3 DEF Init, TypeOK
  <1>2. Len(loopbackStack) = 0 /\ ~ Alive
    BY DEF Init, Alive
  <1> QED
    BY <1>1, <1>2 DEF IInv, CurrentLinkUsable, HeadsKnown

\* What a poppable stack looks like, and what is left after the pop.
LEMMA PoppedStack ==
  ASSUME IInv, Poppable
  PROVE  /\ Alive /\ Len(loopbackStack) \in Nat
         /\ Ended = loopbackStack[Len(loopbackStack)]
         /\ Ended \in LoopbackData
         /\ Ended.link \in open /\ Ended.link \in Links /\ Ended.head \in Heads
         /\ Pop(loopbackStack) \in Seq(LoopbackData)
         /\ Pop(loopbackStack) # <<>>
         /\ Len(Pop(loopbackStack)) = Len(loopbackStack) - 1
         /\ \A i \in 1 .. Len(loopbackStack) - 1 :
               /\ Pop(loopbackStack)[i] = loopbackStack[i]
               /\ loopbackStack[i].link # Ended.link
         /\ Top(Pop(loopbackStack)) = loopbackStack[Len(loopbackStack) - 1]
         /\ Top(Pop(loopbackStack)).link \in Links
         /\ Top(Pop(loopbackStack)).link # Ended.link
  <1>1. loopbackStack \in Seq(LoopbackData) /\ Len(loopbackStack) \in Nat
        /\ Len(loopbackStack) >= 2
    BY DEF IInv, TypeOK, Poppable
  <1>2. Alive
    BY <1>1 DEF Alive
  <1>3. /\ Pop(loopbackStack) \in Seq(LoopbackData)
        /\ Len(Pop(loopbackStack)) = Len(loopbackStack) - 1
        /\ \A i \in 1 .. Len(loopbackStack) - 1 :
              Pop(loopbackStack)[i] = loopbackStack[i]
        /\ Top(loopbackStack) \in LoopbackData
    BY <1>1, <1>2, Popped DEF Alive
  <1>4. /\ Ended = loopbackStack[Len(loopbackStack)]
        /\ Ended \in LoopbackData
    BY <1>3 DEF Ended, Top
  <1>5. DOMAIN loopbackStack = 1 .. Len(loopbackStack)
    BY <1>1
  <1>6. /\ Ended.link \in open
        /\ \A i \in 1 .. Len(loopbackStack) - 1 : loopbackStack[i].link # Ended.link
    BY <1>1, <1>2, <1>4, <1>5 DEF IInv, CurrentLinkUsable
  <1>7. /\ Pop(loopbackStack) # <<>>
        /\ Top(Pop(loopbackStack)) = loopbackStack[Len(loopbackStack) - 1]
    BY <1>1, <1>3 DEF Top
  <1>8. loopbackStack[Len(loopbackStack) - 1] \in LoopbackData
    BY <1>1, ElementOfSeq
  <1>9. Ended.head \in Heads
    BY <1>1, <1>4 DEF IInv, HeadsKnown
  <1> QED
    BY <1>1, <1>2, <1>3, <1>4, <1>6, <1>7, <1>8, <1>9 DEF LoopbackData

\* A pop keeps the stack usable as long as the links left on it stay open.
LEMMA PopUsable ==
  ASSUME IInv, Poppable,
         loopbackStack' = Pop(loopbackStack),
         m' = Top(Pop(loopbackStack)).link,
         open' \in SUBSET Loopbacks,
         open \ {Ended.link} \subseteq open'
  PROVE  /\ m' \in Links
         /\ loopbackStack' \in Seq(LoopbackData)
         /\ CurrentLinkUsable' /\ HeadsKnown'
  <1>1. /\ m' \in Links
        /\ loopbackStack' \in Seq(LoopbackData)
        /\ m' = Top(loopbackStack').link
    BY PoppedStack
  <1>2. /\ Len(loopbackStack') = Len(loopbackStack) - 1
        /\ Len(loopbackStack) \in Nat /\ Len(loopbackStack) >= 2
        /\ DOMAIN loopbackStack' = 1 .. Len(loopbackStack) - 1
        /\ DOMAIN loopbackStack = 1 .. Len(loopbackStack)
    BY <1>1, PoppedStack DEF Poppable, IInv, TypeOK
  <1>3. \A i \in 1 .. Len(loopbackStack) - 1 :
           /\ loopbackStack'[i] = loopbackStack[i]
           /\ loopbackStack[i].link # Ended.link
    BY PoppedStack
  <1>4. Alive /\ CurrentLinkUsable
    BY PoppedStack DEF IInv
  <1>5. loopbackStack'[1].link = Main
    BY <1>2, <1>3, <1>4 DEF CurrentLinkUsable
  <1>6. \A i \in 2 .. Len(loopbackStack') : loopbackStack'[i].link \in open'
    BY <1>2, <1>3, <1>4 DEF CurrentLinkUsable
  <1>7. \A i, j \in DOMAIN loopbackStack' :
           loopbackStack'[i].link = loopbackStack'[j].link => i = j
    BY <1>2, <1>3, <1>4 DEF CurrentLinkUsable
  <1>8. HeadsKnown'
    BY <1>2, <1>3 DEF IInv, HeadsKnown
  <1> QED
    BY <1>1, <1>5, <1>6, <1>7, <1>8 DEF CurrentLinkUsable

-----------------------------------------------------------------------------
(* Every action keeps the types and the stack.                             *)

\* What is delivered has the type of a link's content.
LEMMA DeliverType ==
  ASSUME TypeOK, NEW toks \in Seq(Tokens), m' \in Links, Deliver(toks)
  PROVE  content' \in [Links -> Seq(Tokens)]
  <1> DEFINE cleared == [content EXCEPT ![Ended.link] = <<>>]
  <1>1. cleared \in [Links -> Seq(Tokens)]
    <2>1. <<>> \in Seq(Tokens) /\ content \in [Links -> Seq(Tokens)]
      BY DEF TypeOK
    <2> QED
      BY <2>1
  <1>2. content' = [cleared EXCEPT ![m'] = cleared[m'] \o toks]
    BY DEF Deliver
  <1>3. cleared[m'] \o toks \in Seq(Tokens)
    BY <1>1, ConcatProperties
  <1> QED
    BY <1>1, <1>2, <1>3

\* The expression that EndExpr makes is a sequence of tokens.
LEMMA EndedTokens ==
  ASSUME IInv, Poppable,
         NEW k \in 0 .. Len(content[Ended.link])
  PROVE  EndedUpTo(k) \in Seq(Tokens)
  <1>1. content[Ended.link] \in Seq(Tokens)
    BY PoppedStack DEF IInv, TypeOK
  <1> DEFINE args == SubSeq(content[Ended.link], 1, k)
  <1>2. args \in Seq(Tokens)
    BY <1>1, FirstPart
  <1>3. Count(args) \in Nat
    BY <1>2, EndsInside
  <1>4. Token(Ended.head, Count(args)) \in Tokens
    BY <1>3, PoppedStack DEF Token, Tokens
  <1>5. <<Token(Ended.head, Count(args))>> \in Seq(Tokens)
    BY <1>4
  <1> QED
    BY <1>2, <1>5, ConcatProperties DEF EndedUpTo

\* What happens to the caller's expressions keeps the type of its nesting.
LEMMA ClientType ==
  ASSUME client \in Seq(Nesting)
  PROVE  /\ Taken \in Seq(Nesting) /\ Len(Taken) = Len(client)
         /\ Forgotten \in Seq(Nesting) /\ Len(Forgotten) = Len(client)
         /\ ClientEnds \/ ClientDrops => client' \in Seq(Nesting)
  <1>1. /\ DOMAIN client = 1 .. Len(client) /\ Len(client) \in Nat
        /\ \A i \in 1 .. Len(client) : client[i] \in Nesting
    BY ElementOfSeq
  <1>2. Taken \in [1 .. Len(client) -> Nesting]
    BY <1>1 DEF Taken, Nesting
  <1>3. Taken \in Seq(Nesting) /\ Len(Taken) = Len(client)
    BY <1>1, <1>2
  <1>4. Forgotten \in [1 .. Len(client) -> Nesting]
    BY <1>1 DEF Forgotten, Nesting
  <1>5. Forgotten \in Seq(Nesting) /\ Len(Forgotten) = Len(client)
    BY <1>1, <1>4
  <1>6. ASSUME ClientEnds PROVE client' \in Seq(Nesting)
    <2>1. client # <<>> => Taken # <<>>
      BY <1>3, EmptySeq
    <2>2. client # <<>> => Pop(client) \in Seq(Nesting) /\ Pop(Taken) \in Seq(Nesting)
      BY <1>3, <2>1, Popped
    <2>3. client' \in {<<>>, Pop(client), Pop(Taken)} /\ (client = <<>> => client' = client)
      BY <1>6 DEF ClientEnds
    <2> QED
      BY <1>6, <2>2, <2>3 DEF ClientEnds
  <1>7. ASSUME ClientDrops PROVE client' \in Seq(Nesting)
    <2>1. [Taken EXCEPT ![Len(client)] = "dropped"] \in [1 .. Len(client) -> Nesting]
      BY <1>2 DEF Nesting
    <2>2. client' \in [1 .. Len(client) -> Nesting]
      BY <1>7, <2>1 DEF ClientDrops
    <2> QED
      BY <1>1, <2>2
  <1> QED
    BY <1>3, <1>5, <1>6, <1>7

\* The steps that leave the stack and the links alone.
LEMMA QuietStep ==
  ASSUME IInv,
         UNCHANGED <<m, loopbackStack, open>>,
         currentExprDropped' \in BOOLEAN,
         client' \in Seq(Nesting),
         content' \in [Links -> Seq(Tokens)],
         failures' \in 0 .. MaxFailures,
         unfinished' \in Nat
  PROVE  IInv'
  BY DEF IInv, TypeOK, CurrentLinkUsable, HeadsKnown, Alive, Top

\* A budget is not exceeded.
LEMMA FailsType == ASSUME TypeOK, Fails PROVE failures' \in 0 .. MaxFailures
  BY StreamAssumption DEF TypeOK, Fails

\* Creation and destruction of streams.
LEMMA LifeStep == ASSUME IInv, Construct \/ Destroy PROVE IInv'
  <1>1. CASE Construct
    <2>1. [head |-> NoHead, link |-> Main] \in LoopbackData
      BY DEF LoopbackData, Links
    <2>2. /\ loopbackStack' = <<[head |-> NoHead, link |-> Main]>>
          /\ Len(loopbackStack') = 1 /\ loopbackStack' # <<>>
      BY <1>1 DEF Construct
    <2>3. TypeOK'
      <3>1. loopbackStack' \in Seq(LoopbackData) /\ m' \in Links
        BY <1>1, <2>1, <2>2 DEF Construct, Links
      <3> QED
        BY <1>1, <3>1 DEF Construct, IInv, TypeOK
    <2>4. CurrentLinkUsable' /\ HeadsKnown'
      BY <1>1, <2>2 DEF Construct, CurrentLinkUsable, HeadsKnown, Top
    <2> QED
      BY <2>3, <2>4 DEF IInv
  <1>2. CASE Destroy
    <2>1. loopbackStack' = <<>> /\ Len(loopbackStack') = 0
      BY <1>2 DEF Destroy
    <2>2. Len(loopbackStack) \in Nat \ {0}
      BY <1>2, EmptySeq DEF Destroy, Alive, IInv, TypeOK
    <2>3. unfinished' \in Nat
      BY <1>2, <2>2 DEF Destroy, IInv, TypeOK
    <2>4. content' \in [Links -> Seq(Tokens)]
      BY <1>2 DEF Destroy
    <2>5. loopbackStack' \in Seq(LoopbackData) /\ client' \in Seq(Nesting)
      BY <1>2, <2>1 DEF Destroy
    <2>6. TypeOK'
      BY <1>2, <2>3, <2>4, <2>5 DEF Destroy, IInv, TypeOK
    <2> QED
      BY <2>1, <2>6 DEF IInv, CurrentLinkUsable, HeadsKnown, Alive
  <1> QED
    BY <1>1, <1>2

\* What the caller puts arrives on a link.
LEMMA PutStep ==
  ASSUME IInv, NEW h \in Heads, NEW a \in Arities, Put(Token(h, a))
  PROVE  IInv'
  <1>1. Token(h, a) \in Tokens
    BY StreamAssumption DEF Token, Tokens
  <1>2. content' \in [Links -> Seq(Tokens)]
    <2>1. Append(content[m], Token(h, a)) \in Seq(Tokens)
      BY <1>1, AppendProperties DEF IInv, TypeOK
    <2> QED
      BY <2>1 DEF Put, IInv, TypeOK
  <1> QED
    BY <1>2, QuietStep DEF Put, stream, IInv, TypeOK

\* Failures and ends that change neither the stack nor a link.
LEMMA NoEffectStep ==
  ASSUME IInv, PutFails \/ BeginFails \/ DropTooEarly \/ EndDropped \/ EndTooEarly
  PROVE  IInv'
  <1> USE DEF stream, vars
  <1>0. TypeOK
    BY DEF IInv
  <1>1. CASE PutFails
    BY <1>0, <1>1, FailsType, QuietStep DEF PutFails, TypeOK
  <1>2. CASE BeginFails
    BY <1>0, <1>2, ClientType, FailsType, QuietStep DEF BeginFails, TypeOK
  <1>3. CASE DropTooEarly
    BY <1>0, <1>3, QuietStep DEF DropTooEarly, TypeOK
  <1>4. CASE EndDropped
    BY <1>0, <1>4, ClientType, QuietStep DEF EndDropped, TypeOK
  <1>5. CASE EndTooEarly
    BY <1>0, <1>5, ClientType, QuietStep DEF EndTooEarly, TypeOK
  <1> QED
    BY <1>1, <1>2, <1>3, <1>4, <1>5

\* A new link on top of the stack is open and was not there before.
LEMMA BeginStep ==
  ASSUME IInv, NEW h \in Heads, NEW l \in Loopbacks, BeginExpr(h, l)
  PROVE  IInv'
  <1> DEFINE data == [head |-> h, link |-> l]
             n    == Len(loopbackStack)
  <1>1. data \in LoopbackData /\ l \in Links
    BY DEF LoopbackData, Links
  <1>2. /\ loopbackStack' \in Seq(LoopbackData)
        /\ loopbackStack' # <<>>
        /\ n \in Nat \ {0}
        /\ Len(loopbackStack') = n + 1
        /\ \A i \in 1 .. n : loopbackStack'[i] = loopbackStack[i]
        /\ loopbackStack'[n + 1] = data
        /\ Top(loopbackStack') = data
    <2>1. loopbackStack \in Seq(LoopbackData) /\ loopbackStack # <<>>
      BY DEF BeginExpr, Alive, IInv, TypeOK
    <2>2. n \in Nat \ {0}
      BY <2>1, EmptySeq
    <2>3. loopbackStack' = Append(loopbackStack, data)
      BY DEF BeginExpr
    <2> QED
      BY <1>1, <2>1, <2>2, <2>3, TopOfAppend
  <1>3. client' \in Seq(Nesting)
    BY ClientType, AppendProperties DEF BeginExpr, IInv, TypeOK, Nesting
  <1>4. content' \in [Links -> Seq(Tokens)]
    <2>1. <<>> \in Seq(Tokens)
      OBVIOUS
    <2> QED
      BY <2>1 DEF BeginExpr, IInv, TypeOK
  <1>5. TypeOK'
    BY <1>1, <1>2, <1>3, <1>4 DEF BeginExpr, IInv, TypeOK
  <1>6. DOMAIN loopbackStack' = 1 .. n + 1 /\ DOMAIN loopbackStack = 1 .. n
    BY <1>2 DEF IInv, TypeOK
  <1>7. /\ loopbackStack[1].link = Main
        /\ \A i \in 2 .. n : loopbackStack[i].link \in open
        /\ \A i, j \in 1 .. n :
              loopbackStack[i].link = loopbackStack[j].link => i = j
    BY <1>6 DEF IInv, CurrentLinkUsable, BeginExpr
  <1>8. l \notin open /\ l # Main /\ open' = open \cup {l} /\ m' = l
    BY StreamAssumption DEF BeginExpr
  <1>9. \A i \in 1 .. n : loopbackStack[i].link # l
    BY <1>2, <1>7, <1>8
  <1>10. \A i, j \in 1 .. n + 1 :
            loopbackStack'[i].link = loopbackStack'[j].link => i = j
    <2> SUFFICES ASSUME NEW i \in 1 .. n + 1, NEW j \in 1 .. n + 1,
                        loopbackStack'[i].link = loopbackStack'[j].link
                 PROVE  i = j
      OBVIOUS
    <2>1. CASE i \in 1 .. n /\ j \in 1 .. n
      BY <1>2, <1>7, <2>1
    <2>2. CASE i = n + 1 \/ j = n + 1
      BY <1>2, <1>9, <2>2
    <2> QED
      BY <1>2, <2>1, <2>2
  <1>11. CurrentLinkUsable'
    BY <1>2, <1>6, <1>7, <1>8, <1>10 DEF CurrentLinkUsable
  <1>12. HeadsKnown'
    BY <1>2 DEF IInv, HeadsKnown
  <1> QED
    BY <1>5, <1>11, <1>12 DEF IInv

\* A drop closes the top of the stack and nothing else.
LEMMA DropStep == ASSUME IInv, DropExpr PROVE IInv'
  <1>1. Poppable /\ Ended = Top(loopbackStack)
    BY DEF DropExpr, Ended
  <1>2. open' \in SUBSET Loopbacks /\ open \ {Ended.link} \subseteq open'
    BY <1>1 DEF DropExpr, IInv, TypeOK
  <1>3. /\ m' \in Links
        /\ loopbackStack' \in Seq(LoopbackData)
        /\ CurrentLinkUsable' /\ HeadsKnown'
    BY <1>1, <1>2, PopUsable DEF DropExpr
  <1>4. content' \in [Links -> Seq(Tokens)]
    <2>1. <<>> \in Seq(Tokens)
      OBVIOUS
    <2> QED
      BY <2>1 DEF DropExpr, IInv, TypeOK
  <1>5. client' \in Seq(Nesting)
    BY ClientType DEF DropExpr, IInv, TypeOK
  <1>6. TypeOK'
    BY <1>2, <1>3, <1>4, <1>5 DEF DropExpr, IInv, TypeOK
  <1> QED
    BY <1>3, <1>6 DEF IInv

\* An end, with whatever it delivers and whichever links it leaves open.
LEMMA EndStep ==
  ASSUME IInv, EndPops,
         NEW toks \in Seq(Tokens), Deliver(toks),
         open' \in SUBSET Loopbacks, open \ {Ended.link} \subseteq open',
         failures' \in 0 .. MaxFailures, unfinished' \in Nat
  PROVE  IInv'
  <1>1. /\ m' \in Links
        /\ loopbackStack' \in Seq(LoopbackData)
        /\ CurrentLinkUsable' /\ HeadsKnown'
    BY PopUsable DEF EndPops
  <1>2. content' \in [Links -> Seq(Tokens)]
    BY <1>1, DeliverType DEF IInv
  <1>3. client' \in Seq(Nesting)
    BY ClientType DEF EndPops, IInv, TypeOK
  <1>4. TypeOK'
    BY <1>1, <1>2, <1>3 DEF EndPops, IInv, TypeOK
  <1> QED
    BY <1>1, <1>4 DEF IInv

\* The four ways in which EndExpr comes out once it has popped.
LEMMA EndSteps ==
  ASSUME IInv, NEW helper \in Loopbacks,
         \/ EndExpr(helper)
         \/ EndMiscounts(helper)
         \/ EndFailsToCount
         \/ EndFailsToSend(helper)
  PROVE  IInv'
  <1>1. EndPops /\ Poppable
    BY DEF EndExpr, EndMiscounts, EndFailsToCount, EndFailsToSend, EndPops
  <1>2. content[Ended.link] \in Seq(Tokens) /\ Ended.link \in Links
    BY <1>1, PoppedStack DEF IInv, TypeOK
  <1>3. /\ Complete \in 0 .. Len(content[Ended.link])
        /\ Ends(content[Ended.link]) \subseteq 0 .. Len(content[Ended.link])
    BY <1>2, EndsInside DEF Complete
  <1>4. TypeOK /\ open \in SUBSET Loopbacks
    BY DEF IInv, TypeOK
  <1>5. CASE EndExpr(helper)
    <2>1. EndedUpTo(Complete) \in Seq(Tokens)
      BY <1>1, <1>3, EndedTokens
    <2>2. open' \in SUBSET Loopbacks /\ open \ {Ended.link} \subseteq open'
      BY <1>4, <1>5 DEF EndExpr, OpenAfterCount
    <2> QED
      BY <1>1, <1>4, <1>5, <2>1, <2>2, EndStep DEF EndExpr, TypeOK
  <1>6. CASE EndMiscounts(helper)
    <2>1. PICK k \in Ends(content[Ended.link]) \cup {0} : Deliver(EndedUpTo(k))
      BY <1>6 DEF EndMiscounts
    <2>2. k \in 0 .. Len(content[Ended.link])
      BY <1>2, <1>3
    <2>3. EndedUpTo(k) \in Seq(Tokens)
      BY <1>1, <2>2, EndedTokens
    <2>4. open' \in SUBSET Loopbacks /\ open \ {Ended.link} \subseteq open'
      BY <1>4, <1>6 DEF EndMiscounts, OpenAfterCount
    <2>5. failures' \in 0 .. MaxFailures /\ unfinished' \in Nat
      BY <1>4, <1>6, FailsType DEF EndMiscounts, TypeOK
    <2> QED
      BY <1>1, <2>1, <2>3, <2>4, <2>5, EndStep
  <1>7. CASE EndFailsToCount
    <2>1. <<>> \in Seq(Tokens)
      OBVIOUS
    <2>2. open' \in SUBSET Loopbacks /\ open \ {Ended.link} \subseteq open'
      BY <1>4, <1>7 DEF EndFailsToCount
    <2>3. failures' \in 0 .. MaxFailures /\ unfinished' \in Nat
      BY <1>4, <1>7, FailsType DEF EndFailsToCount, TypeOK
    <2> QED
      BY <1>1, <1>7, <2>1, <2>2, <2>3, EndStep DEF EndFailsToCount
  <1>8. CASE EndFailsToSend(helper)
    <2> DEFINE sent(k) == SubSeq(EndedUpTo(Complete), 1, k)
    <2>1. PICK k \in 0 .. Complete + 1 : Deliver(sent(k))
      BY <1>8 DEF EndFailsToSend
    <2>2. EndedUpTo(Complete) \in Seq(Tokens)
      BY <1>1, <1>3, EndedTokens
    <2>3. Len(EndedUpTo(Complete)) = Complete + 1
      <3>1. SubSeq(content[Ended.link], 1, Complete) \in Seq(Tokens)
            /\ Len(SubSeq(content[Ended.link], 1, Complete)) = Complete
        BY <1>2, <1>3, FirstPart
      <3> QED
        BY <1>3, <2>2, <3>1 DEF EndedUpTo
    <2>4. sent(k) \in Seq(Tokens)
      BY <2>1, <2>2, <2>3, FirstPart
    <2>5. open' \in SUBSET Loopbacks /\ open \ {Ended.link} \subseteq open'
      BY <1>4, <1>8 DEF EndFailsToSend, OpenAfterCount
    <2>6. failures' \in 0 .. MaxFailures /\ unfinished' \in Nat
      BY <1>4, <1>8, FailsType DEF EndFailsToSend, TypeOK
    <2> QED
      BY <1>1, <2>1, <2>4, <2>5, <2>6, EndStep
  <1> QED
    BY <1>5, <1>6, <1>7, <1>8

\* Every step keeps the invariant; the failing EndExpr needs no helper link.
LEMMA NextInv == ASSUME IInv, [Next]_vars PROVE IInv'
  <1>1. CASE UNCHANGED vars
    BY <1>1, QuietStep DEF vars, stream, IInv, TypeOK
  <1>2. CASE EndFailsToCount
    <2>1. EndPops /\ Poppable
      BY <1>2 DEF EndFailsToCount, EndPops
    <2>2. PICK helper \in Loopbacks : TRUE
      BY <2>1, PoppedStack DEF IInv, TypeOK
    <2> QED
      BY <1>2, <2>2, EndSteps
  <1> QED
    BY <1>1, <1>2, LifeStep, PutStep, NoEffectStep, BeginStep, DropStep, EndSteps
    DEF Next

\* The stream's members keep their types and the links their kind of content,
\* whatever fails and however the caller nests its expressions.
THEOREM StreamTypes == Spec => []TypeOK
  <1>1. IInv => TypeOK
    BY DEF IInv
  <1> QED
    BY <1>1, InitInv, NextInv, PTL DEF Spec

\* The active link is the top of the stack, and the stack holds distinct open
\* links: BeginExpr, DropExpr and EndExpr, failing or not, never write to a
\* closed link and never close one twice.
THEOREM LinksUsable == Spec => []CurrentLinkUsable
  <1>1. IInv => CurrentLinkUsable
    BY DEF IInv
  <1> QED
    BY <1>1, InitInv, NextInv, PTL DEF Spec

-----------------------------------------------------------------------------
(* The caller's nesting.                                                   *)

\* The positions of the expressions that have their links, and what the flag
\* and the depth n of the stack know of the expressions c.
BegunIn(c) == {i \in DOMAIN c : c[i] = "begun"}
Innermost == Max(Begun \cup {0})
Known(c, flag, n) ==
  /\ flag <=> (c # <<>> /\ Top(c) = "dropped")
  /\ \A i \in 1 .. Len(c) - 1 : c[i] # "dropped"
  /\ n = Cardinality(BegunIn(c))

\* The innermost expression that has its link, if there is one.
LEMMA ClientShape ==
  ASSUME client \in Seq(Nesting)
  PROVE  /\ DOMAIN client = 1 .. Len(client) /\ Len(client) \in Nat
         /\ BegunIn(client) = Begun /\ Begun \in SUBSET (1 .. Len(client))
         /\ IsFiniteSet(Begun) /\ Cardinality(Begun) \in Nat
         /\ Cardinality(Begun) = 0 <=> Begun = {}
         /\ Begun # {} => Innermost \in Begun
         /\ Begun = {} => Innermost = 0
         /\ \A x \in Begun : Innermost >= x
  <1>1. DOMAIN client = 1 .. Len(client) /\ Len(client) \in Nat
    OBVIOUS
  <1>2. BegunIn(client) = Begun /\ Begun \in SUBSET (1 .. Len(client))
    BY <1>1 DEF BegunIn, Begun
  <1>3. IsFiniteSet(Begun)
    <2>1. IsFiniteSet(1 .. Len(client))
      BY <1>1, FS_Interval
    <2> QED
      BY <1>2, <2>1, FS_Subset
  <1>4. Cardinality(Begun) \in Nat /\ (Cardinality(Begun) = 0 <=> Begun = {})
    BY <1>3, FS_CardinalityType, FS_EmptySet
  <1>5. Begun \cup {0} \in SUBSET (0 .. Len(client)) /\ Begun \cup {0} # {}
    BY <1>1, <1>2
  <1>6. Innermost \in Begun \cup {0} /\ \A x \in Begun \cup {0} : Innermost >= x
    BY <1>1, <1>5, MaxInSet DEF Innermost
  <1>7. \A x \in Begun : x \in Nat /\ x > 0
    BY <1>1, <1>2
  <1>8. Begun # {} => Innermost \in Begun
    BY <1>6, <1>7
  <1> QED
    BY <1>1, <1>2, <1>3, <1>4, <1>6, <1>8

\* When the link of the innermost expression is taken, the others keep theirs.
LEMMA TakenShape ==
  ASSUME client \in Seq(Nesting)
  PROVE  /\ Taken \in Seq(Nesting) /\ Len(Taken) = Len(client)
         /\ \A i \in 1 .. Len(client) :
               Taken[i] = IF i = Innermost THEN "gone" ELSE client[i]
         /\ BegunIn(Taken) = Begun \ {Innermost}
         /\ Begun # {} => Cardinality(BegunIn(Taken)) = Cardinality(Begun) - 1
         /\ Begun = {} => BegunIn(Taken) = {}
  <1>1. /\ DOMAIN client = 1 .. Len(client)
        /\ Taken \in Seq(Nesting) /\ Len(Taken) = Len(client)
    BY ClientShape, ClientType
  <1>2. \A i \in 1 .. Len(client) :
           Taken[i] = IF i = Innermost THEN "gone" ELSE client[i]
    BY <1>1 DEF Taken, Innermost
  <1>3. DOMAIN Taken = 1 .. Len(client)
    BY <1>1
  <1>4. BegunIn(Taken) = Begun \ {Innermost}
    BY <1>1, <1>2, <1>3 DEF BegunIn, Begun
  <1>5. Begun # {} => Cardinality(Begun \ {Innermost}) = Cardinality(Begun) - 1
    BY ClientShape, FS_RemoveElement
  <1> QED
    BY <1>1, <1>2, <1>4, <1>5

\* When a drop is forgotten, every expression that has its link keeps it.
LEMMA ForgottenShape ==
  ASSUME client \in Seq(Nesting)
  PROVE  /\ Forgotten \in Seq(Nesting) /\ Len(Forgotten) = Len(client)
         /\ \A i \in 1 .. Len(client) : Forgotten[i] # "dropped"
         /\ BegunIn(Forgotten) = Begun
  <1>1. /\ DOMAIN client = 1 .. Len(client)
        /\ Forgotten \in Seq(Nesting) /\ Len(Forgotten) = Len(client)
    BY ClientShape, ClientType
  <1>2. \A i \in 1 .. Len(client) :
           Forgotten[i] = IF client[i] = "dropped" THEN "gone" ELSE client[i]
    BY <1>1 DEF Forgotten
  <1>3. DOMAIN Forgotten = 1 .. Len(client)
    BY <1>1
  <1>4. \A i \in 1 .. Len(client) :
           Forgotten[i] # "dropped" /\ (Forgotten[i] = "begun" <=> client[i] = "begun")
    BY <1>2
  <1>5. BegunIn(Forgotten) = Begun
    BY <1>1, <1>3, <1>4 DEF BegunIn, Begun
  <1> QED
    BY <1>1, <1>4, <1>5

\* A BeginExpr adds an expression with a link and takes the flag from another.
LEMMA BeginKnown ==
  ASSUME client \in Seq(Nesting), NEW n, NEW flag, Known(client, flag, n)
  PROVE  /\ Known(Forgotten, FALSE, n)
         /\ Known(Append(Forgotten, "begun"), FALSE, n + 1)
  <1> DEFINE k == Len(client)  c == Append(Forgotten, "begun")
  <1>1. /\ k \in Nat /\ n = Cardinality(Begun) /\ IsFiniteSet(Begun)
        /\ Begun \in SUBSET (1 .. k)
    BY ClientShape DEF Known
  <1>2. /\ Forgotten \in Seq(Nesting) /\ Len(Forgotten) = k
        /\ \A i \in 1 .. k : Forgotten[i] # "dropped"
        /\ BegunIn(Forgotten) = Begun
    BY ForgottenShape
  <1>3. "begun" \in Nesting
    BY DEF Nesting
  <1>4. /\ c \in Seq(Nesting) /\ c # <<>> /\ Len(c) = k + 1
        /\ \A i \in 1 .. k : c[i] = Forgotten[i]
        /\ c[k + 1] = "begun" /\ Top(c) = "begun"
    BY <1>2, <1>3, TopOfAppend
  <1>5. Known(Forgotten, FALSE, n)
    <2>1. Forgotten # <<>> => k \in 1 .. k
      BY <1>1, <1>2, EmptySeq
    <2>2. ~ (Forgotten # <<>> /\ Top(Forgotten) = "dropped")
      BY <1>2, <2>1 DEF Top
    <2> QED
      BY <1>1, <1>2, <2>2 DEF Known
  <1>6. BegunIn(c) = Begun \cup {k + 1}
    <2>1. DOMAIN c = 1 .. k + 1 /\ DOMAIN Forgotten = 1 .. k
      BY <1>2, <1>4
    <2>2. \A i \in 1 .. k + 1 : i \in 1 .. k \/ i = k + 1
      BY <1>1
    <2>3. k + 1 \in 1 .. k + 1 /\ \A i \in 1 .. k : i \in 1 .. k + 1
      BY <1>1
    <2> HIDE DEF c, k
    <2> QED
      BY <1>2, <1>4, <2>1, <2>2, <2>3 DEF BegunIn
  <1>7. Cardinality(BegunIn(c)) = n + 1
    <2>1. k + 1 \notin Begun
      BY <1>1
    <2> QED
      BY <1>1, <1>6, <2>1, FS_AddElement
  <1>8. \A i \in 1 .. Len(c) - 1 : c[i] # "dropped"
    BY <1>1, <1>2, <1>4
  <1> QED
    BY <1>4, <1>5, <1>7, <1>8 DEF Known

\* A DropExpr takes the innermost link and gives the last expression the flag.
LEMMA DropKnown ==
  ASSUME client \in Seq(Nesting), NEW n \in Nat, n > 0, NEW flag, Known(client, flag, n)
  PROVE  Known([Taken EXCEPT ![Len(client)] = "dropped"], TRUE, n - 1)
  <1> DEFINE k == Len(client)  c == [Taken EXCEPT ![k] = "dropped"]
  <1>1. /\ k \in Nat /\ n = Cardinality(Begun) /\ Begun # {}
        /\ Begun \in SUBSET (1 .. k)
        /\ Innermost \in Begun /\ \A x \in Begun : Innermost >= x
    BY ClientShape DEF Known
  <1>2. k \in 1 .. k
    BY <1>1
  <1>3. /\ Taken \in Seq(Nesting) /\ Len(Taken) = k
        /\ \A i \in 1 .. k : Taken[i] = IF i = Innermost THEN "gone" ELSE client[i]
        /\ BegunIn(Taken) = Begun \ {Innermost}
        /\ Cardinality(BegunIn(Taken)) = n - 1
    BY <1>1, TakenShape
  <1>4. "dropped" \in Nesting
    BY DEF Nesting
  <1>5. /\ c \in Seq(Nesting) /\ Len(c) = k
        /\ \A i \in 1 .. k : c[i] = IF i = k THEN "dropped" ELSE Taken[i]
    BY <1>2, <1>3, <1>4, ExceptSeq
  <1>6. c # <<>> /\ Top(c) = "dropped"
    BY <1>1, <1>2, <1>5, EmptySeq DEF Top
  <1>7. Taken[k] # "begun"
    <2>1. k \notin Begun \ {Innermost}
      BY <1>1
    <2>2. k \notin BegunIn(Taken) /\ k \in DOMAIN Taken
      BY <1>2, <1>3, <2>1
    <2> QED
      BY <2>2 DEF BegunIn
  <1>8. BegunIn(c) = BegunIn(Taken)
    <2>1. DOMAIN c = 1 .. k /\ DOMAIN Taken = 1 .. k
      BY <1>3, <1>5
    <2> HIDE DEF c, k
    <2> QED
      BY <1>5, <1>7, <2>1 DEF BegunIn
  <1>9. \A i \in 1 .. k - 1 : c[i] # "dropped"
    <2>1. \A i \in 1 .. k - 1 : client[i] # "dropped" /\ i \in 1 .. k /\ i # k
      BY <1>1 DEF Known
    <2> HIDE DEF c, k
    <2> QED
      BY <1>3, <1>5, <2>1
  <1> QED
    BY <1>3, <1>5, <1>6, <1>8, <1>9 DEF Known

\* What is known once the last expression has come to its end.
LEMMA PopKnown ==
  ASSUME NEW c \in Seq(Nesting), c # <<>>, Top(c) # "begun",
         \A i \in 1 .. Len(c) - 1 : c[i] # "dropped",
         NEW n, n = Cardinality(BegunIn(c))
  PROVE  Known(Pop(c), FALSE, n)
  <1> DEFINE k == Len(c)  p == Pop(c)
  <1>1. /\ p \in Seq(Nesting) /\ Len(p) = k - 1 /\ k \in Nat \ {0}
        /\ \A i \in 1 .. k - 1 : p[i] = c[i]
    BY Popped, EmptySeq
  <1>2. c[k] # "begun"
    BY DEF Top
  <1>3. DOMAIN p = 1 .. k - 1 /\ DOMAIN c = 1 .. k
    BY <1>1
  <1>4. /\ \A i \in 1 .. k : i \in 1 .. k - 1 \/ i = k
        /\ \A i \in 1 .. k - 1 : i \in 1 .. k
    BY <1>1
  <1> HIDE DEF k
  <1>5. BegunIn(p) = BegunIn(c)
    <2> HIDE DEF p
    <2> QED
      BY <1>1, <1>2, <1>3, <1>4 DEF BegunIn
  <1>6. ~ (p # <<>> /\ Top(p) = "dropped")
    <2>1. p # <<>> => Len(p) \in 1 .. k - 1
      BY <1>1, EmptySeq
    <2> HIDE DEF p
    <2> QED
      BY <1>1, <2>1 DEF Top, k
  <1>7. \A i \in 1 .. Len(p) - 1 : p[i] # "dropped"
    BY <1>1 DEF k
  <1> QED
    BY <1>5, <1>6, <1>7 DEF Known

\* An EndExpr: with the flag the last expression was the dropped one; without
\* it the innermost link goes, or there is none.
LEMMA EndKnown ==
  ASSUME client \in Seq(Nesting), NEW n \in Nat, NEW flag \in BOOLEAN,
         Known(client, flag, n), ClientEnds
  PROVE  /\ flag => Known(client', FALSE, n)
         /\ ~ flag /\ n > 0 => Known(client', FALSE, n - 1)
         /\ ~ flag /\ n = 0 => Known(client', FALSE, n)
  <1>1. /\ n = Cardinality(Begun) /\ Begun \in SUBSET (1 .. Len(client))
        /\ Begun # {} => Innermost \in Begun
        /\ \A x \in Begun : Innermost >= x
        /\ n = 0 <=> Begun = {}
        /\ BegunIn(client) = Begun /\ Len(client) \in Nat
    BY ClientShape DEF Known
  <1>2. CASE client = <<>>
    <2>1. client' = client /\ flag = FALSE
      BY <1>2 DEF ClientEnds, Known
    <2>2. n = 0 /\ ~ (n > 0)
      <3>1. Begun = {}
        BY <1>2 DEF Begun
      <3> QED
        BY <1>1, <3>1
    <2>3. Known(client', FALSE, n)
      BY <2>1
    <2> QED
      BY <2>1, <2>2, <2>3
  <1>3. CASE client # <<>> /\ flag
    <2>1. Top(client) = "dropped" /\ client' = Pop(client)
      BY <1>3 DEF Known, ClientEnds, InDropped
    <2>2. \A i \in 1 .. Len(client) - 1 : client[i] # "dropped"
      BY DEF Known
    <2> QED
      BY <1>1, <1>3, <2>1, <2>2, PopKnown
  <1>4. CASE client # <<>> /\ ~ flag
    <2> DEFINE k == Len(client)
    <2>1. Top(client) # "dropped" /\ client' = Pop(Taken)
      BY <1>4 DEF Known, ClientEnds, InDropped
    <2>2. /\ Taken \in Seq(Nesting) /\ Len(Taken) = k
          /\ \A i \in 1 .. k : Taken[i] = IF i = Innermost THEN "gone" ELSE client[i]
          /\ BegunIn(Taken) = Begun \ {Innermost}
          /\ Begun # {} => Cardinality(BegunIn(Taken)) = Cardinality(Begun) - 1
          /\ Begun = {} => BegunIn(Taken) = Begun
      BY TakenShape
    <2>3. k \in 1 .. k /\ Taken # <<>> /\ \A i \in 1 .. k - 1 : i \in 1 .. k
      BY <1>1, <1>4, <2>2, EmptySeq
    <2>4. \A i \in 1 .. Len(Taken) - 1 : Taken[i] # "dropped"
      BY <2>2, <2>3 DEF Known
    <2>5. Top(Taken) # "begun"
      <3>1. k \in Begun => Innermost \in 1 .. k /\ Innermost >= k
        BY <1>1
      <3>2. k \notin BegunIn(Taken) /\ k \in DOMAIN Taken
        BY <1>1, <2>2, <2>3, <3>1
      <3> QED
        BY <2>2, <3>2 DEF BegunIn, Top
    <2>6. Known(Pop(Taken), FALSE, Cardinality(BegunIn(Taken)))
      BY <2>2, <2>3, <2>4, <2>5, PopKnown
    <2>7. n > 0 => Cardinality(BegunIn(Taken)) = n - 1
      BY <1>1, <2>2
    <2>8. n = 0 => Cardinality(BegunIn(Taken)) = n
      BY <1>1, <2>2
    <2> QED
      BY <1>4, <2>1, <2>6, <2>7, <2>8
  <1> QED
    BY <1>2, <1>3, <1>4

NestingInv ==
  /\ Alive => Known(client, currentExprDropped, Len(loopbackStack) - 1)
  /\ ~ Alive => client = <<>>

\* Nothing is begun when a stream is made, and when it is gone.
LEMMA NestingLife ==
  ASSUME IInv, NestingInv, Construct \/ Destroy
  PROVE  NestingInv'
  <1>1. CASE Construct
    <2>1. client' = <<>> /\ currentExprDropped' = FALSE /\ Len(loopbackStack') - 1 = 0
          /\ loopbackStack' # <<>>
      BY <1>1 DEF Construct, NestingInv
    <2>2. BegunIn(client') = {} /\ Len(client') = 0
      BY <2>1 DEF BegunIn
    <2>3. Known(client', FALSE, 0)
      BY <2>1, <2>2, FS_EmptySet DEF Known
    <2> QED
      BY <2>1, <2>3 DEF NestingInv, Alive
  <1>2. CASE Destroy
    BY <1>2 DEF Destroy, NestingInv, Alive
  <1> QED
    BY <1>1, <1>2

\* The depth that a pop leaves.
LEMMA NestingPop ==
  ASSUME IInv, Poppable, loopbackStack' = Pop(loopbackStack)
  PROVE  /\ Alive /\ Alive'
         /\ Len(loopbackStack) - 1 \in Nat /\ Len(loopbackStack) - 1 > 0
         /\ Len(loopbackStack') - 1 = (Len(loopbackStack) - 1) - 1
  BY PoppedStack DEF Alive, Poppable

\* The caller's open expressions, the stack and the flag change together.
LEMMA NestingStep ==
  ASSUME IInv, NestingInv, [Next]_vars
  PROVE  NestingInv'
  <1> DEFINE n == Len(loopbackStack) - 1
  <1>1. client \in Seq(Nesting) /\ (Alive => n \in Nat)
    BY EmptySeq DEF IInv, TypeOK, Alive
  <1>2. ASSUME Alive PROVE Known(client, currentExprDropped, n)
    BY <1>2 DEF NestingInv
  <1> HIDE DEF n
  <1>3. CASE UNCHANGED <<client, loopbackStack, currentExprDropped>>
    BY <1>3 DEF NestingInv, Alive
  <1>4. CASE Construct \/ Destroy
    BY <1>4, NestingLife
  <1>5. ASSUME NEW h \in Heads, NEW l \in Loopbacks, BeginExpr(h, l)
        PROVE  NestingInv'
    <2>1. /\ Alive /\ client' = Append(Forgotten, "begun")
          /\ currentExprDropped' = FALSE
      BY <1>5 DEF BeginExpr
    <2>2. Alive' /\ Len(loopbackStack') - 1 = n + 1
      <3>1. loopbackStack \in Seq(LoopbackData) /\ [head |-> h, link |-> l] \in LoopbackData
        BY DEF IInv, TypeOK, LoopbackData, Links
      <3>2. loopbackStack' = Append(loopbackStack, [head |-> h, link |-> l])
        BY <1>5 DEF BeginExpr
      <3>3. loopbackStack' # <<>> /\ Len(loopbackStack') = Len(loopbackStack) + 1
            /\ Len(loopbackStack) \in Nat
        BY <3>1, <3>2, TopOfAppend
      <3> QED
        BY <3>3 DEF Alive, n
    <2>3. Known(client', FALSE, n + 1)
      BY <1>1, <1>2, <2>1, BeginKnown
    <2> QED
      BY <2>1, <2>2, <2>3 DEF NestingInv
  <1>6. CASE BeginFails
    <2>1. Alive /\ client' = Forgotten /\ currentExprDropped' = FALSE
          /\ loopbackStack' = loopbackStack
      BY <1>6 DEF BeginFails
    <2>2. Known(client', FALSE, n)
      BY <1>1, <1>2, <2>1, BeginKnown
    <2> QED
      BY <2>1, <2>2 DEF NestingInv, Alive, n
  <1>7. CASE DropExpr
    <2>1. /\ Poppable /\ loopbackStack' = Pop(loopbackStack) /\ currentExprDropped' = TRUE
          /\ client' = [Taken EXCEPT ![Len(client)] = "dropped"]
      BY <1>7 DEF DropExpr, ClientDrops
    <2>2. Alive /\ Alive' /\ n \in Nat /\ n > 0 /\ Len(loopbackStack') - 1 = n - 1
      BY <2>1, NestingPop DEF n
    <2>3. Known(client', TRUE, n - 1)
      BY <1>1, <1>2, <2>1, <2>2, DropKnown
    <2> QED
      BY <2>1, <2>2, <2>3 DEF NestingInv
  <1>8. CASE EndDropped \/ EndTooEarly
    <2>1. /\ Alive /\ ClientEnds /\ loopbackStack' = loopbackStack
          /\ currentExprDropped' = FALSE
          /\ currentExprDropped \/ (~ currentExprDropped /\ ~ Poppable)
      BY <1>8 DEF EndDropped, EndTooEarly, stream, IInv, TypeOK
    <2>2. ~ Poppable => n = 0
      <3>1. n \in Nat /\ Len(loopbackStack) \in Nat
        BY <1>1, <2>1 DEF IInv, TypeOK
      <3> QED
        BY <3>1 DEF Poppable, n
    <2>3. currentExprDropped \in BOOLEAN /\ Known(client, currentExprDropped, n) /\ n \in Nat
      BY <1>1, <1>2, <2>1 DEF IInv, TypeOK
    <2>4. Known(client', FALSE, n)
      BY <1>1, <2>1, <2>2, <2>3, EndKnown
    <2> QED
      BY <2>1, <2>4 DEF NestingInv, Alive, n
  <1>9. CASE EndPops
    <2>1. /\ ~ currentExprDropped /\ Poppable /\ loopbackStack' = Pop(loopbackStack)
          /\ ClientEnds /\ currentExprDropped' = FALSE
      BY <1>9 DEF EndPops, IInv, TypeOK
    <2>2. Alive /\ Alive' /\ n \in Nat /\ n > 0 /\ Len(loopbackStack') - 1 = n - 1
      BY <2>1, NestingPop DEF n
    <2>3. Known(client, FALSE, n) /\ FALSE \in BOOLEAN /\ ClientEnds
      <3>1. currentExprDropped = FALSE
        BY <2>1 DEF IInv, TypeOK
      <3> QED
        BY <1>2, <2>1, <2>2, <3>1
    <2>4. Known(client', FALSE, n - 1)
      BY <1>1, <2>2, <2>3, EndKnown
    <2> QED
      BY <2>1, <2>2, <2>4 DEF NestingInv
  <1> QED
    BY <1>3, <1>4, <1>5, <1>6, <1>7, <1>8, <1>9
    DEF Next, vars, stream, Put, PutFails, DropTooEarly, EndExpr, EndMiscounts,
        EndFailsToSend, EndFailsToCount

\* For any caller, however it nests, drops and ends, and whatever fails: the
\* flag stands exactly for the last open expression having been dropped, and
\* there are as many loopback links on the stack as expressions that have not
\* lost theirs to a drop or to an EndExpr that came for another one.
THEOREM NestingHolds == Spec => []NestingKnown
  <1>1. Init => NestingInv
    BY DEF Init, NestingInv, Alive
  <1>2. IInv /\ NestingInv /\ [Next]_vars => NestingInv'
    BY NestingStep
  <1>3. IInv /\ NestingInv => NestingKnown
    <2>1. IInv => BegunIn(client) = Begun
      BY ClientShape DEF IInv, TypeOK
    <2> QED
      BY <2>1 DEF NestingInv, NestingKnown, Known, InDropped
  <1> QED
    BY <1>1, <1>2, <1>3, InitInv, NextInv, PTL DEF Spec
-----------------------------------------------------------------------------
(* The links that are lost.                                                *)

Stranded == open \ StackLinks

\* The open links are finitely many, and the kernel's is none of them.
LEMMA FiniteLinks ==
  ASSUME IInv
  PROVE  /\ IsFiniteSet(open) /\ IsFiniteSet(Stranded)
         /\ Main \notin open
  <1>1. open \in SUBSET Loopbacks /\ Stranded \in SUBSET open
    BY DEF IInv, TypeOK, Stranded
  <1>2. IsFiniteSet(open)
    BY <1>1, StreamAssumption, FS_Subset
  <1>3. IsFiniteSet(Stranded)
    BY <1>1, <1>2, FS_Subset
  <1> QED
    BY <1>1, <1>2, <1>3, StreamAssumption

\* A pop takes one link off the stack, an open one.
LEMMA PoppedLinks ==
  ASSUME IInv, Poppable, loopbackStack' = Pop(loopbackStack)
  PROVE  /\ StackLinks' = StackLinks \ {Ended.link}
         /\ Ended.link \in StackLinks /\ Ended.link \in open
         /\ Ended.link \notin Stranded
  <1>1. /\ Len(loopbackStack) \in Nat /\ Len(loopbackStack) >= 2
        /\ DOMAIN loopbackStack = 1 .. Len(loopbackStack)
        /\ DOMAIN loopbackStack' = 1 .. Len(loopbackStack) - 1
    BY PoppedStack DEF Poppable, IInv, TypeOK
  <1>2. /\ Ended = loopbackStack[Len(loopbackStack)] /\ Ended.link \in open
        /\ \A i \in 1 .. Len(loopbackStack) - 1 :
              /\ loopbackStack'[i] = loopbackStack[i]
              /\ loopbackStack[i].link # Ended.link
    BY PoppedStack
  <1>3. Ended.link \in StackLinks
    BY <1>1, <1>2 DEF StackLinks
  <1>4. \A x : x \in StackLinks' <=> x \in StackLinks /\ x # Ended.link
    <2> DEFINE n == Len(loopbackStack)
    <2>0. \A k \in Nat : \A i \in 1 .. k : i \in 1 .. k - 1 \/ i = k
      OBVIOUS
    <2>1. \A i \in 1 .. n : i \in 1 .. n - 1 \/ i = n
      <3>1. n \in Nat
        BY <1>1
      <3> HIDE DEF n
      <3> QED
        BY <2>0, <3>1
    <2>2. \A i \in 1 .. n - 1 : i \in 1 .. n
      BY <1>1
    <2>3. ASSUME NEW x, x \in StackLinks'
          PROVE  x \in StackLinks /\ x # Ended.link
      <3>1. PICK i \in 1 .. n - 1 : x = loopbackStack'[i].link
        BY <1>1, <2>3 DEF StackLinks
      <3>2. x = loopbackStack[i].link /\ x # Ended.link
        BY <1>2, <3>1
      <3> QED
        BY <1>1, <2>2, <3>2 DEF StackLinks
    <2>4. ASSUME NEW x, x \in StackLinks, x # Ended.link
          PROVE  x \in StackLinks'
      <3>1. PICK i \in 1 .. n : x = loopbackStack[i].link
        BY <1>1, <2>4 DEF StackLinks
      <3>2. i \in 1 .. n - 1
        BY <1>2, <2>1, <2>4, <3>1
      <3>3. x = loopbackStack'[i].link
        BY <1>2, <3>1, <3>2
      <3> QED
        BY <1>1, <3>2, <3>3 DEF StackLinks
    <2> QED
      BY <2>3, <2>4
  <1> QED
    BY <1>2, <1>3, <1>4 DEF Stranded

\* All links of the stack but the kernel's are open, and they are distinct.
LEMMA OpenOnStack ==
  ASSUME IInv, Alive
  PROVE  Cardinality(open \cap StackLinks) = Len(loopbackStack) - 1
  <1> DEFINE n == Len(loopbackStack)
             S == 2 .. n
             T == open \cap StackLinks
             f == [i \in S |-> loopbackStack[i].link]
  <1>1. n \in Nat \ {0} /\ DOMAIN loopbackStack = 1 .. n
    BY EmptySeq DEF Alive, IInv, TypeOK
  <1>2. /\ loopbackStack[1].link = Main
        /\ \A i \in S : loopbackStack[i].link \in open
        /\ \A i, j \in 1 .. n :
              loopbackStack[i].link = loopbackStack[j].link => i = j
    BY <1>1 DEF IInv, CurrentLinkUsable
  <1>3. f \in [S -> T]
    BY <1>1, <1>2 DEF StackLinks
  <1>4. \A i, j \in S : f[i] = f[j] => i = j
    BY <1>1, <1>2
  <1>5. \A t \in T : \E i \in S : f[i] = t
    <2> SUFFICES ASSUME NEW t \in T PROVE \E i \in S : f[i] = t
      OBVIOUS
    <2>1. PICK i \in 1 .. n : loopbackStack[i].link = t
      BY <1>1 DEF StackLinks
    <2>2. i # 1
      BY <1>2, <2>1, FiniteLinks
    <2> QED
      BY <1>1, <2>1, <2>2
  <1>6. ExistsBijection(S, T)
    BY <1>3, <1>4, <1>5 DEF ExistsBijection, Bijection, Injection, Surjection, IsInjective
  <1>7. IsFiniteSet(S) /\ Cardinality(S) = n - 1
    BY <1>1, FS_Interval
  <1> QED
    BY <1>6, <1>7, FS_Bijection

\* Steps that leave the same links stranded.
LEMMA SameStranded ==
  ASSUME IInv,
         \/ UNCHANGED <<loopbackStack, open>>
         \/ Construct
         \/ \E h \in Heads, l \in Loopbacks : BeginExpr(h, l)
         \/ DropExpr
         \/ \E helper \in Loopbacks : EndExpr(helper) \/ EndMiscounts(helper)
  PROVE  Stranded' = Stranded
  <1>1. CASE UNCHANGED <<loopbackStack, open>>
    BY <1>1 DEF Stranded, StackLinks
  <1>2. CASE Construct
    <2>1. StackLinks = {} /\ StackLinks' = {Main}
      BY <1>2 DEF Construct, Alive, StackLinks
    <2> QED
      BY <1>2, <2>1, FiniteLinks DEF Construct, Stranded
  <1>3. ASSUME NEW h \in Heads, NEW l \in Loopbacks, BeginExpr(h, l)
        PROVE  Stranded' = Stranded
    <2> DEFINE data == [head |-> h, link |-> l]
               n    == Len(loopbackStack)
    <2>1. loopbackStack \in Seq(LoopbackData) /\ data \in LoopbackData
          /\ loopbackStack' = Append(loopbackStack, data)
      BY <1>3 DEF BeginExpr, IInv, TypeOK, LoopbackData, Links
    <2>2. /\ Len(loopbackStack') = n + 1 /\ n \in Nat
          /\ DOMAIN loopbackStack' = 1 .. n + 1 /\ DOMAIN loopbackStack = 1 .. n
          /\ \A i \in 1 .. n : loopbackStack'[i] = loopbackStack[i]
          /\ loopbackStack'[n + 1] = data
      BY <2>1, TopOfAppend
    <2>3. StackLinks' = StackLinks \cup {l}
      <3>1. \A i \in 1 .. n + 1 : i \in 1 .. n \/ i = n + 1
        BY <2>2
      <3>2. 1 .. n \subseteq 1 .. n + 1 /\ n + 1 \in 1 .. n + 1
        BY <2>2
      <3> QED
        BY <2>2, <3>1, <3>2 DEF StackLinks
    <2> QED
      BY <1>3, <2>3 DEF BeginExpr, Stranded
  <1>4. CASE DropExpr
    BY <1>4, PoppedLinks DEF DropExpr, Ended, Stranded
  <1>5. ASSUME NEW helper \in Loopbacks, EndExpr(helper) \/ EndMiscounts(helper)
        PROVE  Stranded' = Stranded
    <2>1. /\ Poppable /\ loopbackStack' = Pop(loopbackStack)
          /\ helper \notin open /\ open' = OpenAfterCount(helper) \ {helper}
      BY <1>5 DEF EndExpr, EndMiscounts, EndPops
    <2>2. open' = open \ {Ended.link}
      BY <2>1 DEF OpenAfterCount
    <2> QED
      BY <2>1, <2>2, PoppedLinks DEF Stranded
  <1> QED
    BY <1>1, <1>2, <1>3, <1>4, <1>5

\* A failing EndExpr strands the link it has popped, or the helper.
LEMMA OneMoreStranded ==
  ASSUME IInv, NEW helper \in Loopbacks, EndFailsToCount \/ EndFailsToSend(helper)
  PROVE  Cardinality(Stranded') = Cardinality(Stranded) + 1
  <1>1. Poppable /\ loopbackStack' = Pop(loopbackStack)
    BY DEF EndFailsToCount, EndFailsToSend, EndPops
  <1>2. CASE EndFailsToCount
    <2>1. Stranded' = Stranded \cup {Ended.link}
      BY <1>1, <1>2, PoppedLinks DEF EndFailsToCount, Stranded
    <2> QED
      BY <1>1, <2>1, PoppedLinks, FiniteLinks, FS_AddElement
  <1>3. CASE EndFailsToSend(helper)
    <2>1. helper \notin open /\ open' = (open \ {Ended.link}) \cup {helper}
      BY <1>3 DEF EndFailsToSend, OpenAfterCount
    <2>2. helper \notin StackLinks
      <3>1. Alive /\ DOMAIN loopbackStack = 1 .. Len(loopbackStack)
            /\ Len(loopbackStack) \in Nat
        BY <1>1, PoppedStack DEF IInv, TypeOK
      <3>2. \A i \in 1 .. Len(loopbackStack) : loopbackStack[i].link # helper
        BY <2>1, <3>1, StreamAssumption DEF IInv, CurrentLinkUsable
      <3> QED
        BY <3>1, <3>2 DEF StackLinks
    <2>3. Stranded' = Stranded \cup {helper} /\ helper \notin Stranded
      BY <1>1, <2>1, <2>2, PoppedLinks DEF Stranded
    <2> QED
      BY <2>3, FiniteLinks, FS_AddElement
  <1> QED
    BY <1>2, <1>3

\* Each loopback link that is open and off the stack belongs to one expression
\* that was begun and neither ended nor dropped, and each such expression has
\* one: an exception out of EndExpr, or a function that leaves expressions
\* open, loses exactly so many links.
THEOREM StrandedCounted == Spec => []StrandedExactly
  <1>1. Init => StrandedExactly
    BY FS_EmptySet DEF Init, StrandedExactly, StackLinks
  <1>2. ASSUME IInv, StrandedExactly, [Next]_vars PROVE StrandedExactly'
    <2>1. Cardinality(Stranded) = unfinished
          /\ (StrandedExactly' <=> Cardinality(Stranded') = unfinished')
      BY <1>2 DEF StrandedExactly, Stranded
    <2>2. CASE Destroy
      <3>1. Stranded' = open
        BY <2>2 DEF Destroy, Stranded, StackLinks
      <3>2. Cardinality(Stranded) = Cardinality(open) - Cardinality(open \cap StackLinks)
        BY <1>2, FiniteLinks, FS_Difference DEF Stranded
      <3>3. Cardinality(open \cap StackLinks) = Len(loopbackStack) - 1
        BY <1>2, <2>2, OpenOnStack DEF Destroy
      <3>4. Cardinality(open) \in Nat
        BY <1>2, FiniteLinks, FS_CardinalityType
      <3>5. Len(loopbackStack) \in Nat /\ unfinished \in Nat
        BY <1>2 DEF IInv, TypeOK
      <3> QED
        BY <2>1, <2>2, <3>1, <3>2, <3>3, <3>4, <3>5 DEF Destroy
    <2>3. ASSUME NEW helper \in Loopbacks, EndFailsToCount \/ EndFailsToSend(helper)
          PROVE  StrandedExactly'
      BY <1>2, <2>1, <2>3, OneMoreStranded DEF EndFailsToCount, EndFailsToSend
    <2>4. CASE EndFailsToCount
      <3>1. \E helper \in Loopbacks : TRUE
        BY <1>2, <2>4, PoppedStack DEF EndFailsToCount, EndPops, IInv, TypeOK
      <3> QED
        BY <2>3, <2>4, <3>1
    <2>5. CASE \/ UNCHANGED vars \/ Construct \/ PutFails \/ BeginFails
               \/ (\E h \in Heads, a \in Arities : Put(Token(h, a)))
               \/ DropTooEarly \/ EndDropped \/ EndTooEarly
      <3>1. unfinished' = unfinished
            /\ (Construct \/ UNCHANGED <<loopbackStack, open>>)
        BY <2>5 DEF vars, stream, Construct, PutFails, BeginFails, Put,
                    DropTooEarly, EndDropped, EndTooEarly
      <3> QED
        BY <1>2, <2>1, <3>1, SameStranded
    <2>6. CASE \/ DropExpr \/ (\E h \in Heads, l \in Loopbacks : BeginExpr(h, l))
               \/ (\E helper \in Loopbacks : EndExpr(helper) \/ EndMiscounts(helper))
      <3>1. unfinished' = unfinished
        BY <2>6 DEF DropExpr, BeginExpr, EndExpr, EndMiscounts
      <3> QED
        BY <1>2, <2>1, <2>6, <3>1, SameStranded
    <2> QED
      BY <1>2, <2>2, <2>3, <2>4, <2>5, <2>6 DEF Next
  <1> QED
    BY <1>1, <1>2, InitInv, NextInv, PTL DEF Spec
-----------------------------------------------------------------------------
(* The expressions on a link.                                              *)

\* Induction up to a bound, and the least element it rests on.
LEMMA UpTo ==
  ASSUME NEW n \in Nat, NEW S, 0 \in S, \A k \in 0 .. n - 1 : k \in S => k + 1 \in S
  PROVE  0 .. n \subseteq S
  <1> DEFINE Missing == (0 .. n) \ S
  <1>1. SUFFICES ASSUME Missing # {} PROVE FALSE
    OBVIOUS
  <1>2. Missing \subseteq Nat
    OBVIOUS
  <1>3. PICK k \in Missing : \A j \in Missing : ~ (<<j, k>> \in OpToRel(<, Nat))
    BY <1>1, <1>2, NatLessThanWellFounded, WFMin
  <1>4. \A j \in Missing : ~ (j < k)
    BY <1>2, <1>3 DEF OpToRel
  <1>5. k \in 1 .. n /\ k \notin S
    <2>1. k \in 0 .. n /\ k \notin S /\ k # 0
      OBVIOUS
    <2> QED
      BY <2>1
  <1>6. k - 1 \in 0 .. n - 1
    BY <1>5
  <1>7. k - 1 \in S
    BY <1>4, <1>5, <1>6
  <1> QED
    BY <1>5, <1>6, <1>7

LEMMA TokenFields ==
  ASSUME NEW s \in Seq(Tokens), NEW k \in 1 .. Len(s)
  PROVE  s[k] \in Tokens /\ s[k].argc \in Nat /\ s[k].argc \in Int
  <1>1. s[k] \in Tokens
    BY ElementOfSeq
  <1> QED
    BY <1>1 DEF Tokens

\* Balance is what its recursion says.
LEMMA BalanceOf ==
  ASSUME NEW s \in Seq(Tokens)
  PROVE  /\ Balance(s) \in [0 .. Len(s) -> Int]
         /\ Balance(s)[0] = 0
         /\ \A k \in 1 .. Len(s) : Balance(s)[k] = Balance(s)[k-1] + s[k].argc - 1
  <1> DEFINE L == Len(s)
             Is(f) == f = [k \in 0 .. L |-> IF k = 0 THEN 0 ELSE f[k-1] + s[k].argc - 1]
             Upto(n) == {f \in [0 .. n -> Int] :
                           f[0] = 0 /\ \A k \in 1 .. n : f[k] = f[k-1] + s[k].argc - 1}
  <1>1. L \in Nat /\ \A k \in 1 .. L : s[k].argc \in Int
    BY TokenFields
  <1>2. Upto(L) # {}
    <2> DEFINE Good == {n \in 0 .. L : Upto(n) # {}}
    <2>1. 0 \in Good
      <3>1. [k \in 0 .. 0 |-> 0] \in Upto(0)
        OBVIOUS
      <3> HIDE DEF Upto
      <3> QED BY <1>1, <3>1
    <2>2. ASSUME NEW n \in 0 .. L - 1, n \in Good PROVE n + 1 \in Good
      <3>1. PICK f \in Upto(n) : TRUE
        BY <2>2
      <3>2. /\ f \in [0 .. n -> Int] /\ f[0] = 0 /\ n \in Nat
            /\ \A k \in 1 .. n : f[k] = f[k-1] + s[k].argc - 1
        BY <1>1, <3>1
      <3> DEFINE g == [k \in 0 .. n + 1 |-> IF k = n + 1 THEN f[n] + s[n+1].argc - 1 ELSE f[k]]
      <3>3. g \in [0 .. n + 1 -> Int] /\ g[0] = 0
        BY <1>1, <3>2
      <3>4. \A k \in 1 .. n + 1 : g[k] = g[k-1] + s[k].argc - 1
        BY <3>2
      <3>5. g \in Upto(n + 1)
        BY <3>3, <3>4
      <3> HIDE DEF Upto
      <3> QED
        BY <1>1, <3>5
    <2> HIDE DEF Good
    <2>3. 0 .. L \subseteq Good
      BY <1>1, <2>1, <2>2, UpTo
    <2>4. L \in Good
      BY <1>1, <2>3
    <2> HIDE DEF Upto
    <2> QED
      BY <2>4 DEF Good
  <1>3. PICK f \in Upto(L) : TRUE
    BY <1>2
  <1>4. Is(f)
    BY <1>1, <1>3
  <1>5. Balance(s) = CHOOSE g : Is(g)
    BY DEF Balance
  <1>6. Is(Balance(s))
    BY <1>4, <1>5
  <1> DEFINE b == Balance(s)
  <1> HIDE DEF b
  <1>7. /\ b = [k \in 0 .. L |-> IF k = 0 THEN 0 ELSE b[k-1] + s[k].argc - 1]
        /\ b[0] = 0 /\ \A k \in 1 .. L : b[k] = b[k-1] + s[k].argc - 1
    <2>1. b = [k \in 0 .. L |-> IF k = 0 THEN 0 ELSE b[k-1] + s[k].argc - 1]
      BY <1>6 DEF b
    <2>2. \A k \in 0 .. L : b[k] = IF k = 0 THEN 0 ELSE b[k-1] + s[k].argc - 1
      BY <2>1
    <2>3. 0 \in 0 .. L /\ \A k \in 1 .. L : k \in 0 .. L /\ k # 0
      BY <1>1
    <2> HIDE DEF L
    <2> QED
      BY <2>1, <2>2, <2>3
  <1>8. 0 .. L \subseteq {k \in 0 .. L : b[k] \in Int}
    <2> DEFINE Good == {k \in 0 .. L : b[k] \in Int}
    <2>1. 0 \in Good
      BY <1>1, <1>7
    <2>2. ASSUME NEW n \in 0 .. L - 1, n \in Good PROVE n + 1 \in Good
      <3>1. n + 1 \in 1 .. L /\ b[n + 1] = b[n] + s[n + 1].argc - 1
        BY <1>1, <1>7
      <3> QED
        BY <1>1, <2>2, <3>1
    <2> HIDE DEF Good
    <2>3. 0 .. L \subseteq Good
      BY <1>1, <2>1, <2>2, UpTo
    <2> QED
      BY <2>3 DEF Good
  <1> QED
    BY <1>7, <1>8 DEF b

\* What is put later changes no earlier balance; it goes on from the last one.
LEMMA BalanceConcat ==
  ASSUME NEW s \in Seq(Tokens), NEW t \in Seq(Tokens)
  PROVE  /\ \A k \in 0 .. Len(s) : Balance(s \o t)[k] = Balance(s)[k]
         /\ \A k \in 0 .. Len(t) : Balance(s \o t)[Len(s) + k] = Balance(s)[Len(s)] + Balance(t)[k]
  <1> DEFINE b == Balance(s \o t)  bs == Balance(s)  bt == Balance(t)  L == Len(s)  M == Len(t)
  <1>1. /\ s \o t \in Seq(Tokens) /\ Len(s \o t) = L + M /\ L \in Nat /\ M \in Nat
        /\ \A k \in 1 .. L : (s \o t)[k] = s[k]
        /\ \A k \in 1 .. M : (s \o t)[L + k] = t[k]
    BY ConcatProperties
  <1>2. /\ \A k \in 1 .. L : s[k].argc \in Int
        /\ \A k \in 1 .. M : t[k].argc \in Int
    BY TokenFields
  <1>3. /\ b \in [0 .. L + M -> Int] /\ b[0] = 0
        /\ \A k \in 1 .. L + M : b[k] = b[k-1] + (s \o t)[k].argc - 1
    BY <1>1, BalanceOf
  <1>4. /\ bs \in [0 .. L -> Int] /\ bs[0] = 0
        /\ \A k \in 1 .. L : bs[k] = bs[k-1] + s[k].argc - 1
        /\ bt \in [0 .. M -> Int] /\ bt[0] = 0
        /\ \A k \in 1 .. M : bt[k] = bt[k-1] + t[k].argc - 1
    BY BalanceOf
  <1> HIDE DEF b, bs, bt, L, M
  <1>5. \A k \in 0 .. L : b[k] = bs[k]
    <2> DEFINE Good == {k \in 0 .. L : b[k] = bs[k]}
    <2>1. 0 \in Good
      BY <1>1, <1>3, <1>4
    <2>2. ASSUME NEW n \in 0 .. L - 1, n \in Good PROVE n + 1 \in Good
      <3>1. n + 1 \in 1 .. L /\ n + 1 \in 1 .. L + M /\ (s \o t)[n + 1] = s[n + 1] /\ (n + 1) - 1 = n
        BY <1>1
      <3>2. b[n + 1] = b[n] + s[n + 1].argc - 1 /\ bs[n + 1] = bs[n] + s[n + 1].argc - 1
        BY <1>3, <1>4, <3>1
      <3> QED
        BY <2>2, <3>1, <3>2
    <2> HIDE DEF Good
    <2>3. 0 .. L \subseteq Good
      BY <1>1, <2>1, <2>2, UpTo
    <2> QED
      BY <2>3 DEF Good
  <1>6. \A k \in 0 .. M : b[L + k] = bs[L] + bt[k]
    <2> DEFINE Good == {k \in 0 .. M : b[L + k] = bs[L] + bt[k]}
    <2>1. 0 \in Good
      BY <1>1, <1>4, <1>5
    <2>2. ASSUME NEW n \in 0 .. M - 1, n \in Good PROVE n + 1 \in Good
      <3>1. n + 1 \in 1 .. M /\ L + (n + 1) \in 1 .. L + M /\ (s \o t)[L + (n + 1)] = t[n + 1]
            /\ (L + (n + 1)) - 1 = L + n /\ n \in 0 .. M /\ L \in 0 .. L
            /\ (n + 1) - 1 = n
        BY <1>1
      <3>2. b[L + (n + 1)] = b[L + n] + t[n + 1].argc - 1 /\ bt[n + 1] = bt[n] + t[n + 1].argc - 1
        BY <1>3, <1>4, <3>1
      <3>3. b[L + n] = bs[L] + bt[n] /\ bs[L] \in Int /\ bt[n] \in Int /\ t[n + 1].argc \in Int
        BY <1>2, <1>4, <2>2, <3>1
      <3> DEFINE a == t[n + 1].argc  x == bs[L]  y == bt[n]
      <3>4. b[L + (n + 1)] = (x + y) + a - 1 /\ bt[n + 1] = y + a - 1
        BY <3>2, <3>3
      <3>5. x \in Int /\ y \in Int /\ a \in Int
        BY <3>3
      <3> HIDE DEF a, x, y
      <3>6. b[L + (n + 1)] = x + bt[n + 1]
        BY <3>4, <3>5
      <3> QED
        BY <3>1, <3>6 DEF x
    <2> HIDE DEF Good
    <2>3. 0 .. M \subseteq Good
      BY <1>1, <2>1, <2>2, UpTo
    <2> QED
      BY <2>3 DEF Good
  <1> QED
    BY <1>5, <1>6 DEF b, bs, bt, L, M

\* No argument is owed before the last complete one ends, and as many have
\* ended as the balance has fallen.
Deep(s) ==
    /\ Balance(s)[Whole(s)] = -Count(s)
    /\ \A j \in 0 .. Len(s) : Balance(s)[j] >= -Count(s)

\* Tokens of which none but the last can end an expression; a are owed after it.
Segment(e, a) ==
    /\ e \in Seq(Tokens) /\ Len(e) >= 1 /\ a \in Nat
    /\ \A j \in 0 .. Len(e) - 1 : Balance(e)[j] >= 0
    /\ Balance(e)[Len(e)] = a - 1

\* A segment put on a link ends what is open there, or nothing.
Closes(s, a) == Balance(s)[Len(s)] + a - 1 < -Count(s)

LEMMA GreatestIs ==
  ASSUME NEW n \in Nat, NEW S \in SUBSET (0 .. n), n \in S
  PROVE  Max(S) = n
  <1>1. n >= n /\ \A x \in S : n >= x /\ x \in Int
    OBVIOUS
  <1>2. \A x \in S : (\A y \in S : x >= y) => x = n
    BY <1>1
  <1>3. \E x \in S : \A y \in S : x >= y
    BY <1>1
  <1> QED
    BY <1>2, <1>3 DEF Max

LEMMA EndsAre ==
  ASSUME NEW s
  PROVE  Ends(s) = {k \in 1 .. Len(s) : \A j \in 0 .. k-1 : Balance(s)[k] < Balance(s)[j]}
  BY DEF Ends

LEMMA Arrival ==
  ASSUME NEW s \in Seq(Tokens), Deep(s), NEW e, NEW a, Segment(e, a)
  PROVE  /\ s \o e \in Seq(Tokens) /\ Len(s \o e) = Len(s) + Len(e)
         /\ Closes(s, a) => /\ Count(s \o e) = Count(s) + 1
                            /\ Whole(s \o e) = Len(s) + Len(e)
         /\ ~ Closes(s, a) => /\ Count(s \o e) = Count(s)
                              /\ Whole(s \o e) = Whole(s)
         /\ Balance(s \o e)[Len(s) + Len(e)] = Balance(s)[Len(s)] + a - 1
         /\ Deep(s \o e)
  <1> DEFINE t == s \o e  b == Balance(t)  L == Len(s)  M == Len(e)  n == Count(s)
  <1>1. /\ e \in Seq(Tokens) /\ L \in Nat /\ M \in Nat /\ M >= 1 /\ a \in Nat
        /\ t \in Seq(Tokens) /\ Len(t) = L + M
    BY ConcatProperties DEF Segment
  <1>2. /\ n \in Nat /\ Whole(s) \in 0 .. L /\ Ends(s) \subseteq 1 .. L /\ IsFiniteSet(Ends(s))
    <2>1. IsFiniteSet(1 .. L)
      BY <1>1, FS_Interval
    <2> QED
      BY <2>1, EndsInside, FS_Subset
  <1>3. /\ b \in [0 .. L + M -> Int]
        /\ \A k \in 0 .. L : b[k] = Balance(s)[k] /\ b[k] >= -n
        /\ b[Whole(s)] = -n
        /\ \A j \in 0 .. M - 1 : b[L + j] >= b[L]
        /\ b[L + M] = b[L] + a - 1
        /\ b[L + M] = Balance(s)[L] + a - 1
    <2>1. /\ b \in [0 .. L + M -> Int] /\ Balance(s) \in [0 .. L -> Int] /\ Balance(e) \in [0 .. M -> Int]
      BY <1>1, BalanceOf
    <2>2. /\ \A k \in 0 .. L : b[k] = Balance(s)[k]
          /\ \A j \in 0 .. M : b[L + j] = Balance(s)[L] + Balance(e)[j]
      BY <1>1, BalanceConcat
    <2>3. b[L] = Balance(s)[L] /\ L \in 0 .. L /\ M \in 0 .. M
      BY <1>1, <2>2
    <2>4. \A k \in 0 .. L : b[k] >= -n
      BY <2>2 DEF Deep
    <2>5. b[Whole(s)] = -n
      BY <1>2, <2>2 DEF Deep
    <2>6. ASSUME NEW j \in 0 .. M - 1 PROVE b[L + j] >= b[L]
      <3>1. Balance(e)[j] >= 0
        BY DEF Segment
      <3>2. j \in 0 .. M /\ L \in 0 .. L + M
        BY <1>1
      <3>3. Balance(e)[j] \in Int /\ b[L] \in Int /\ b[L + j] = b[L] + Balance(e)[j]
        BY <2>1, <2>2, <2>3, <3>2
      <3> QED
        BY <3>1, <3>3
    <2>7. b[L + M] = b[L] + (a - 1)
      BY <2>2, <2>3 DEF Segment
    <2>8. b[L] \in Int
      BY <1>1, <2>1
    <2> QED
      BY <1>1, <2>1, <2>2, <2>4, <2>5, <2>6, <2>7, <2>8
  <1>4. Closes(s, a) <=> b[L + M] < -n
    BY <1>1, <1>3 DEF Closes
  <1>5. Ends(t) = {k \in 1 .. L + M : \A j \in 0 .. k-1 : b[k] < b[j]}
    BY <1>1, EndsAre
  <1>6. Ends(s) = {k \in 1 .. L : \A j \in 0 .. k-1 : Balance(s)[k] < Balance(s)[j]}
    BY EndsAre
  <1> HIDE DEF b, L, M, n, t
  <1>7. ASSUME NEW k \in 1 .. L PROVE k \in Ends(t) <=> k \in Ends(s)
    <2>1. k \in 1 .. L + M /\ k \in 0 .. L /\ \A j \in 0 .. k-1 : j \in 0 .. L
      BY <1>1
    <2> QED
      BY <1>3, <1>5, <1>6, <2>1
  <1>8. ASSUME NEW k \in L + 1 .. (L + M) - 1 PROVE k \notin Ends(t)
    <2>1. k - L \in 0 .. M - 1 /\ L + (k - L) = k /\ L \in 0 .. k-1 /\ k \in 0 .. L + M /\ L \in 0 .. L + M
      BY <1>1
    <2>2. b[k] >= b[L] /\ b[k] \in Int /\ b[L] \in Int
      BY <1>3, <2>1
    <2>3. ~ (b[k] < b[L])
      BY <2>2
    <2> QED
      BY <1>5, <2>1, <2>3
  <1>9. L + M \in Ends(t) <=> Closes(s, a)
    <2>1. L + M \in 1 .. L + M /\ L + M \in 0 .. L + M /\ Whole(s) \in 0 .. (L + M) - 1
      BY <1>1, <1>2
    <2>2. ASSUME L + M \in Ends(t) PROVE Closes(s, a)
      BY <1>3, <1>4, <1>5, <2>1, <2>2
    <2>3. ASSUME Closes(s, a), NEW j \in 0 .. (L + M) - 1 PROVE b[L + M] < b[j]
      <3>1. CASE j \in 0 .. L
        <4>1. b[j] >= -n /\ b[L + M] < -n /\ j \in 0 .. L + M
          BY <1>1, <1>3, <1>4, <2>3, <3>1
        <4>2. b[j] \in Int /\ b[L + M] \in Int
          BY <1>3, <2>1, <4>1
        <4> QED
          BY <1>2, <4>1, <4>2
      <3>2. CASE j \notin 0 .. L
        <4>1. j - L \in 0 .. M - 1 /\ L + (j - L) = j /\ j \in 0 .. L + M /\ L \in 0 .. L
          BY <1>1, <3>2
        <4>2. b[j] >= b[L] /\ b[L] >= -n
          BY <1>3, <4>1
        <4>3. b[j] \in Int /\ b[L] \in Int /\ b[L + M] \in Int /\ L \in 0 .. L + M
          BY <1>1, <1>3, <4>1, <2>1
        <4> QED
          BY <1>2, <1>4, <2>3, <4>2, <4>3
      <3> QED
        BY <3>1, <3>2
    <2>4. Closes(s, a) => L + M \in Ends(t)
      BY <1>5, <2>1, <2>3
    <2> QED
      BY <2>2, <2>4
  <1>10. Ends(t) = IF Closes(s, a) THEN Ends(s) \cup {L + M} ELSE Ends(s)
    <2>1. \A k \in Ends(t) : k \in 1 .. L \/ k \in L + 1 .. (L + M) - 1 \/ k = L + M
      <3>1. ASSUME NEW k \in 1 .. L + M
            PROVE  k \in 1 .. L \/ k \in L + 1 .. (L + M) - 1 \/ k = L + M
        BY <1>1
      <3>2. \A k \in Ends(t) : k \in 1 .. L + M
        BY <1>5
      <3> QED
        BY <3>1, <3>2, Zenon
    <2>2. L + M \notin 1 .. L /\ \A k \in Ends(s) : k \in 1 .. L
      BY <1>1, <1>2
    <2>3. ASSUME NEW k PROVE k \in Ends(t) <=> k \in Ends(s) \/ (k = L + M /\ Closes(s, a))
      BY <1>7, <1>8, <1>9, <2>1, <2>2
    <2> QED
      BY <2>3, Zenon
  <1>11. CASE Closes(s, a)
    <2>1. Count(t) = n + 1
      <3>1. L + M \notin Ends(s)
        BY <1>1, <1>2
      <3> QED
        BY <1>2, <1>10, <1>11, <3>1, FS_AddElement DEF Count, n
    <2>2. Whole(t) = L + M
      <3>1. L + M \in Nat /\ Ends(t) \cup {0} \in SUBSET (0 .. L + M) /\ L + M \in Ends(t) \cup {0}
        BY <1>1, <1>5, <1>9, <1>11
      <3> QED
        BY <3>1, GreatestIs DEF Whole
    <2>3. b[L + M] = -(n + 1)
      <3>1. b[L] >= -n /\ b[L] \in Int /\ b[L + M] = b[L] + a - 1 /\ b[L + M] < -n
        BY <1>1, <1>3, <1>4, <1>11
      <3> QED
        BY <1>1, <1>2, <3>1
    <2>4. ASSUME NEW j \in 0 .. L + M PROVE b[j] >= -(n + 1)
      <3>1. CASE j \in 0 .. L
        <4>1. b[j] >= -n /\ b[j] \in Int
          BY <1>3, <3>1
        <4> QED
          BY <1>2, <4>1
      <3>2. CASE j \in L + 1 .. (L + M) - 1
        <4>1. j - L \in 0 .. M - 1 /\ L + (j - L) = j /\ L \in 0 .. L /\ L \in 0 .. L + M
          BY <1>1, <3>2
        <4>2. b[j] >= b[L] /\ b[L] >= -n /\ b[j] \in Int /\ b[L] \in Int
          BY <1>3, <4>1
        <4> QED
          BY <1>2, <4>2
      <3>3. CASE j = L + M
        BY <1>2, <2>3, <3>3
      <3> QED
        BY <1>1, <3>1, <3>2, <3>3
    <2>5. Deep(t)
      BY <1>1, <2>1, <2>2, <2>3, <2>4 DEF Deep, b
    <2> QED
      BY <1>1, <1>3, <1>11, <2>1, <2>2, <2>5 DEF t, b, L, M, n
  <1>12. CASE ~ Closes(s, a)
    <2>1. Count(t) = n /\ Whole(t) = Whole(s)
      BY <1>10, <1>12 DEF Count, Whole, n
    <2>2. ASSUME NEW j \in 0 .. L + M PROVE b[j] >= -n
      <3>1. CASE j \in 0 .. L
        BY <1>3, <3>1
      <3>2. CASE j \in L + 1 .. (L + M) - 1
        <4>1. j - L \in 0 .. M - 1 /\ L + (j - L) = j /\ L \in 0 .. L /\ L \in 0 .. L + M
          BY <1>1, <3>2
        <4>2. b[j] >= b[L] /\ b[L] >= -n /\ b[j] \in Int /\ b[L] \in Int
          BY <1>3, <4>1
        <4> QED
          BY <1>2, <4>2
      <3>3. CASE j = L + M
        <4>1. b[L + M] \in Int
          BY <1>1, <1>3
        <4> QED
          BY <1>2, <1>4, <1>12, <3>3, <4>1
      <3> QED
        BY <1>1, <3>1, <3>2, <3>3
    <2>3. Deep(t)
      BY <1>1, <1>3, <2>1, <2>2 DEF Deep, b
    <2> QED
      BY <1>1, <1>3, <1>12, <2>1, <2>3 DEF t, b, L, M, n
  <1> QED
    BY <1>11, <1>12

-----------------------------------------------------------------------------
(* What an expression is made of, seen from its link.                      *)

\* The open expression of head h on a link with content s.
FrameOf(h, s) ==
    [head |-> h, dropped |-> FALSE,
     done |-> SubSeq(s, 1, Whole(s)), n |-> Count(s),
     tail |-> SubSeq(s, Whole(s) + 1, Len(s)),
     owed |-> IF Whole(s) = Len(s) THEN 0 ELSE Balance(s)[Len(s)] + Count(s) + 1]

LEMMA FrameOnIs ==
  ASSUME NEW d
  PROVE  FrameOn(d) = FrameOf(d.head, content[d.link])
  BY DEF FrameOn, FrameOf, Whole, Count

\* What is owed when something is: at least one expression.
LEMMA OwedPositive ==
  ASSUME NEW s \in Seq(Tokens), Deep(s)
  PROVE  /\ Balance(s)[Len(s)] \in Int /\ Count(s) \in Nat /\ Len(s) \in Nat
         /\ Whole(s) \in 0 .. Len(s)
         /\ Balance(s)[Len(s)] >= -Count(s)
         /\ Whole(s) = Len(s) => Balance(s)[Len(s)] = -Count(s)
  <1>1. Len(s) \in Nat /\ Len(s) \in 0 .. Len(s)
    OBVIOUS
  <1> QED
    BY <1>1, BalanceOf, EndsInside DEF Deep

\* A piece of a sequence cut in two.
LEMMA CutSeq ==
  ASSUME NEW S, NEW s \in Seq(S), NEW k \in 0 .. Len(s)
  PROVE  /\ SubSeq(s, 1, k) \in Seq(S) /\ Len(SubSeq(s, 1, k)) = k
         /\ SubSeq(s, k + 1, Len(s)) \in Seq(S)
         /\ Len(SubSeq(s, k + 1, Len(s))) = Len(s) - k
         /\ SubSeq(s, 1, k) \o SubSeq(s, k + 1, Len(s)) = s
  <1> DEFINE p == SubSeq(s, 1, k)  q == SubSeq(s, k + 1, Len(s))
  <1>0. Len(s) \in Nat /\ k \in Nat /\ k <= Len(s)
    OBVIOUS
  <1>1. p \in Seq(S) /\ Len(p) = k /\ \A i \in 1 .. k : p[i] = s[i]
    BY FirstPart
  <1>2. /\ q \in Seq(S) /\ Len(q) = Len(s) - k
        /\ \A i \in 1 .. Len(s) - k : q[i] = s[k + i]
    <2>1. /\ k + 1 \in 1 .. Len(s) + 1 /\ Len(s) \in k .. Len(s)
      BY <1>0
    <2>2. \A i \in 1 .. Len(s) - k : k + i \in 1 .. Len(s)
      BY <1>0
    <2> QED
      BY <1>0, <2>1, <2>2, SubSeqProperties
  <1> HIDE DEF p, q
  <1>3. /\ p \o q \in Seq(S) /\ Len(p \o q) = Len(s)
        /\ \A i \in 1 .. k : (p \o q)[i] = p[i]
        /\ \A i \in 1 .. Len(s) - k : (p \o q)[k + i] = q[i]
    BY <1>0, <1>1, <1>2, ConcatProperties
  <1>4. \A i \in 1 .. Len(s) : (p \o q)[i] = s[i]
    <2> SUFFICES ASSUME NEW i \in 1 .. Len(s) PROVE (p \o q)[i] = s[i]
      OBVIOUS
    <2>1. CASE i <= k
      BY <1>1, <1>3, <2>1
    <2>2. CASE ~ (i <= k)
      <3>1. i - k \in 1 .. Len(s) - k /\ k + (i - k) = i
        BY <1>0, <2>2
      <3> QED
        BY <1>2, <1>3, <3>1
    <2> QED
      BY <2>1, <2>2
  <1>5. p \o q = s
    BY <1>3, <1>4, SeqEqual
  <1> QED
    BY <1>1, <1>2, <1>5 DEF p, q

\* What is appended to a sequence leaves its first part as it was.
LEMMA CutConcat ==
  ASSUME NEW S, NEW s \in Seq(S), NEW e \in Seq(S), NEW k \in 0 .. Len(s)
  PROVE  /\ SubSeq(s \o e, 1, k) = SubSeq(s, 1, k)
         /\ SubSeq(s \o e, k + 1, Len(s \o e)) = SubSeq(s, k + 1, Len(s)) \o e
  <1> DEFINE t == s \o e
             p == SubSeq(s, 1, k)  q == SubSeq(s, k + 1, Len(s))
             r == SubSeq(t, k + 1, Len(t))
  <1>1. /\ t \in Seq(S) /\ Len(t) = Len(s) + Len(e) /\ Len(s) \in Nat /\ Len(e) \in Nat
        /\ \A i \in 1 .. Len(s) : t[i] = s[i]
    BY ConcatProperties
  <1>2. k \in 0 .. Len(t) /\ \A i \in 1 .. k : i \in 1 .. Len(s)
    BY <1>1
  <1>3. p \in Seq(S) /\ q \in Seq(S) /\ p \o q = s
    BY CutSeq
  <1>4. /\ SubSeq(t, 1, k) \in Seq(S) /\ Len(SubSeq(t, 1, k)) = k
        /\ r \in Seq(S) /\ SubSeq(t, 1, k) \o r = t
    BY <1>1, <1>2, CutSeq
  <1>5. SubSeq(t, 1, k) = p
    <2>1. \A i \in 1 .. k : SubSeq(t, 1, k)[i] = t[i] /\ p[i] = s[i]
      BY <1>1, <1>2, FirstPart
    <2>2. \A i \in 1 .. k : SubSeq(t, 1, k)[i] = p[i]
      BY <1>1, <1>2, <2>1
    <2>3. Len(p) = k
      BY CutSeq
    <2> QED
      BY <1>3, <1>4, <2>2, <2>3, SeqEqual
  <1>6. p \o (q \o e) = t
    <2>0. p \in Seq(S) /\ q \in Seq(S)
      BY <1>3
    <2> HIDE DEF p, q
    <2>1. (p \o q) \o e = p \o (q \o e)
      BY <2>0, ConcatAssociative
    <2> QED
      BY <1>3, <2>1 DEF t
  <1>7. q \o e \in Seq(S)
    BY <1>3, ConcatProperties
  <1>8. p \o r = t
    BY <1>4, <1>5
  <1> HIDE DEF p, q, r, t
  <1>9. r = q \o e
    <2>1. p \o r = p \o (q \o e)
      BY <1>6, <1>8
    <2>2. \A x, y, v \in Seq(S) : x \o y = x \o v => y = v
      BY ConcatSimplifications
    <2> QED
      BY <1>3, <1>4, <1>7, <2>1, <2>2, Zenon
  <1> QED
    BY <1>5, <1>9 DEF p, q, r, t

\* An arrival, by the parts of the frame.
LEMMA ArriveParts ==
  ASSUME NEW h, NEW dropped, NEW done, NEW n, NEW tail, NEW owed, NEW e, NEW a,
         NEW now, now = (IF owed = 0 THEN 0 ELSE owed - 1) + a
  PROVE  /\ now = 0 =>
              Expressions!Arrive(Expressions!Expression(h, dropped, done, n, tail, owed), e, a) =
              Expressions!Expression(h, dropped, done \o tail \o e, n + 1, <<>>, 0)
         /\ now # 0 =>
              Expressions!Arrive(Expressions!Expression(h, dropped, done, n, tail, owed), e, a) =
              Expressions!Expression(h, dropped, done, n, tail \o e, now)
  <1> DEFINE f == Expressions!Expression(h, dropped, done, n, tail, owed)
  <1>1. /\ f.head = h /\ f.dropped = dropped
        /\ f.done = done /\ f.tail = tail /\ f.n = n /\ f.owed = owed
    BY DEF Expressions!Expression
  <1> HIDE DEF f
  <1>2. Expressions!Arrive(f, e, a) =
          IF (IF f.owed = 0 THEN 0 ELSE f.owed - 1) + a = 0
          THEN Expressions!Expression(f.head, f.dropped, f.done \o f.tail \o e, f.n + 1, <<>>, 0)
          ELSE Expressions!Expression(f.head, f.dropped, f.done, f.n, f.tail \o e,
                                      (IF f.owed = 0 THEN 0 ELSE f.owed - 1) + a)
    BY DEF Expressions!Arrive
  <1> QED
    BY <1>1, <1>2, Zenon DEF f

\* A frame that its caller sees gains a segment as the link gains its tokens.
LEMMA FrameArrives ==
  ASSUME NEW h, NEW s \in Seq(Tokens), Deep(s), NEW e, NEW a, Segment(e, a)
  PROVE  FrameOf(h, s \o e) = Expressions!Arrive(FrameOf(h, s), e, a)
  <1> DEFINE t == s \o e
             B == Balance(s)[Len(s)]  W == Whole(s)  n == Count(s)
             done == SubSeq(s, 1, W)  tail == SubSeq(s, W + 1, Len(s))
             owed == IF W = Len(s) THEN 0 ELSE B + n + 1
             now  == (IF owed = 0 THEN 0 ELSE owed - 1) + a
  <1>0. PICK no : no = FALSE
    OBVIOUS
  <1>1. /\ e \in Seq(Tokens) /\ Len(e) \in Nat /\ Len(e) >= 1 /\ a \in Nat
        /\ Len(s) \in Nat /\ t \in Seq(Tokens) /\ Len(t) = Len(s) + Len(e)
    BY ConcatProperties DEF Segment
  <1>2. /\ B \in Int /\ n \in Nat /\ W \in 0 .. Len(s) /\ B >= -n
        /\ W = Len(s) => B = -n
    BY OwedPositive
  <1>3. /\ Closes(s, a) => Count(t) = n + 1 /\ Whole(t) = Len(t)
        /\ ~ Closes(s, a) => Count(t) = n /\ Whole(t) = W
        /\ Balance(t)[Len(t)] = B + a - 1
    BY <1>1, Arrival
  <1>4. Closes(s, a) <=> B + a - 1 < -n
    BY DEF Closes
  <1>5. /\ SubSeq(t, 1, W) = done
        /\ SubSeq(t, W + 1, Len(t)) = tail \o e
    BY <1>1, <1>2, CutConcat
  <1>6. done \o tail = s
    BY <1>2, CutSeq
  <1>7. SubSeq(t, 1, Len(t)) = t /\ SubSeq(t, Len(t) + 1, Len(t)) = <<>>
    BY <1>1, SubSeqFull, SubSeqEmpty
  <1>8. FrameOf(h, s) = Expressions!Expression(h, no, done, n, tail, owed)
    BY <1>0 DEF FrameOf, Expressions!Expression
  <1>9. FrameOf(h, t) = Expressions!Expression(h, no, SubSeq(t, 1, Whole(t)), Count(t),
                              SubSeq(t, Whole(t) + 1, Len(t)),
                              IF Whole(t) = Len(t) THEN 0 ELSE Balance(t)[Len(t)] + Count(t) + 1)
    BY <1>0 DEF FrameOf, Expressions!Expression
  <1> HIDE DEF W, B, n, t, done, tail
  <1>10. now = 0 <=> Closes(s, a)
    BY <1>1, <1>2, <1>4
  <1>11. Expressions!Arrive(FrameOf(h, s), e, a) =
           IF now = 0 THEN Expressions!Expression(h, no, done \o tail \o e, n + 1, <<>>, 0)
                      ELSE Expressions!Expression(h, no, done, n, tail \o e, now)
    <2>1. now = (IF owed = 0 THEN 0 ELSE owed - 1) + a
      OBVIOUS
    <2> HIDE DEF now, owed
    <2>2. now = 0 => Expressions!Arrive(Expressions!Expression(h, no, done, n, tail, owed), e, a)
                       = Expressions!Expression(h, no, done \o tail \o e, n + 1, <<>>, 0)
      BY <2>1, ArriveParts, SMT
    <2>3. now # 0 => Expressions!Arrive(Expressions!Expression(h, no, done, n, tail, owed), e, a)
                       = Expressions!Expression(h, no, done, n, tail \o e, now)
      BY <2>1, ArriveParts, SMT
    <2> QED
      BY <1>8, <2>2, <2>3, Zenon DEF owed
  <1> HIDE DEF now
  <1>12. CASE Closes(s, a)
    <2>1. Expressions!Arrive(FrameOf(h, s), e, a) = Expressions!Expression(h, no, t, n + 1, <<>>, 0)
      BY <1>6, <1>10, <1>11, <1>12 DEF t
    <2>2. FrameOf(h, t) = Expressions!Expression(h, no, t, n + 1, <<>>, 0)
      BY <1>3, <1>7, <1>9, <1>12
    <2> QED
      BY <2>1, <2>2 DEF t
  <1>13. CASE ~ Closes(s, a)
    <2>1. Whole(t) # Len(t)
      BY <1>1, <1>2, <1>3, <1>13
    <2>2. B + a - 1 + n + 1 = now
      BY <1>1, <1>2 DEF now
    <2>3. FrameOf(h, t) = Expressions!Expression(h, no, done, n, tail \o e, now)
      BY <1>3, <1>5, <1>9, <1>13, <2>1, <2>2
    <2> QED
      BY <1>10, <1>11, <1>13, <2>3 DEF t
  <1> QED
    BY <1>12, <1>13

\* A token is a segment of its own.
LEMMA TokenSegment ==
  ASSUME NEW tok \in Tokens
  PROVE  Segment(<<tok>>, tok.argc)
  <1>1. <<tok>> \in Seq(Tokens) /\ Len(<<tok>>) = 1 /\ tok.argc \in Nat
    BY DEF Tokens
  <1>2. Balance(<<tok>>)[0] = 0 /\ Balance(<<tok>>)[1] = tok.argc - 1
    <2>1. /\ Balance(<<tok>>)[0] = 0
          /\ \A k \in 1 .. 1 : Balance(<<tok>>)[k] = Balance(<<tok>>)[k-1] + <<tok>>[k].argc - 1
      BY <1>1, BalanceOf
    <2>2. 1 \in 1 .. 1 /\ 1 - 1 = 0 /\ <<tok>>[1] = tok
      OBVIOUS
    <2> QED
      BY <1>1, <2>1, <2>2
  <1>3. 1 - 1 = 0 /\ \A j \in 0 .. 1 - 1 : j = 0
    OBVIOUS
  <1> QED
    BY <1>1, <1>2, <1>3 DEF Segment

\* An empty link.
LEMMA EmptyLink ==
  /\ Deep(<<>>) /\ Whole(<<>>) = 0 /\ Count(<<>>) = 0
  <1>1. <<>> \in Seq(Tokens) /\ Len(<<>>) = 0
    OBVIOUS
  <1>2. Ends(<<>>) = {}
    BY <1>1, EndsAre
  <1>3. Count(<<>>) = 0
    BY <1>2, FS_EmptySet DEF Count
  <1>4. Whole(<<>>) = 0
    <2>1. Whole(<<>>) = Max({0})
      BY <1>2 DEF Whole
    <2>2. {0} \in SUBSET (0 .. 0) /\ 0 \in Nat /\ 0 \in {0}
      OBVIOUS
    <2> QED
      BY <2>1, <2>2, GreatestIs
  <1>5. Balance(<<>>)[0] = 0
    BY <1>1, BalanceOf
  <1>6. \A j \in 0 .. 0 : j = 0
    OBVIOUS
  <1> QED
    BY <1>1, <1>3, <1>4, <1>5, <1>6 DEF Deep

\* Whatever is put on a link, its arguments end one by one.
LEMMA DeepAll == ASSUME NEW s \in Seq(Tokens) PROVE Deep(s)
  <1> DEFINE Good == {k \in 0 .. Len(s) : Deep(SubSeq(s, 1, k))}
  <1>1. Len(s) \in Nat
    OBVIOUS
  <1>2. 0 \in Good
    <2>1. SubSeq(s, 1, 0) = <<>>
      BY SubSeqEmpty
    <2>2. Deep(SubSeq(s, 1, 0))
      BY <2>1, EmptyLink, Zenon
    <2> QED
      BY <1>1, <2>2
  <1>3. ASSUME NEW k \in 0 .. Len(s) - 1, k \in Good PROVE k + 1 \in Good
    <2>1. /\ k + 1 \in 1 .. Len(s) /\ k + 1 \in 0 .. Len(s) /\ (k + 1) - 1 = k /\ 1 \in 1 .. Len(s)
      BY <1>1
    <2>2. SubSeq(s, 1, k + 1) = SubSeq(s, 1, k) \o <<s[k + 1]>>
      BY <2>1, SubSeqRecursiveSecond
    <2>3. s[k + 1] \in Tokens /\ SubSeq(s, 1, k) \in Seq(Tokens) /\ Deep(SubSeq(s, 1, k))
      BY <1>1, <1>3, <2>1, TokenFields, FirstPart
    <2>4. Deep(SubSeq(s, 1, k) \o <<s[k + 1]>>)
      BY <2>3, TokenSegment, Arrival
    <2> QED
      BY <2>1, <2>2, <2>4
  <1> HIDE DEF Good
  <1>4. 0 .. Len(s) \subseteq Good
    BY <1>1, <1>2, <1>3, UpTo
  <1>5. Len(s) \in Good
    BY <1>1, <1>4
  <1> QED
    BY <1>5, SubSeqFull DEF Good

\* The abstract fold over tokens is the concatenation on the link.
LEMMA FrameTakesAll ==
  ASSUME NEW h, NEW s \in Seq(Tokens), NEW t \in Seq(Tokens)
  PROVE  FrameOf(h, s \o t) = Expressions!TakeAll(FrameOf(h, s), t)
  <1> DEFINE L == Len(t)  f == FrameOf(h, s)
             Is(g) == g = [k \in 0 .. L |-> IF k = 0 THEN f ELSE Expressions!Take(g[k-1], t[k])]
             to(k) == FrameOf(h, s \o SubSeq(t, 1, k))
             all   == [k \in 0 .. L |-> to(k)]
             taken == CHOOSE g : Is(g)
  <1>1. L \in Nat
    OBVIOUS
  <1>2. to(0) = f /\ to(L) = FrameOf(h, s \o t)
    <2>1. SubSeq(t, 1, 0) = <<>> /\ s \o <<>> = s /\ SubSeq(t, 1, L) = t
      BY SubSeqEmpty, ConcatEmptySeq, SubSeqFull
    <2> QED
      BY <2>1
  <1>3. ASSUME NEW k \in 1 .. L PROVE to(k) = Expressions!Take(to(k-1), t[k])
    <2> DEFINE p == SubSeq(t, 1, k - 1)
    <2>1. 1 \in 1 .. L /\ k - 1 \in 0 .. L
      BY <1>1
    <2>2. SubSeq(t, 1, k) = p \o <<t[k]>>
      BY <2>1, SubSeqRecursiveSecond
    <2>3. p \in Seq(Tokens) /\ t[k] \in Tokens /\ <<t[k]>> \in Seq(Tokens)
      BY <2>1, FirstPart, TokenFields
    <2>4. s \o p \in Seq(Tokens)
      BY <2>3, ConcatProperties
    <2> HIDE DEF p
    <2>5. s \o (p \o <<t[k]>>) = (s \o p) \o <<t[k]>>
      BY <2>3, ConcatAssociative
    <2>6. FrameOf(h, (s \o p) \o <<t[k]>>) =
            Expressions!Arrive(FrameOf(h, s \o p), <<t[k]>>, t[k].argc)
      <3>1. Deep(s \o p) /\ Segment(<<t[k]>>, t[k].argc)
        BY <2>3, <2>4, DeepAll, TokenSegment
      <3> DEFINE u == s \o p  e == <<t[k]>>  a == t[k].argc
      <3>2. u \in Seq(Tokens) /\ Deep(u) /\ Segment(e, a)
        BY <2>4, <3>1
      <3> HIDE DEF u, e, a
      <3>3. FrameOf(h, u \o e) = Expressions!Arrive(FrameOf(h, u), e, a)
        BY <3>2, FrameArrives
      <3> QED
        BY <3>3 DEF u, e, a
    <2>7. Expressions!Take(FrameOf(h, s \o p), t[k]) =
            Expressions!Arrive(FrameOf(h, s \o p), <<t[k]>>, t[k].argc)
      BY DEF Expressions!Take
    <2> QED
      BY <2>2, <2>5, <2>6, <2>7 DEF p
  <1>4. Expressions!TakeAll(f, t) = taken[L]
    BY DEF Expressions!TakeAll
  <1> HIDE DEF to, f, L
  <1>5. Is(all)
    <2>1. \A k \in 1 .. L : k - 1 \in 0 .. L /\ k \in 0 .. L
      BY <1>1
    <2>2. \A k \in 1 .. L : all[k-1] = to(k-1) /\ all[k] = to(k)
      BY <2>1
    <2>3. \A k \in 0 .. L : k # 0 => k \in 1 .. L
      BY <1>1
    <2>4. \A k \in 0 .. L : to(k) = IF k = 0 THEN f ELSE Expressions!Take(all[k-1], t[k])
      BY <1>2, <1>3, <2>2, <2>3
    <2> QED
      BY <2>4
  <1>6. Is(taken)
    BY <1>5
  <1> HIDE DEF taken, all
  <1>7. /\ taken[0] = f
        /\ \A k \in 1 .. L : taken[k] = Expressions!Take(taken[k-1], t[k])
    <2>1. 0 \in 0 .. L /\ \A k \in 1 .. L : k \in 0 .. L /\ k # 0
      BY <1>1
    <2>2. \A k \in 0 .. L : taken[k] = IF k = 0 THEN f ELSE Expressions!Take(taken[k-1], t[k])
      BY <1>6
    <2> QED
      BY <2>1, <2>2
  <1> DEFINE Good == {k \in 0 .. L : taken[k] = to(k)}
  <1>8. 0 \in Good
    BY <1>1, <1>2, <1>7
  <1>9. ASSUME NEW k \in 0 .. L - 1, k \in Good PROVE k + 1 \in Good
    <2>1. k + 1 \in 1 .. L /\ k + 1 \in 0 .. L /\ (k + 1) - 1 = k
      BY <1>1
    <2>2. taken[k] = to(k)
      BY <1>9
    <2>3. taken[k + 1] = Expressions!Take(taken[k], t[k + 1])
      BY <1>7, <2>1
    <2>4. to(k + 1) = Expressions!Take(to(k), t[k + 1])
      BY <1>3, <2>1
    <2> QED
      BY <2>1, <2>2, <2>3, <2>4
  <1> HIDE DEF Good
  <1>10. 0 .. L \subseteq Good
    BY <1>1, <1>8, <1>9, UpTo
  <1>11. taken[L] = to(L)
    BY <1>1, <1>10 DEF Good
  <1> QED
    BY <1>2, <1>4, <1>11 DEF f

\* A new expression is an empty link, and so is the answer of a new stream.
LEMMA NewFrame ==
  ASSUME NEW h
  PROVE  FrameOf(h, <<>>) = Expressions!Frame(h, FALSE)
  <1>1. Whole(<<>>) = 0 /\ Count(<<>>) = 0 /\ Len(<<>>) = 0
    BY EmptyLink
  <1>2. SubSeq(<<>>, 1, 0) = <<>> /\ SubSeq(<<>>, 0 + 1, 0) = <<>>
    BY SubSeqEmpty
  <1>3. FrameOf(h, <<>>) = [head |-> h, dropped |-> FALSE, done |-> <<>>, n |-> 0,
                            tail |-> <<>>, owed |-> 0]
    BY <1>1, <1>2 DEF FrameOf
  <1> QED
    BY <1>3 DEF Expressions!Frame, Expressions!Expression

\* What lies before the end of an argument is complete arguments.
LEMMA PrefixEnds ==
  ASSUME NEW s \in Seq(Tokens), NEW k \in Ends(s) \cup {0}
  PROVE  /\ k \in 0 .. Whole(s) /\ k \in 0 .. Len(s)
         /\ SubSeq(s, 1, k) \in Seq(Tokens) /\ Len(SubSeq(s, 1, k)) = k
         /\ Whole(SubSeq(s, 1, k)) = k
         /\ k = Whole(s) => Count(SubSeq(s, 1, k)) = Count(s)
  <1> DEFINE p == SubSeq(s, 1, k)  q == SubSeq(s, k + 1, Len(s))
  <1>1. Len(s) \in Nat /\ Ends(s) \subseteq 1 .. Len(s) /\ k \in 0 .. Len(s)
    BY EndsInside
  <1>2. /\ p \in Seq(Tokens) /\ Len(p) = k /\ q \in Seq(Tokens) /\ p \o q = s
    BY <1>1, CutSeq
  <1>3. \A j \in Ends(s) \cup {0} : j \in 0 .. Whole(s)
    <2> DEFINE E == Ends(s) \cup {0}
    <2>1. E \in SUBSET (0 .. Len(s)) /\ E # {} /\ Whole(s) = Max(E)
      BY <1>1 DEF Whole
    <2>2. Whole(s) \in E /\ \A y \in E : Whole(s) >= y
      BY <1>1, <2>1, MaxInSet
    <2> HIDE DEF E
    <2>3. \A y \in E : y \in 0 .. Whole(s)
      BY <1>1, <2>1, <2>2
    <2> QED
      BY <2>3 DEF E
  <1>4. \A j \in 0 .. k : Balance(p)[j] = Balance(s)[j]
    <2> HIDE DEF p, q
    <2>1. \A j \in 0 .. Len(p) : Balance(p \o q)[j] = Balance(p)[j]
      BY <1>2, BalanceConcat
    <2> QED
      BY <1>2, <2>1
  <1> HIDE DEF p
  <1>5. Ends(p) = {j \in 1 .. k : \A i \in 0 .. j-1 : Balance(p)[j] < Balance(p)[i]}
    BY <1>2, EndsAre
  <1>6. Ends(s) = {j \in 1 .. Len(s) : \A i \in 0 .. j-1 : Balance(s)[j] < Balance(s)[i]}
    BY EndsAre
  <1>7. \A j \in 1 .. k : j \in Ends(p) <=> j \in Ends(s)
    <2> SUFFICES ASSUME NEW j \in 1 .. k PROVE j \in Ends(p) <=> j \in Ends(s)
      OBVIOUS
    <2>1. j \in 1 .. Len(s) /\ j \in 0 .. k /\ \A i \in 0 .. j-1 : i \in 0 .. k
      BY <1>1
    <2> QED
      BY <1>4, <1>5, <1>6, <2>1
  <1>8. Whole(p) = k
    <2>1. k \in Nat /\ Ends(p) \cup {0} \in SUBSET (0 .. k)
      BY <1>1, <1>5
    <2>2. k \in Ends(p) \cup {0}
      <3>1. CASE k = 0
        BY <3>1
      <3>2. CASE k # 0
        <4>1. k \in 1 .. k /\ k \in Ends(s)
          BY <1>1, <3>2
        <4> QED
          BY <1>7, <4>1
      <3> QED
        BY <3>1, <3>2
    <2> QED
      BY <2>1, <2>2, GreatestIs DEF Whole
  <1>9. ASSUME k = Whole(s) PROVE Count(p) = Count(s)
    <2>1. \A j \in Ends(s) : j \in 1 .. k
      BY <1>1, <1>3, <1>9
    <2>2. \A j : j \in Ends(p) <=> j \in Ends(s)
      BY <1>5, <1>7, <2>1
    <2>3. Ends(p) = Ends(s)
      BY <2>2, Zenon
    <2> QED
      BY <2>3 DEF Count
  <1> QED
    BY <1>1, <1>2, <1>3, <1>8, <1>9 DEF p

\* A head with as many arguments as follow it is one expression.
LEMMA ExpressionSegment ==
  ASSUME NEW h \in Heads, NEW p \in Seq(Tokens), Whole(p) = Len(p)
  PROVE  Segment(<<Token(h, Count(p))>> \o p, 0)
  <1> DEFINE tok == Token(h, Count(p))  e == <<tok>> \o p  c == Count(p)  L == Len(p)
  <1>1. /\ c \in Nat /\ L \in Nat /\ tok \in Tokens /\ tok.argc = c /\ <<tok>> \in Seq(Tokens)
        /\ Len(<<tok>>) = 1 /\ e \in Seq(Tokens) /\ Len(e) = 1 + L
    <2>1. c \in Nat /\ L \in Nat
      BY EndsInside
    <2>2. tok \in Tokens /\ tok.argc = c
      BY <2>1 DEF Token, Tokens
    <2>3. <<tok>> \in Seq(Tokens) /\ Len(<<tok>>) = 1
      BY <2>2
    <2> HIDE DEF tok
    <2> QED
      BY <2>1, <2>2, <2>3, ConcatProperties
  <1>2. Balance(<<tok>>)[0] = 0 /\ Balance(<<tok>>)[1] = c - 1
    <2>1. Segment(<<tok>>, tok.argc)
      BY <1>1, TokenSegment
    <2>2. 0 \in 0 .. 1 - 1
      OBVIOUS
    <2>3. Balance(<<tok>>)[0] = 0
      BY <1>1, BalanceOf
    <2> QED
      BY <1>1, <2>1, <2>3 DEF Segment
  <1>3. /\ \A j \in 0 .. 1 : Balance(e)[j] = Balance(<<tok>>)[j]
        /\ \A j \in 0 .. L : Balance(e)[1 + j] = (c - 1) + Balance(p)[j]
    <2> HIDE DEF tok, L, c
    <2>1. /\ \A j \in 0 .. Len(<<tok>>) : Balance(e)[j] = Balance(<<tok>>)[j]
          /\ \A j \in 0 .. Len(p) : Balance(e)[Len(<<tok>>) + j]
                                      = Balance(<<tok>>)[Len(<<tok>>)] + Balance(p)[j]
      BY <1>1, BalanceConcat
    <2> QED
      BY <1>1, <1>2, <2>1 DEF L
  <1>4. Balance(p)[L] = -c /\ Balance(p) \in [0 .. L -> Int]
    BY DeepAll, BalanceOf DEF Deep
  <1>5. \A j \in 0 .. L - 1 : Balance(p)[L] < Balance(p)[j]
    <2>1. CASE L = 0
      BY <2>1
    <2>2. CASE L # 0
      <3>1. L \in Ends(p)
        BY <1>1, <2>2, EndsInside
      <3> QED
        BY <3>1, EndsAre
    <2> QED
      BY <2>1, <2>2
  <1> HIDE DEF e, c, L, tok
  <1>6. \A j \in 0 .. (1 + L) - 1 : Balance(e)[j] >= 0
    <2> SUFFICES ASSUME NEW j \in 0 .. (1 + L) - 1 PROVE Balance(e)[j] >= 0
      OBVIOUS
    <2>1. CASE j = 0
      BY <1>2, <1>3, <2>1
    <2>2. CASE j # 0
      <3>1. j - 1 \in 0 .. L - 1 /\ j - 1 \in 0 .. L /\ 1 + (j - 1) = j
        BY <1>1, <2>2
      <3>2. Balance(e)[j] = (c - 1) + Balance(p)[j - 1] /\ -c < Balance(p)[j - 1]
            /\ Balance(p)[j - 1] \in Int
        BY <1>3, <1>4, <1>5, <3>1
      <3> QED
        BY <1>1, <3>2
    <2> QED
      BY <2>1, <2>2
  <1>7. Balance(e)[1 + L] = 0 - 1
    <2>1. L \in 0 .. L
      BY <1>1
    <2>2. Balance(e)[1 + L] = (c - 1) + (-c)
      BY <1>3, <1>4, <2>1
    <2> QED
      BY <1>1, <2>2
  <1>8. 1 + L >= 1
    BY <1>1
  <1> QED
    BY <1>1, <1>6, <1>7, <1>8 DEF Segment, e, tok, c

-----------------------------------------------------------------------------
(* The stream's expressions, step by step.                                 *)

\* What OpenExpressions sees of the stream.
Bar == [i \in DOMAIN loopbackStack |-> FrameOn(loopbackStack[i])] \o DroppedFrames

FrameSet == {FrameOf(h, s) : h \in Heads \cup {NoHead}, s \in Seq(Tokens)}
              \cup {Expressions!Dropped}

\* One frame for each link of a stack, and one more for the flag.
Shape(bar, stk, con, drop) ==
    /\ bar \in Seq(FrameSet)
    /\ Len(bar) = Len(stk) + (IF drop THEN 1 ELSE 0)
    /\ \A i \in 1 .. Len(stk) :
          /\ bar[i] = FrameOf(stk[i].head, con[stk[i].link])
          /\ bar[i].dropped = FALSE
    /\ drop => bar[Len(stk) + 1] = Expressions!Dropped /\ bar[Len(stk) + 1].dropped = TRUE

LEMMA FramesShape ==
  ASSUME NEW stk \in Seq(LoopbackData), NEW con \in [Links -> Seq(Tokens)], NEW drop \in BOOLEAN
  PROVE  Shape([i \in DOMAIN stk |-> FrameOf(stk[i].head, con[stk[i].link])]
                 \o (IF drop THEN <<Expressions!Dropped>> ELSE <<>>), stk, con, drop)
  <1> DEFINE g == [i \in DOMAIN stk |-> FrameOf(stk[i].head, con[stk[i].link])]
             d == IF drop THEN <<Expressions!Dropped>> ELSE <<>>
             n == Len(stk)
  <1>1. n \in Nat /\ DOMAIN stk = 1 .. n
    BY LenProperties
  <1>2. \A i \in 1 .. n : FrameOf(stk[i].head, con[stk[i].link]) \in FrameSet
    <2> SUFFICES ASSUME NEW i \in 1 .. n
                 PROVE  FrameOf(stk[i].head, con[stk[i].link]) \in FrameSet
      OBVIOUS
    <2>1. stk[i] \in LoopbackData
      BY ElementOfSeq
    <2>2. stk[i].head \in Heads \cup {NoHead} /\ con[stk[i].link] \in Seq(Tokens)
      BY <2>1 DEF LoopbackData
    <2> QED
      BY <2>2 DEF FrameSet
  <1>3. g \in Seq(FrameSet) /\ Len(g) = n
        /\ \A i \in 1 .. n : g[i] = FrameOf(stk[i].head, con[stk[i].link])
    <2>1. g \in [1 .. n -> FrameSet]
      BY <1>1, <1>2
    <2>2. g \in Seq(FrameSet)
      BY <1>1, <2>1, SeqDef
    <2>3. DOMAIN g = 1 .. n /\ DOMAIN g = 1 .. Len(g) /\ Len(g) \in Nat
      BY <1>1, <2>2, LenProperties
    <2> HIDE DEF g
    <2>4. Len(g) = n
      BY <1>1, <2>3
    <2> QED
      BY <1>1, <2>2, <2>4 DEF g
  <1>4. d \in Seq(FrameSet) /\ Len(d) = (IF drop THEN 1 ELSE 0)
        /\ (drop => d[1] = Expressions!Dropped)
    <2>1. CASE drop
      <3>1. Expressions!Dropped \in FrameSet
        BY DEF FrameSet
      <3>2. d = <<Expressions!Dropped>>
        BY <2>1
      <3> QED
        BY <2>1, <3>1, <3>2
    <2>2. CASE ~ drop
      <3>1. d = <<>> /\ <<>> \in Seq(FrameSet)
        BY <2>2
      <3> QED
        BY <2>2, <3>1
    <2> QED
      BY <2>1, <2>2
  <1>5. \A i \in 1 .. n : g[i].dropped = FALSE
    <2>1. \A h, s : FrameOf(h, s).dropped = FALSE
      BY DEF FrameOf
    <2> HIDE DEF g
    <2>2. ASSUME NEW i \in 1 .. n PROVE g[i].dropped = FALSE
      <3>1. g[i] = FrameOf(stk[i].head, con[stk[i].link])
        BY <1>3
      <3>2. FrameOf(stk[i].head, con[stk[i].link]).dropped = FALSE
        BY <2>1
      <3> QED
        BY <3>1, <3>2, Zenon
    <2> QED
      BY <2>2
  <1>6. Expressions!Dropped.dropped = TRUE
    BY DEF Expressions!Dropped, Expressions!Frame, Expressions!Expression
  <1> HIDE DEF g, d, n
  <1>7. /\ g \o d \in Seq(FrameSet) /\ Len(g \o d) = n + Len(d)
        /\ \A i \in 1 .. n : (g \o d)[i] = g[i]
        /\ drop => (g \o d)[n + 1] = d[1]
    <2>1. /\ g \o d \in Seq(FrameSet) /\ Len(g \o d) = Len(g) + Len(d)
          /\ \A i \in 1 .. Len(g) + Len(d) : (g \o d)[i] =
                IF i <= Len(g) THEN g[i] ELSE d[i - Len(g)]
      BY <1>3, <1>4, ConcatProperties
    <2>2. \A i \in 1 .. n : i \in 1 .. n + Len(d) /\ i <= n
      BY <1>1, <1>4
    <2>3. drop => n + 1 \in 1 .. n + Len(d) /\ ~ (n + 1 <= n) /\ (n + 1) - n = 1
      BY <1>1, <1>4
    <2> QED
      BY <1>3, <2>1, <2>2, <2>3
  <1> QED
    BY <1>3, <1>4, <1>5, <1>6, <1>7 DEF Shape, g, d, n

\* The frames of a state and of the next.
LEMMA BarShape ==
  /\ TypeOK => Shape(Bar, loopbackStack, content, Alive /\ currentExprDropped)
  /\ TypeOK' => Shape(Bar', loopbackStack', content', (Alive /\ currentExprDropped)')
  <1>1. ASSUME TypeOK PROVE Shape(Bar, loopbackStack, content, Alive /\ currentExprDropped)
    <2>1. Bar = [i \in DOMAIN loopbackStack |->
                   FrameOf(loopbackStack[i].head, content[loopbackStack[i].link])]
                  \o (IF Alive /\ currentExprDropped THEN <<Expressions!Dropped>> ELSE <<>>)
      BY FrameOnIs DEF Bar, DroppedFrames, Expressions!Dropped, Expressions!Frame, Expressions!Expression
    <2>2. (Alive /\ currentExprDropped) \in BOOLEAN
      BY <1>1 DEF TypeOK
    <2> QED
      BY <1>1, <2>1, <2>2, FramesShape DEF TypeOK
  <1>2. ASSUME TypeOK'
        PROVE  Shape(Bar', loopbackStack', content', (Alive /\ currentExprDropped)')
    <2>1. Bar' = [i \in DOMAIN loopbackStack' |->
                   FrameOf(loopbackStack'[i].head, content'[loopbackStack'[i].link])]
                  \o (IF (Alive /\ currentExprDropped)' THEN <<Expressions!Dropped>> ELSE <<>>)
      BY DEF FrameOn, FrameOf, Whole, Count,
             Bar, DroppedFrames, Expressions!Dropped, Expressions!Frame, Expressions!Expression
    <2>2. (Alive /\ currentExprDropped)' \in BOOLEAN
      BY <1>2 DEF TypeOK
    <2> QED
      BY <1>2, <2>1, <2>2, FramesShape DEF TypeOK
  <1> QED
    BY <1>1, <1>2

\* Two sequences that differ in one place.
LEMMA OnePlace ==
  ASSUME NEW S, NEW s \in Seq(S), NEW t \in Seq(S), Len(t) = Len(s),
         NEW n, NEW x, n \in 1 .. Len(s) => t[n] = x,
         \A i \in 1 .. Len(s) : i # n => t[i] = s[i]
  PROVE  t = [s EXCEPT ![n] = x]
  <1>1. /\ DOMAIN s = 1 .. Len(s) /\ DOMAIN t = 1 .. Len(s)
        /\ s = [i \in 1 .. Len(s) |-> s[i]] /\ t = [i \in 1 .. Len(s) |-> t[i]]
    BY LenProperties
  <1>2. \A i \in 1 .. Len(s) : t[i] = [s EXCEPT ![n] = x][i]
    BY <1>1
  <1>3. [s EXCEPT ![n] = x] = [i \in 1 .. Len(s) |-> [s EXCEPT ![n] = x][i]]
    BY <1>1
  <1> QED
    BY <1>1, <1>2, <1>3

\* The abstract actions, said of Bar.
LEMMA AbstractPut ==
  ASSUME Bar # <<>>, NEW h \in Heads, NEW a \in Arities,
         Bar' = [Bar EXCEPT ![Expressions!Current(Bar)] =
                   Expressions!Take(Bar[Expressions!Current(Bar)], [head |-> h, argc |-> a])],
         UNCHANGED failures
  PROVE  Expressions!Put
  BY DEF Expressions!Put, Bar

LEMMA AbstractOpen ==
  ASSUME Bar = <<>>, Bar' = <<Expressions!Frame(NoHead, FALSE)>>, UNCHANGED failures
  PROVE  Expressions!Open
  BY DEF Expressions!Open, Expressions!Answer, Bar

LEMMA AbstractClose ==
  ASSUME Bar # <<>>, Bar' = <<>>, UNCHANGED failures
  PROVE  Expressions!Close
  BY DEF Expressions!Close, Bar

LEMMA AbstractBegin ==
  ASSUME Bar # <<>>, NEW h \in Heads,
         Bar' = Append(Expressions!Kept(Bar), Expressions!Frame(h, FALSE)), UNCHANGED failures
  PROVE  Expressions!Begin
  BY DEF Expressions!Begin, Bar

LEMMA AbstractDrop ==
  ASSUME Expressions!Current(Bar) > 1,
         NEW k, k = Expressions!Kept(Bar),
         Bar' = Append(SubSeq(k, 1, Len(k) - 1), Expressions!Dropped),
         UNCHANGED failures
  PROVE  Expressions!Drop
  BY DEF Expressions!Drop, Bar, Expressions!Front

LEMMA AbstractEndDropped ==
  ASSUME Len(Bar) > 1, Bar[Len(Bar)].dropped,
         Bar' = SubSeq(Bar, 1, Len(Bar) - 1), UNCHANGED failures
  PROVE  Expressions!EndDropped
  BY DEF Expressions!EndDropped, Bar, Expressions!Front, Expressions!Last

LEMMA AbstractEnd ==
  ASSUME Len(Bar) > 1, ~ Bar[Len(Bar)].dropped,
         NEW f, f = SubSeq(Bar, 1, Len(Bar) - 1),
         NEW k, k = Len(Bar) - 1,
         Bar' = [f EXCEPT ![k] =
                   Expressions!Arrive(f[k], Expressions!Finished(Bar[Len(Bar)]), 0)],
         UNCHANGED failures
  PROVE  Expressions!End
  BY DEF Expressions!End, Bar, Expressions!Front, Expressions!Last

LEMMA AbstractFail ==
  ASSUME Bar' \in {Bar, Expressions!Kept(Bar)}, failures' = failures + 1
  PROVE  Expressions!Fail
  BY DEF Expressions!Fail, Bar

LEMMA AbstractEndFails ==
  ASSUME Len(Bar) > 1, ~ Bar[Len(Bar)].dropped,
         NEW f, f = SubSeq(Bar, 1, Len(Bar) - 1),
         NEW k, k = Len(Bar) - 1,
         NEW j \in 0 .. Len(Expressions!Finished(Bar[Len(Bar)])),
         Bar' = [f EXCEPT ![k] = Expressions!TakeAll(f[k],
                     SubSeq(Expressions!Finished(Bar[Len(Bar)]), 1, j))],
         failures' = failures + 1
  PROVE  Expressions!EndFails
  <1> DEFINE last == Bar[Len(Bar)]
  <1>1. SubSeq(Expressions!Finished(last), 1, j) \in Expressions!Prefixes(Expressions!Finished(last))
    BY DEF Expressions!Prefixes
  <1> QED
    BY <1>1 DEF Expressions!EndFails, Bar, Expressions!Front, Expressions!Last

LEMMA AbstractEndShort ==
  ASSUME Len(Bar) > 1, ~ Bar[Len(Bar)].dropped,
         NEW f, f = SubSeq(Bar, 1, Len(Bar) - 1),
         NEW k, k = Len(Bar) - 1,
         NEW j \in 0 .. Len(Bar[Len(Bar)].done),
         NEW short, short = Expressions!TakeAll(Expressions!Frame(Bar[Len(Bar)].head, FALSE),
                                                SubSeq(Bar[Len(Bar)].done, 1, j)),
         short.owed = 0,
         Bar' = [f EXCEPT ![k] = Expressions!Arrive(f[k], Expressions!Finished(short), 0)],
         failures' = failures + 1
  PROVE  Expressions!EndShort
  <1> DEFINE last == Bar[Len(Bar)]
  <1>1. SubSeq(last.done, 1, j) \in Expressions!Prefixes(last.done)
    BY DEF Expressions!Prefixes
  <1> QED
    BY <1>1 DEF Expressions!EndShort, Bar, Expressions!Front, Expressions!Last

\* Without the memory of a drop there is one frame for each link of a stack, and
\* the current one is that of its top.
LEMMA CurrentOfShape ==
  ASSUME NEW bar, NEW stk \in Seq(LoopbackData), stk # <<>>, NEW con, NEW drop \in BOOLEAN,
         Shape(bar, stk, con, drop)
  PROVE  /\ Len(stk) \in Nat \ {0} /\ Len(bar) \in Nat /\ Len(stk) \in 1 .. Len(bar)
         /\ bar # <<>> /\ Expressions!Current(bar) = Len(stk)
         /\ Expressions!Kept(bar) \in Seq(FrameSet) /\ Len(Expressions!Kept(bar)) = Len(stk)
         /\ \A i \in 1 .. Len(stk) : Expressions!Kept(bar)[i] = bar[i]
  <1> DEFINE n == Len(stk)
  <1>1. /\ n \in Nat \ {0} /\ bar \in Seq(FrameSet) /\ Len(bar) = n + (IF drop THEN 1 ELSE 0)
    BY EmptySeq DEF Shape
  <1>2. n \in 1 .. Len(bar) /\ n \in 0 .. Len(bar) /\ Len(bar) \in Nat /\ n \in 1 .. n /\ bar # <<>>
    BY <1>1
  <1>3. /\ SubSeq(bar, 1, n) \in Seq(FrameSet) /\ Len(SubSeq(bar, 1, n)) = n
        /\ \A i \in 1 .. n : SubSeq(bar, 1, n)[i] = bar[i]
    BY <1>1, <1>2, FirstPart
  <1>4. Expressions!Kept(bar) = SubSeq(bar, 1, n)
    <2>1. CASE drop
      <3>1. Len(bar) = n + 1 /\ Len(bar) - 1 = n
        BY <1>1, <2>1
      <3>2. bar[n + 1].dropped = TRUE
        BY <2>1 DEF Shape
      <3> QED
        BY <1>2, <3>1, <3>2 DEF Expressions!Kept, Expressions!Front, Expressions!Last
    <2>2. CASE ~ drop
      <3>1. Len(bar) = n
        BY <1>1, <2>2
      <3>2. bar[n].dropped = FALSE
        BY <1>2 DEF Shape
      <3>3. SubSeq(bar, 1, n) = bar
        BY <1>1, <3>1, SubSeqFull
      <3> QED
        BY <1>2, <3>1, <3>2, <3>3 DEF Expressions!Kept, Expressions!Last
    <2> QED
      BY <2>1, <2>2
  <1> HIDE DEF n
  <1>5. Expressions!Current(bar) = n
    BY <1>3, <1>4 DEF Expressions!Current
  <1> QED
    BY <1>1, <1>2, <1>3, <1>4, <1>5 DEF n

\* The frames of a state with a live stream.
LEMMA LiveFrames ==
  ASSUME IInv, Alive
  PROVE  /\ loopbackStack \in Seq(LoopbackData) /\ content \in [Links -> Seq(Tokens)]
         /\ currentExprDropped \in BOOLEAN
         /\ Shape(Bar, loopbackStack, content, currentExprDropped)
         /\ Len(loopbackStack) \in Nat \ {0} /\ Len(Bar) \in Nat
         /\ Len(loopbackStack) \in 1 .. Len(Bar)
         /\ Bar # <<>> /\ Expressions!Current(Bar) = Len(loopbackStack)
         /\ Expressions!Kept(Bar) \in Seq(FrameSet)
         /\ Len(Expressions!Kept(Bar)) = Len(loopbackStack)
         /\ \A i \in 1 .. Len(loopbackStack) : Expressions!Kept(Bar)[i] = Bar[i]
  <1>1. /\ loopbackStack \in Seq(LoopbackData) /\ content \in [Links -> Seq(Tokens)]
        /\ currentExprDropped \in BOOLEAN /\ loopbackStack # <<>>
    BY DEF IInv, TypeOK, Alive
  <1>2. Shape(Bar, loopbackStack, content, currentExprDropped)
    <2>1. (Alive /\ currentExprDropped) = currentExprDropped
      BY <1>1
    <2>2. Shape(Bar, loopbackStack, content, Alive /\ currentExprDropped)
      BY BarShape DEF IInv
    <2> QED
      BY <2>1, <2>2
  <1> DEFINE drop == currentExprDropped  bar == Bar  stk == loopbackStack  con == content
  <1>3. Shape(bar, stk, con, drop) /\ drop \in BOOLEAN /\ stk \in Seq(LoopbackData) /\ stk # <<>>
    BY <1>1, <1>2
  <1> HIDE DEF drop, bar, stk, con
  <1>4. /\ Len(stk) \in Nat \ {0} /\ Len(bar) \in Nat /\ Len(stk) \in 1 .. Len(bar)
        /\ bar # <<>> /\ Expressions!Current(bar) = Len(stk)
        /\ Expressions!Kept(bar) \in Seq(FrameSet) /\ Len(Expressions!Kept(bar)) = Len(stk)
        /\ \A i \in 1 .. Len(stk) : Expressions!Kept(bar)[i] = bar[i]
    BY <1>3, CurrentOfShape
  <1> QED
    BY <1>1, <1>2, <1>4 DEF bar, stk

LEMMA NextFrames ==
  ASSUME IInv', Alive'
  PROVE  /\ loopbackStack' \in Seq(LoopbackData) /\ content' \in [Links -> Seq(Tokens)]
         /\ currentExprDropped' \in BOOLEAN
         /\ Shape(Bar', loopbackStack', content', currentExprDropped')
  <1>1. /\ loopbackStack' \in Seq(LoopbackData) /\ content' \in [Links -> Seq(Tokens)]
        /\ currentExprDropped' \in BOOLEAN
    BY DEF IInv, TypeOK
  <1>2. Shape(Bar', loopbackStack', content', currentExprDropped')
    <2>1. (Alive /\ currentExprDropped)' = currentExprDropped'
      BY <1>1
    <2>2. Shape(Bar', loopbackStack', content', (Alive /\ currentExprDropped)')
      BY BarShape DEF IInv
    <2> QED
      BY <2>1, <2>2
  <1> QED
    BY <1>1, <1>2

\* The links of the stack, apart from each other.
LEMMA ApartLinks ==
  ASSUME IInv, Alive
  PROVE  /\ m = loopbackStack[Len(loopbackStack)].link
         /\ \A i \in 1 .. Len(loopbackStack) :
               loopbackStack[i] \in LoopbackData /\ loopbackStack[i].link \in Links
         /\ \A i, j \in 1 .. Len(loopbackStack) :
               i # j => loopbackStack[i].link # loopbackStack[j].link
  <1>1. loopbackStack \in Seq(LoopbackData) /\ DOMAIN loopbackStack = 1 .. Len(loopbackStack)
    BY DEF IInv, TypeOK
  <1>2. \A i \in 1 .. Len(loopbackStack) :
           loopbackStack[i] \in LoopbackData /\ loopbackStack[i].link \in Links
    <2> SUFFICES ASSUME NEW i \in 1 .. Len(loopbackStack)
                 PROVE  loopbackStack[i] \in LoopbackData /\ loopbackStack[i].link \in Links
      OBVIOUS
    <2>1. loopbackStack[i] \in LoopbackData
      BY <1>1, ElementOfSeq
    <2> QED
      BY <2>1 DEF LoopbackData
  <1> QED
    BY <1>1, <1>2 DEF IInv, CurrentLinkUsable, Top

\* Nothing that the frames show has changed.
LEMMA SameBar ==
  ASSUME UNCHANGED <<loopbackStack, currentExprDropped, content>>
  PROVE  Bar' = Bar
  BY DEF Bar, FrameOn, DroppedFrames, Alive

\* A head put on the active link is put in the current expression.
LEMMA PutSimulates ==
  ASSUME IInv, IInv', NEW h \in Heads, NEW a \in Arities, Put(Token(h, a))
  PROVE  Expressions!Put
  <1> DEFINE n == Len(loopbackStack)  tok == [head |-> h, argc |-> a]
             c == content[m]  hd == loopbackStack[n].head
  <1>1. /\ Alive /\ Alive' /\ loopbackStack' = loopbackStack /\ failures' = failures
        /\ currentExprDropped' = currentExprDropped
        /\ content' = [content EXCEPT ![m] = Append(content[m], tok)]
    BY DEF Put, stream, Alive, Token
  <1>2. /\ content \in [Links -> Seq(Tokens)]
        /\ Shape(Bar, loopbackStack, content, currentExprDropped)
        /\ n \in Nat \ {0} /\ n \in 1 .. Len(Bar) /\ Len(Bar) \in Nat
        /\ Bar # <<>> /\ Expressions!Current(Bar) = n
    BY <1>1, LiveFrames
  <1>3. Shape(Bar', loopbackStack, content', currentExprDropped)
    BY <1>1, NextFrames
  <1>4. /\ m = loopbackStack[n].link /\ m \in Links
        /\ \A i \in 1 .. n : loopbackStack[i].link \in Links
                               /\ (i # n => loopbackStack[i].link # m)
    BY <1>1, <1>2, ApartLinks
  <1>5. tok \in Tokens /\ c \in Seq(Tokens) /\ Append(c, tok) = c \o <<tok>> /\ tok.argc = a
    <2>1. tok \in Tokens /\ tok.argc = a
      BY StreamAssumption DEF Tokens
    <2>2. c \in Seq(Tokens)
      BY <1>2, <1>4
    <2> HIDE DEF tok, c
    <2> QED
      BY <2>1, <2>2, AppendIsConcat
  <1>6. content'[m] = c \o <<tok>>
    BY <1>1, <1>2, <1>4, <1>5
  <1>7. \A i \in 1 .. n : i # n => content'[loopbackStack[i].link] = content[loopbackStack[i].link]
    BY <1>1, <1>2, <1>4
  <1>8. n \in 1 .. n /\ \A i \in 1 .. Len(Bar) : i \in 1 .. n \/ (i = n + 1 /\ currentExprDropped)
    BY <1>2 DEF Shape
  <1>9. /\ Bar[n] = FrameOf(hd, c) /\ Bar'[n] = FrameOf(hd, c \o <<tok>>)
    BY <1>2, <1>3, <1>4, <1>6, <1>8 DEF Shape
  <1>10. Bar'[n] = Expressions!Take(Bar[n], tok)
    <2> DEFINE e == <<tok>>
    <2>1. Deep(c) /\ Segment(e, tok.argc)
      BY <1>5, DeepAll, TokenSegment
    <2> HIDE DEF e, tok, c
    <2>2. FrameOf(hd, c \o e) = Expressions!Arrive(FrameOf(hd, c), e, tok.argc)
      BY <1>5, <2>1, FrameArrives
    <2> QED
      BY <1>9, <2>2 DEF Expressions!Take, e
  <1>11. ASSUME NEW i \in 1 .. Len(Bar), i # n PROVE Bar'[i] = Bar[i]
    <2>1. CASE i \in 1 .. n
      BY <1>2, <1>3, <1>7, <1>11, <2>1 DEF Shape
    <2>2. CASE i = n + 1 /\ currentExprDropped
      BY <1>2, <1>3, <2>2 DEF Shape
    <2> QED
      BY <1>8, <2>1, <2>2
  <1>12. Bar \in Seq(FrameSet) /\ Bar' \in Seq(FrameSet) /\ Len(Bar') = Len(Bar)
    BY <1>2, <1>3 DEF Shape
  <1> HIDE DEF n, tok, c, hd
  <1>13. Bar' = [Bar EXCEPT ![n] = Expressions!Take(Bar[n], tok)]
    BY <1>10, <1>11, <1>12, OnePlace
  <1> QED
    BY <1>1, <1>2, <1>13, AbstractPut DEF tok

\* A new link is a new expression.
LEMMA BeginSimulates ==
  ASSUME IInv, IInv', NEW h \in Heads, NEW l \in Loopbacks, BeginExpr(h, l)
  PROVE  Expressions!Begin
  <1> DEFINE n == Len(loopbackStack)  data == [head |-> h, link |-> l]
             kept == Expressions!Kept(Bar)
  <1>1. /\ Alive /\ currentExprDropped' = FALSE
        /\ failures' = failures /\ l \notin open
        /\ content' = [content EXCEPT ![l] = <<>>]
        /\ loopbackStack' = Append(loopbackStack, data)
    BY DEF BeginExpr, IInv, TypeOK
  <1>2. /\ loopbackStack \in Seq(LoopbackData) /\ content \in [Links -> Seq(Tokens)]
        /\ Shape(Bar, loopbackStack, content, currentExprDropped)
        /\ n \in Nat \ {0} /\ Bar # <<>>
        /\ kept \in Seq(FrameSet) /\ Len(kept) = n /\ \A i \in 1 .. n : kept[i] = Bar[i]
    BY <1>1, LiveFrames
  <1>3. data \in LoopbackData /\ l \in Links /\ l # Main
    BY StreamAssumption DEF LoopbackData, Links
  <1>4. /\ loopbackStack' # <<>> /\ Len(loopbackStack') = n + 1
        /\ \A i \in 1 .. n : loopbackStack'[i] = loopbackStack[i]
        /\ loopbackStack'[n + 1] = data
    BY <1>1, <1>2, <1>3, TopOfAppend
  <1>5. Shape(Bar', loopbackStack', content', currentExprDropped')
    BY <1>4, NextFrames DEF Alive
  <1>6. \A i \in 1 .. n : loopbackStack[i].link # l /\ loopbackStack[i].link \in Links
    <2>1. loopbackStack[1].link = Main /\ \A i \in 2 .. n : loopbackStack[i].link \in open
      BY <1>1 DEF IInv, CurrentLinkUsable
    <2>2. \A i \in 1 .. n : i = 1 \/ i \in 2 .. n
      BY <1>2
    <2> QED
      BY <1>1, <1>3, <2>1, <2>2, ApartLinks
  <1>7. content'[l] = <<>>
        /\ \A i \in 1 .. n : content'[loopbackStack[i].link] = content[loopbackStack[i].link]
    BY <1>1, <1>2, <1>3, <1>6
  <1>8. Bar' \in Seq(FrameSet) /\ Len(Bar') = n + 1
    BY <1>1, <1>4, <1>5 DEF Shape
  <1>9. \A i \in 1 .. n : Bar'[i] = kept[i]
    <2> SUFFICES ASSUME NEW i \in 1 .. n PROVE Bar'[i] = kept[i]
      OBVIOUS
    <2>1. i \in 1 .. n + 1
      BY <1>2
    <2>2. i \in 1 .. Len(loopbackStack')
      BY <1>4, <2>1
    <2>3. Bar'[i] = FrameOf(loopbackStack'[i].head, content'[loopbackStack'[i].link])
      BY <1>5, <2>2 DEF Shape
    <2>4. Bar[i] = FrameOf(loopbackStack[i].head, content[loopbackStack[i].link])
      BY <1>2 DEF Shape
    <2>5. Bar'[i] = FrameOf(loopbackStack[i].head, content[loopbackStack[i].link])
      BY <1>4, <1>7, <2>3
    <2> QED
      BY <1>2, <2>4, <2>5
  <1>10. Bar'[n + 1] = Expressions!Frame(h, FALSE)
    <2>1. n + 1 \in 1 .. n + 1
      BY <1>2
    <2>2. Bar'[n + 1] = FrameOf(data.head, content'[data.link])
      BY <1>4, <1>5, <2>1 DEF Shape
    <2>3. Bar'[n + 1] = FrameOf(h, <<>>)
      BY <1>7, <2>2
    <2> QED
      BY <2>3, NewFrame
  <1> DEFINE x == Expressions!Frame(h, FALSE)
  <1>11. x \in FrameSet
    <2>1. Bar'[n + 1] \in FrameSet
      BY <1>2, <1>8, ElementOfSeq
    <2> QED
      BY <1>10, <2>1
  <1> HIDE DEF x, n, kept
  <1>12. /\ Append(kept, x) \in Seq(FrameSet) /\ Len(Append(kept, x)) = n + 1
         /\ \A i \in 1 .. n : Append(kept, x)[i] = kept[i]
         /\ Append(kept, x)[n + 1] = x
    BY <1>2, <1>11, AppendProperties
  <1>13. \A i \in 1 .. n + 1 : i \in 1 .. n \/ i = n + 1
    BY <1>2
  <1>14. Bar' = Append(kept, x)
    <2>1. \A i \in 1 .. Len(Bar') : Bar'[i] = Append(kept, x)[i]
      BY <1>8, <1>9, <1>10, <1>12, <1>13 DEF x
    <2> QED
      BY <1>8, <1>12, <2>1, SeqEqual
  <1> QED
    BY <1>1, <1>2, <1>14, AbstractBegin DEF x, kept

\* The dropped expression leaves its link, and one frame stands for the flag.
LEMMA DropSimulates ==
  ASSUME IInv, IInv', DropExpr
  PROVE  Expressions!Drop
  <1> DEFINE n == Len(loopbackStack)  kept == Expressions!Kept(Bar)
             below == SubSeq(kept, 1, n - 1)
  <1>1. /\ Alive /\ currentExprDropped' = TRUE
        /\ failures' = failures /\ Poppable
        /\ content' = [content EXCEPT ![Ended.link] = <<>>]
        /\ loopbackStack' = Pop(loopbackStack)
    BY DEF DropExpr, Ended
  <1>2. /\ loopbackStack \in Seq(LoopbackData) /\ content \in [Links -> Seq(Tokens)]
        /\ Shape(Bar, loopbackStack, content, currentExprDropped)
        /\ n \in Nat \ {0} /\ Expressions!Current(Bar) = n
        /\ kept \in Seq(FrameSet) /\ Len(kept) = n /\ \A i \in 1 .. n : kept[i] = Bar[i]
    BY <1>1, LiveFrames
  <1>3. /\ loopbackStack' # <<>> /\ Len(loopbackStack') = n - 1 /\ n >= 2
        /\ \A i \in 1 .. n - 1 : loopbackStack'[i] = loopbackStack[i]
                                   /\ loopbackStack[i].link # Ended.link
    BY <1>1, PoppedStack DEF Poppable
  <1>4. Shape(Bar', loopbackStack', content', currentExprDropped')
    BY <1>3, NextFrames DEF Alive
  <1>5. \A i \in 1 .. n - 1 : content'[loopbackStack[i].link] = content[loopbackStack[i].link]
    <2>1. \A i \in 1 .. n - 1 : loopbackStack[i].link \in Links
      BY <1>1, <1>2, ApartLinks
    <2> QED
      BY <1>1, <1>2, <1>3, <2>1
  <1>6. Bar' \in Seq(FrameSet) /\ Len(Bar') = n /\ Bar'[n] = Expressions!Dropped
    <2>1. Len(Bar') = (n - 1) + 1 /\ Bar'[(n - 1) + 1] = Expressions!Dropped
      BY <1>1, <1>3, <1>4 DEF Shape
    <2>2. (n - 1) + 1 = n
      BY <1>2
    <2> QED
      BY <1>4, <2>1, <2>2 DEF Shape
  <1>7. ASSUME NEW i \in 1 .. n - 1 PROVE Bar'[i] = kept[i]
    <2>1. i \in 1 .. n
      BY <1>2
    <2>2. Bar'[i] = FrameOf(loopbackStack'[i].head, content'[loopbackStack'[i].link])
      BY <1>3, <1>4 DEF Shape
    <2>3. Bar[i] = FrameOf(loopbackStack[i].head, content[loopbackStack[i].link])
      BY <1>2, <2>1 DEF Shape
    <2>4. Bar'[i] = FrameOf(loopbackStack[i].head, content[loopbackStack[i].link])
      BY <1>3, <1>5, <2>2
    <2> QED
      BY <1>2, <2>1, <2>3, <2>4
  <1>8. /\ below \in Seq(FrameSet) /\ Len(below) = n - 1
        /\ \A i \in 1 .. n - 1 : below[i] = kept[i]
    <2>1. n - 1 \in 0 .. n
      BY <1>2
    <2> HIDE DEF n, kept
    <2> QED
      BY <1>2, <2>1, FirstPart
  <1> DEFINE x == Expressions!Dropped
  <1>9. x \in FrameSet
    BY DEF FrameSet
  <1> HIDE DEF n, kept, below, x
  <1>10. /\ Append(below, x) \in Seq(FrameSet) /\ Len(Append(below, x)) = n
         /\ \A i \in 1 .. n - 1 : Append(below, x)[i] = below[i]
         /\ Append(below, x)[n] = x
    <2>1. (n - 1) + 1 = n
      BY <1>2
    <2> QED
      BY <1>8, <1>9, <2>1, TopOfAppend
  <1>11. Bar' = Append(below, x)
    <2>1. \A i \in 1 .. n : i \in 1 .. n - 1 \/ i = n
      BY <1>2
    <2>2. \A i \in 1 .. n : Bar'[i] = Append(below, x)[i]
      BY <1>6, <1>7, <1>8, <1>10, <2>1 DEF x
    <2> QED
      BY <1>6, <1>10, <2>2, SeqEqual
  <1>12. Expressions!Current(Bar) > 1
    BY <1>2, <1>3
  <1>13. Bar' = Append(SubSeq(kept, 1, Len(kept) - 1), Expressions!Dropped)
    BY <1>2, <1>11 DEF below, x
  <1> QED
    BY <1>1, <1>12, <1>13, AbstractDrop DEF kept

\* A BeginExpr that fails forgets a drop.
LEMMA BeginFailsSimulates ==
  ASSUME IInv, IInv', BeginFails
  PROVE  Expressions!Fail
  <1> DEFINE n == Len(loopbackStack)  kept == Expressions!Kept(Bar)
  <1>1. /\ Alive /\ Alive' /\ currentExprDropped' = FALSE /\ failures' = failures + 1
        /\ content' = content /\ loopbackStack' = loopbackStack
    BY DEF BeginFails, Fails, Alive
  <1>2. /\ Shape(Bar, loopbackStack, content, currentExprDropped)
        /\ kept \in Seq(FrameSet) /\ Len(kept) = n /\ \A i \in 1 .. n : kept[i] = Bar[i]
    BY <1>1, LiveFrames
  <1>3. Shape(Bar', loopbackStack, content, currentExprDropped')
    BY <1>1, NextFrames
  <1>4. Bar' \in Seq(FrameSet) /\ Len(Bar') = n /\ \A i \in 1 .. n : Bar'[i] = kept[i]
    BY <1>1, <1>2, <1>3 DEF Shape
  <1> HIDE DEF n, kept
  <1>5. Bar' = kept
    BY <1>2, <1>4, SeqEqual
  <1> QED
    BY <1>1, <1>5, AbstractFail DEF kept

\* The flag's frame goes.
LEMMA EndDroppedSimulates ==
  ASSUME IInv, IInv', EndDropped
  PROVE  Expressions!EndDropped
  <1> DEFINE n == Len(loopbackStack)
  <1>1. /\ Alive /\ Alive' /\ currentExprDropped = TRUE /\ currentExprDropped' = FALSE
        /\ failures' = failures /\ content' = content /\ loopbackStack' = loopbackStack
    BY DEF EndDropped, IInv, TypeOK, Alive
  <1>2. /\ Shape(Bar, loopbackStack, content, currentExprDropped)
        /\ n \in Nat \ {0}
    BY <1>1, LiveFrames
  <1>3. Shape(Bar', loopbackStack, content, currentExprDropped')
    BY <1>1, NextFrames
  <1>4. /\ Bar \in Seq(FrameSet) /\ Len(Bar) = n + 1 /\ Bar[n + 1].dropped = TRUE
        /\ Bar' \in Seq(FrameSet) /\ Len(Bar') = n
        /\ \A i \in 1 .. n : Bar'[i] = Bar[i]
    BY <1>1, <1>2, <1>3 DEF Shape
  <1> HIDE DEF n
  <1>5. (n + 1) - 1 = n /\ n \in 0 .. n + 1 /\ n + 1 > 1
    BY <1>2
  <1>6. Bar' = SubSeq(Bar, 1, Len(Bar) - 1)
    <2>1. /\ SubSeq(Bar, 1, n) \in Seq(FrameSet) /\ Len(SubSeq(Bar, 1, n)) = n
          /\ \A i \in 1 .. n : SubSeq(Bar, 1, n)[i] = Bar[i]
      BY <1>4, <1>5, FirstPart
    <2>2. \A i \in 1 .. Len(Bar') : Bar'[i] = SubSeq(Bar, 1, n)[i]
      BY <1>4, <2>1
    <2>3. Bar' = SubSeq(Bar, 1, n)
      BY <1>4, <2>1, <2>2, SeqEqual
    <2> QED
      BY <1>4, <1>5, <2>3
  <1>7. Len(Bar) > 1 /\ Bar[Len(Bar)].dropped
    BY <1>4, <1>5
  <1> QED
    BY <1>1, <1>6, <1>7, AbstractEndDropped

\* The frames below the one that EndExpr has popped.
Below == SubSeq(Bar, 1, Len(Bar) - 1)

\* The parent's link gains what is delivered; its frame is that of the longer link.
LEMMA Delivered ==
  ASSUME IInv, IInv', EndPops, NEW toks \in Seq(Tokens), Deliver(toks)
  PROVE  LET n == Len(loopbackStack)  parent == loopbackStack[n-1]  c == content[parent.link]
         IN  /\ Len(Bar) > 1 /\ ~ Bar[Len(Bar)].dropped
             /\ Bar[Len(Bar)] = FrameOf(Ended.head, content[Ended.link])
             /\ content[Ended.link] \in Seq(Tokens) /\ c \in Seq(Tokens)
             /\ Len(Bar) - 1 = n - 1
             /\ Below[n-1] = FrameOf(parent.head, c)
             /\ Bar' = [Below EXCEPT ![n-1] = FrameOf(parent.head, c \o toks)]
  <1> DEFINE n == Len(loopbackStack)  parent == loopbackStack[n-1]  c == content[parent.link]
             x == FrameOf(parent.head, c \o toks)
  <1>1. /\ Alive /\ currentExprDropped = FALSE /\ currentExprDropped' = FALSE /\ Poppable
        /\ loopbackStack' = Pop(loopbackStack) /\ m' = Top(Pop(loopbackStack)).link
    BY DEF EndPops, IInv, TypeOK
  <1>2. /\ loopbackStack \in Seq(LoopbackData) /\ content \in [Links -> Seq(Tokens)]
        /\ Shape(Bar, loopbackStack, content, currentExprDropped)
        /\ n \in Nat \ {0}
    BY <1>1, LiveFrames
  <1>3. /\ loopbackStack' # <<>> /\ Len(loopbackStack') = n - 1 /\ n >= 2
        /\ \A i \in 1 .. n - 1 : loopbackStack'[i] = loopbackStack[i]
                                   /\ loopbackStack[i].link # Ended.link
        /\ Ended = loopbackStack[n] /\ Ended.link \in Links
        /\ m' = parent.link /\ parent.link \in Links
    BY <1>1, PoppedStack DEF Poppable
  <1>4. Shape(Bar', loopbackStack', content', currentExprDropped')
    BY <1>3, NextFrames DEF Alive
  <1>5. n - 1 \in 1 .. n - 1 /\ n \in 1 .. n /\ \A i \in 1 .. n - 1 : i \in 1 .. n
    BY <1>2, <1>3
  <1>6. c \in Seq(Tokens) /\ content[Ended.link] \in Seq(Tokens)
    BY <1>2, <1>3
  <1>7. content'[parent.link] = c \o toks
        /\ \A i \in 1 .. n - 2 : content'[loopbackStack[i].link] = content[loopbackStack[i].link]
    <2> DEFINE cleared == [content EXCEPT ![Ended.link] = <<>>]
    <2>1. content' = [cleared EXCEPT ![parent.link] = cleared[parent.link] \o toks]
      BY <1>3 DEF Deliver
    <2>2. parent.link # Ended.link /\ cleared \in [Links -> Seq(Tokens)] /\ cleared[parent.link] = c
      BY <1>2, <1>3, <1>5
    <2>3. \A i \in 1 .. n - 2 : /\ loopbackStack[i].link \in Links
                                /\ loopbackStack[i].link # Ended.link
                                /\ loopbackStack[i].link # parent.link
      <3>1. \A i \in 1 .. n - 2 : i \in 1 .. n - 1 /\ i \in 1 .. n /\ i # n - 1 /\ n - 1 \in 1 .. n
        BY <1>2, <1>3
      <3> QED
        BY <1>1, <1>3, <3>1, ApartLinks
    <2> QED
      BY <1>2, <1>3, <2>1, <2>2, <2>3
  <1>8. /\ Bar \in Seq(FrameSet) /\ Len(Bar) = n /\ Bar' \in Seq(FrameSet) /\ Len(Bar') = n - 1
    BY <1>1, <1>2, <1>3, <1>4 DEF Shape
  <1>9. /\ Below \in Seq(FrameSet) /\ Len(Below) = n - 1
        /\ \A i \in 1 .. n - 1 : Below[i] = Bar[i]
    <2>1. n - 1 \in 0 .. n
      BY <1>2
    <2> QED
      BY <1>8, <2>1, FirstPart DEF Below
  <1>10. \A i \in 1 .. n : Bar[i] = FrameOf(loopbackStack[i].head, content[loopbackStack[i].link])
                             /\ Bar[i].dropped = FALSE
    BY <1>2 DEF Shape
  <1>11. Bar'[n-1] = x
    <2>1. Bar'[n-1] = FrameOf(loopbackStack'[n-1].head, content'[loopbackStack'[n-1].link])
      BY <1>3, <1>4, <1>5 DEF Shape
    <2> QED
      BY <1>3, <1>5, <1>7, <2>1
  <1>12. ASSUME NEW i \in 1 .. Len(Below), i # n - 1 PROVE Bar'[i] = Below[i]
    <2>1. i \in 1 .. n - 1 /\ i \in 1 .. n - 2
      BY <1>2, <1>9, <1>12
    <2>2. Bar'[i] = FrameOf(loopbackStack'[i].head, content'[loopbackStack'[i].link])
      BY <1>3, <1>4, <2>1 DEF Shape
    <2>3. Bar'[i] = FrameOf(loopbackStack[i].head, content[loopbackStack[i].link])
      BY <1>3, <1>7, <2>1, <2>2
    <2> QED
      BY <1>5, <1>9, <1>10, <2>1, <2>3
  <1>13. Bar' = [Below EXCEPT ![n-1] = x]
    <2> DEFINE k == n - 1
    <2>1. k \in 1 .. Len(Below) => Bar'[k] = x
      BY <1>11
    <2>2. \A i \in 1 .. Len(Below) : i # k => Bar'[i] = Below[i]
      BY <1>12
    <2>3. Len(Bar') = Len(Below) /\ Bar' \in Seq(FrameSet) /\ Below \in Seq(FrameSet)
      BY <1>8, <1>9
    <2> HIDE DEF k, x
    <2>4. Bar' = [Below EXCEPT ![k] = x]
      BY <2>1, <2>2, <2>3, OnePlace
    <2> QED
      BY <2>4 DEF k
  <1>14. Len(Bar) - 1 = n - 1
    BY <1>8
  <1>15. Below[n-1] = FrameOf(parent.head, c)
    BY <1>5, <1>9, <1>10
  <1>16. Len(Bar) > 1 /\ ~ Bar[Len(Bar)].dropped
         /\ Bar[Len(Bar)] = FrameOf(Ended.head, content[Ended.link])
    BY <1>2, <1>3, <1>5, <1>8, <1>10
  <1> QED
    BY <1>6, <1>13, <1>14, <1>15, <1>16

\* A finished expression, on its link.
LEMMA FinishedOf ==
  ASSUME NEW h, NEW s
  PROVE  Expressions!Finished(FrameOf(h, s)) = <<Token(h, Count(s))>> \o SubSeq(s, 1, Whole(s))
  <1> DEFINE f == FrameOf(h, s)
  <1>1. f.head = h /\ f.n = Count(s) /\ f.done = SubSeq(s, 1, Whole(s))
    BY DEF FrameOf
  <1> HIDE DEF f
  <1>2. Expressions!Finished(f) = <<[head |-> f.head, argc |-> f.n]>> \o f.done
    BY DEF Expressions!Finished
  <1> QED
    BY <1>1, <1>2 DEF f, Token

\* What EndExpr sends when it has counted the arguments up to k: one expression.
LEMMA EndedSegment ==
  ASSUME IInv, Poppable, NEW k \in Ends(content[Ended.link]) \cup {0}
  PROVE  LET args == SubSeq(content[Ended.link], 1, k)
         IN  /\ content[Ended.link] \in Seq(Tokens) /\ Ended.head \in Heads
             /\ args \in Seq(Tokens) /\ Len(args) = k /\ k \in Nat /\ Whole(args) = k
             /\ EndedUpTo(k) = <<Token(Ended.head, Count(args))>> \o args
             /\ EndedUpTo(k) \in Seq(Tokens) /\ Len(EndedUpTo(k)) = k + 1
             /\ Segment(EndedUpTo(k), 0)
             /\ k = Complete => EndedUpTo(k) =
                  Expressions!Finished(FrameOf(Ended.head, content[Ended.link]))
  <1> DEFINE c == content[Ended.link]  args == SubSeq(c, 1, k)
  <1>1. c \in Seq(Tokens) /\ Ended.head \in Heads
    BY PoppedStack DEF IInv, TypeOK
  <1>2. /\ args \in Seq(Tokens) /\ Len(args) = k /\ Whole(args) = k /\ k \in 0 .. Len(c)
        /\ k = Whole(c) => Count(args) = Count(c)
    BY <1>1, PrefixEnds
  <1>3. EndedUpTo(k) = <<Token(Ended.head, Count(args))>> \o args
    BY DEF EndedUpTo
  <1>4. EndedUpTo(k) \in Seq(Tokens) /\ Segment(EndedUpTo(k), 0)
    <2>1. EndedUpTo(k) \in Seq(Tokens)
      BY <1>2, EndedTokens
    <2> HIDE DEF args
    <2> QED
      BY <1>1, <1>2, <1>3, <2>1, ExpressionSegment
  <1>5. Len(EndedUpTo(k)) = k + 1 /\ k \in Nat
    <2> DEFINE one == <<Token(Ended.head, Count(args))>>
    <2>1. Count(args) \in Nat
      BY <1>2, EndsInside
    <2>2. one \in Seq(Tokens) /\ Len(one) = 1
      BY <1>1, <2>1 DEF Token, Tokens
    <2>3. Len(c) \in Nat
      BY <1>1
    <2> HIDE DEF one, args
    <2>4. Len(one \o args) = Len(one) + Len(args)
      BY <1>2, <2>2, ConcatProperties
    <2> QED
      BY <1>2, <1>3, <2>2, <2>3, <2>4 DEF one
  <1>6. ASSUME k = Complete
        PROVE  EndedUpTo(k) = Expressions!Finished(FrameOf(Ended.head, c))
    <2>1. k = Whole(c)
      BY <1>6 DEF Complete
    <2>2. Expressions!Finished(FrameOf(Ended.head, c)) = <<Token(Ended.head, Count(c))>> \o args
      BY <2>1, FinishedOf
    <2> HIDE DEF c, args
    <2> QED
      BY <1>2, <1>3, <2>1, <2>2
  <1> HIDE DEF c, args
  <1>7. /\ c \in Seq(Tokens) /\ Ended.head \in Heads
        /\ args \in Seq(Tokens) /\ Len(args) = k /\ k \in Nat /\ Whole(args) = k
        /\ EndedUpTo(k) = <<Token(Ended.head, Count(args))>> \o args
        /\ EndedUpTo(k) \in Seq(Tokens) /\ Len(EndedUpTo(k)) = k + 1
        /\ Segment(EndedUpTo(k), 0)
        /\ k = Complete => EndedUpTo(k) = Expressions!Finished(FrameOf(Ended.head, c))
    BY <1>1, <1>2, <1>3, <1>4, <1>5, <1>6
  <1> QED
    BY <1>7 DEF c, args

LEMMA CompleteEnds ==
  ASSUME IInv, Poppable
  PROVE  Complete \in Ends(content[Ended.link]) \cup {0}
  <1>1. content[Ended.link] \in Seq(Tokens)
    BY PoppedStack DEF IInv, TypeOK
  <1> QED
    BY <1>1, EndsInside DEF Complete

\* The whole expression arrives at the parent.
LEMMA EndSimulates ==
  ASSUME IInv, IInv', NEW helper \in Loopbacks, EndExpr(helper)
  PROVE  Expressions!End
  <1> DEFINE k == Len(loopbackStack) - 1
             hd == loopbackStack[k].head  c == content[loopbackStack[k].link]
             e == EndedUpTo(Complete)  last == FrameOf(Ended.head, content[Ended.link])
  <1>1. EndPops /\ Poppable /\ Deliver(e) /\ failures' = failures
    BY DEF EndExpr, EndPops
  <1>2. e \in Seq(Tokens) /\ Segment(e, 0) /\ e = Expressions!Finished(last)
    BY <1>1, CompleteEnds, EndedSegment
  <1> HIDE DEF e
  <1>3. /\ Len(Bar) > 1 /\ ~ Bar[Len(Bar)].dropped
        /\ Bar[Len(Bar)] = last
        /\ c \in Seq(Tokens)
        /\ Len(Bar) - 1 = k
        /\ Below[k] = FrameOf(hd, c)
        /\ Bar' = [Below EXCEPT ![k] = FrameOf(hd, c \o e)]
    BY <1>1, <1>2, Delivered
  <1> HIDE DEF k, hd, c, last
  <1>4. FrameOf(hd, c \o e) = Expressions!Arrive(FrameOf(hd, c), e, 0)
    BY <1>2, <1>3, DeepAll, FrameArrives
  <1>5. Bar' = [Below EXCEPT ![k] =
                  Expressions!Arrive(Below[k], Expressions!Finished(Bar[Len(Bar)]), 0)]
    BY <1>2, <1>3, <1>4, Zenon
  <1> QED
    BY <1>1, <1>3, <1>5, AbstractEnd DEF Below

\* A part of the expression arrives at the parent: the transfer stopped there.
LEMMA EndFailsSimulates ==
  ASSUME IInv, IInv', EndPops, NEW j \in 0 .. Complete + 1,
         Deliver(SubSeq(EndedUpTo(Complete), 1, j)), failures' = failures + 1
  PROVE  Expressions!EndFails
  <1> DEFINE k == Len(loopbackStack) - 1
             hd == loopbackStack[k].head  c == content[loopbackStack[k].link]
             e == EndedUpTo(Complete)  last == FrameOf(Ended.head, content[Ended.link])
             part == SubSeq(e, 1, j)
  <1>1. Poppable /\ Deliver(part)
    BY DEF EndPops
  <1>2. e \in Seq(Tokens) /\ e = Expressions!Finished(last) /\ j \in 0 .. Len(e)
    BY <1>1, CompleteEnds, EndedSegment
  <1> HIDE DEF e
  <1>3. part \in Seq(Tokens)
    BY <1>2, FirstPart
  <1>4. part = SubSeq(Expressions!Finished(last), 1, j) /\ j \in 0 .. Len(Expressions!Finished(last))
    BY <1>2
  <1> HIDE DEF part
  <1>5. /\ Len(Bar) > 1 /\ ~ Bar[Len(Bar)].dropped
        /\ Bar[Len(Bar)] = last
        /\ c \in Seq(Tokens)
        /\ Len(Bar) - 1 = k
        /\ Below[k] = FrameOf(hd, c)
        /\ Bar' = [Below EXCEPT ![k] = FrameOf(hd, c \o part)]
    BY <1>1, <1>3, Delivered
  <1> HIDE DEF k, hd, c, last
  <1>6. FrameOf(hd, c \o part) = Expressions!TakeAll(FrameOf(hd, c), part)
    BY <1>3, <1>5, FrameTakesAll
  <1>7. Bar' = [Below EXCEPT ![k] = Expressions!TakeAll(Below[k],
                  SubSeq(Expressions!Finished(Bar[Len(Bar)]), 1, j))]
    BY <1>4, <1>5, <1>6, Zenon
  <1>8. j \in 0 .. Len(Expressions!Finished(Bar[Len(Bar)]))
    BY <1>4, <1>5
  <1> QED
    BY <1>5, <1>7, <1>8, AbstractEndFails, ZenonT(30) DEF Below

\* The expression arrives with its first arguments only: the count stopped there.
LEMMA EndShortSimulates ==
  ASSUME IInv, IInv', NEW helper \in Loopbacks, EndMiscounts(helper)
  PROVE  Expressions!EndShort
  <1> DEFINE k == Len(loopbackStack) - 1
             hd == loopbackStack[k].head  c == content[loopbackStack[k].link]
             mine == content[Ended.link]  last == FrameOf(Ended.head, mine)
  <1>1. EndPops /\ Poppable /\ failures' = failures + 1
    BY DEF EndMiscounts, EndPops, Fails
  <1>2. PICK j \in Ends(mine) \cup {0} : Deliver(EndedUpTo(j))
    BY DEF EndMiscounts
  <1> DEFINE args == SubSeq(mine, 1, j)  e == EndedUpTo(j)  short == FrameOf(Ended.head, args)
  <1>3. /\ mine \in Seq(Tokens) /\ args \in Seq(Tokens) /\ Len(args) = j /\ Whole(args) = j
        /\ e = <<Token(Ended.head, Count(args))>> \o args
        /\ e \in Seq(Tokens) /\ Segment(e, 0) /\ Deliver(e)
    BY <1>1, <1>2, EndedSegment
  <1>4. last.head = Ended.head /\ last.done = SubSeq(mine, 1, Whole(mine))
    BY DEF FrameOf
  <1>5. /\ j \in 0 .. Whole(mine) /\ Whole(mine) \in 0 .. Len(mine) /\ Len(mine) \in Nat
        /\ Len(last.done) = Whole(mine)
    <2>1. Whole(mine) \in 0 .. Len(mine) /\ j \in 0 .. Whole(mine)
      BY <1>3, EndsInside, PrefixEnds
    <2> QED
      BY <1>3, <1>4, <2>1, FirstPart
  <1>6. SubSeq(last.done, 1, j) = args
    <2> DEFINE W == Whole(mine)
    <2>1. /\ last.done \in Seq(Tokens) /\ \A i \in 1 .. W : last.done[i] = mine[i]
      BY <1>3, <1>4, <1>5, FirstPart
    <2>2. j \in 0 .. Len(last.done) /\ j \in 0 .. Len(mine) /\ \A i \in 1 .. j : i \in 1 .. W
      BY <1>5
    <2> HIDE DEF W
    <2>3. /\ SubSeq(last.done, 1, j) \in Seq(Tokens) /\ Len(SubSeq(last.done, 1, j)) = j
          /\ \A i \in 1 .. j : SubSeq(last.done, 1, j)[i] = last.done[i]
      BY <2>1, <2>2, FirstPart
    <2>4. \A i \in 1 .. j : args[i] = mine[i]
      BY <1>3, <2>2, FirstPart
    <2>5. \A i \in 1 .. Len(args) : args[i] = SubSeq(last.done, 1, j)[i]
      BY <1>3, <2>1, <2>2, <2>3, <2>4
    <2> HIDE DEF args, last, mine
    <2> QED
      BY <1>3, <2>3, <2>5, SeqEqual
  <1>7. short.owed = 0 /\ Expressions!Finished(short) = e
    <2>1. short.owed = 0
      BY <1>3 DEF FrameOf
    <2>2. Expressions!Finished(short) = <<Token(Ended.head, Count(args))>> \o SubSeq(args, 1, Whole(args))
      BY FinishedOf
    <2>3. SubSeq(args, 1, Whole(args)) = args
      BY <1>3, SubSeqFull
    <2> QED
      BY <1>3, <2>1, <2>2, <2>3
  <1>8. short = Expressions!TakeAll(Expressions!Frame(Ended.head, FALSE), args)
    <2>1. <<>> \in Seq(Tokens) /\ <<>> \o args = args
      BY <1>3, ConcatEmptySeq
    <2>2. FrameOf(Ended.head, <<>> \o args) = Expressions!TakeAll(FrameOf(Ended.head, <<>>), args)
      BY <1>3, <2>1, FrameTakesAll
    <2>3. FrameOf(Ended.head, <<>>) = Expressions!Frame(Ended.head, FALSE)
      BY NewFrame
    <2> QED
      BY <2>1, <2>2, <2>3
  <1> HIDE DEF args, e, short
  <1>9. /\ Len(Bar) > 1 /\ ~ Bar[Len(Bar)].dropped
        /\ Bar[Len(Bar)] = last
        /\ c \in Seq(Tokens)
        /\ Len(Bar) - 1 = k
        /\ Below[k] = FrameOf(hd, c)
        /\ Bar' = [Below EXCEPT ![k] = FrameOf(hd, c \o e)]
    BY <1>1, <1>3, Delivered
  <1> HIDE DEF k, hd, c, last, mine
  <1>10. FrameOf(hd, c \o e) = Expressions!Arrive(FrameOf(hd, c), e, 0)
    BY <1>3, <1>9, DeepAll, FrameArrives
  <1>11. /\ j \in 0 .. Len(Bar[Len(Bar)].done)
         /\ short = Expressions!TakeAll(Expressions!Frame(Bar[Len(Bar)].head, FALSE),
                                        SubSeq(Bar[Len(Bar)].done, 1, j))
    BY <1>4, <1>5, <1>6, <1>8, <1>9
  <1>12. Bar' = [Below EXCEPT ![k] = Expressions!Arrive(Below[k], Expressions!Finished(short), 0)]
    BY <1>7, <1>9, <1>10, Zenon
  <1>13. /\ Below = SubSeq(Bar, 1, Len(Bar) - 1) /\ k = Len(Bar) - 1
         /\ short.owed = 0
    BY <1>7, <1>9 DEF Below
  <1> HIDE DEF Below
  <1>14. Len(Bar) > 1 /\ ~ Bar[Len(Bar)].dropped /\ failures' = failures + 1
    BY <1>1, <1>9
  <1> QED
    BY <1>11, <1>12, <1>13, <1>14, AbstractEndShort, Zenon

-----------------------------------------------------------------------------
(* The refinement.                                                         *)

\* Between two streams nothing is left to read on any link.
IdleEmpty == ~ Alive => \A l \in Links : content[l] = <<>>

LEMMA IdleStep ==
  ASSUME IInv, IdleEmpty, [Next]_vars
  PROVE  IdleEmpty'
  <1>1. CASE Construct
    BY <1>1 DEF Construct, IdleEmpty, Alive
  <1>2. CASE Destroy
    BY <1>2 DEF Destroy, IdleEmpty
  <1>3. CASE loopbackStack' = loopbackStack /\ (Alive \/ content' = content)
    BY <1>3 DEF IdleEmpty, Alive
  <1>4. CASE Poppable /\ loopbackStack' = Pop(loopbackStack)
    BY <1>4, PoppedStack DEF IdleEmpty, Alive
  <1>5. ASSUME NEW h \in Heads, NEW l \in Loopbacks, BeginExpr(h, l) PROVE IdleEmpty'
    <2>1. loopbackStack \in Seq(LoopbackData) /\ [head |-> h, link |-> l] \in LoopbackData
      BY DEF IInv, TypeOK, LoopbackData, Links
    <2>2. loopbackStack' # <<>>
      BY <1>5, <2>1, TopOfAppend DEF BeginExpr
    <2> QED
      BY <2>2 DEF IdleEmpty, Alive
  <1> QED
    BY <1>1, <1>2, <1>3, <1>4, <1>5
    DEF Next, vars, stream, Put, PutFails, BeginFails, DropExpr, DropTooEarly, EndDropped,
        EndTooEarly, EndExpr, EndMiscounts, EndFailsToSend, EndFailsToCount, EndPops

\* A step of the stream is a step of the expressions, or none that they show.
LEMMA StepSimulates ==
  ASSUME IInv, IInv', IdleEmpty, [Next]_vars
  PROVE  Expressions!Next \/ (Bar' = Bar /\ failures' = failures)
  <1>1. CASE Construct
    <2>1. /\ ~ Alive /\ loopbackStack = <<>> /\ failures' = failures
          /\ loopbackStack' = <<[head |-> NoHead, link |-> Main]>>
          /\ currentExprDropped' = FALSE /\ content'[Main] = <<>> /\ Main \in Links
      BY <1>1 DEF Construct, Alive, IdleEmpty, Links
    <2>2. Bar = <<>>
      BY <2>1 DEF Bar, DroppedFrames
    <2>3. /\ Shape(Bar', loopbackStack', content', currentExprDropped')
          /\ Len(loopbackStack') = 1 /\ 1 \in 1 .. 1
          /\ loopbackStack'[1].head = NoHead /\ loopbackStack'[1].link = Main
      BY <2>1, NextFrames DEF Alive
    <2>4. Bar' \in Seq(FrameSet) /\ Len(Bar') = 1 /\ Bar'[1] = FrameOf(NoHead, <<>>)
      BY <2>1, <2>3 DEF Shape
    <2>5. Bar' = <<Expressions!Frame(NoHead, FALSE)>>
      <3> DEFINE x == FrameOf(NoHead, <<>>)
      <3>1. x \in FrameSet
        BY <2>4, ElementOfSeq
      <3> HIDE DEF x
      <3>2. <<x>> \in Seq(FrameSet) /\ Len(<<x>>) = 1 /\ <<x>>[1] = x
        BY <3>1
      <3>3. \A i \in 1 .. Len(Bar') : Bar'[i] = <<x>>[i]
        BY <2>4, <3>2 DEF x
      <3>4. Bar' = <<x>>
        BY <2>4, <3>2, <3>3, SeqEqual
      <3> QED
        BY <3>4, NewFrame DEF x
    <2>6. Expressions!Open
      BY <2>1, <2>2, <2>5, AbstractOpen
    <2> QED
      BY <2>6 DEF Expressions!Next
  <1>2. CASE Destroy
    <2>1. Alive /\ Bar # <<>> /\ loopbackStack' = <<>> /\ failures' = failures
      BY <1>2, LiveFrames DEF Destroy
    <2>2. Bar' = <<>>
      BY <2>1 DEF Bar, DroppedFrames, Alive
    <2>3. Expressions!Close
      BY <2>1, <2>2, AbstractClose
    <2> QED
      BY <2>3 DEF Expressions!Next
  <1>3. ASSUME NEW h \in Heads, NEW a \in Arities, Put(Token(h, a)) PROVE Expressions!Next
    BY <1>3, PutSimulates DEF Expressions!Next
  <1>4. CASE PutFails \/ BeginFails
    <2>1. ASSUME PutFails PROVE Expressions!Fail
      <3>1. UNCHANGED <<loopbackStack, content, currentExprDropped>> /\ failures' = failures + 1
        BY <2>1 DEF PutFails, Fails, stream
      <3> QED
        BY <3>1, SameBar, AbstractFail
    <2>2. Expressions!Fail
      BY <1>4, <2>1, BeginFailsSimulates
    <2> QED
      BY <2>2 DEF Expressions!Next
  <1>5. ASSUME NEW h \in Heads, NEW l \in Loopbacks, BeginExpr(h, l) PROVE Expressions!Next
    BY <1>5, BeginSimulates DEF Expressions!Next
  <1>6. CASE DropExpr
    BY <1>6, DropSimulates DEF Expressions!Next
  <1>7. CASE UNCHANGED vars \/ DropTooEarly \/ EndTooEarly
    BY <1>7, SameBar DEF vars, stream, DropTooEarly, EndTooEarly
  <1>8. CASE EndDropped
    BY <1>8, EndDroppedSimulates DEF Expressions!Next
  <1>9. ASSUME NEW helper \in Loopbacks, EndExpr(helper) PROVE Expressions!Next
    BY <1>9, EndSimulates DEF Expressions!Next
  <1>10. ASSUME NEW helper \in Loopbacks, EndMiscounts(helper) PROVE Expressions!Next
    BY <1>10, EndShortSimulates DEF Expressions!Next
  <1>11. ASSUME NEW helper \in Loopbacks, EndFailsToSend(helper) PROVE Expressions!Next
    <2>1. Expressions!EndFails
      BY <1>11, EndFailsSimulates DEF EndFailsToSend, Fails
    <2> QED
      BY <2>1 DEF Expressions!Next
  <1>12. CASE EndFailsToCount
    <2>1. EndPops /\ Poppable /\ failures' = failures + 1 /\ Deliver(<<>>)
      BY <1>12 DEF EndFailsToCount, EndPops, Fails
    <2>2. Complete \in Nat
      BY <2>1, CompleteEnds, EndedSegment
    <2>3. SubSeq(EndedUpTo(Complete), 1, 0) = <<>> /\ 0 \in 0 .. Complete + 1
      BY <2>2, SubSeqEmpty
    <2>4. Expressions!EndFails
      BY <2>1, <2>3, EndFailsSimulates
    <2> QED
      BY <2>4 DEF Expressions!Next
  <1> QED
    BY <1>1, <1>2, <1>3, <1>4, <1>5, <1>6, <1>7, <1>8, <1>9, <1>10, <1>11, <1>12 DEF Next

\* For any caller, the stack of links, the one flag and the links' contents do
\* what OpenExpressions promises: an expression arrives complete at the one
\* around it, with its arguments counted right, a dropped one leaves no trace,
\* and a failing EndExpr leaves a first part of its expression.
THEOREM StreamDelivers == Spec => DeliversExpressions
  <1>1. Init => IdleEmpty
    BY DEF Init, IdleEmpty
  <1>2. IInv /\ IdleEmpty /\ [Next]_vars => IdleEmpty'
    BY IdleStep
  <1>3. Init => Expressions!Init
    BY DEF Init, Expressions!Init, DroppedFrames, Alive
  <1>4. IInv /\ IInv' /\ IdleEmpty /\ [Next]_vars
          => [Expressions!Next]_<<[i \in DOMAIN loopbackStack |-> FrameOn(loopbackStack[i])]
                                    \o DroppedFrames, failures>>
    BY StepSimulates DEF Bar
  <1> QED
    BY <1>1, <1>2, <1>3, <1>4, InitInv, NextInv, PTL
    DEF Spec, DeliversExpressions, Expressions!Spec
-----------------------------------------------------------------------------
(* The buffers of typed data.                                              *)

\* Every type gives its buffers back with the function that belongs to the one
\* that handed them out.
LEMMA TablesAgree == \A t : ReleasedAs(t) = Kind(t)
  BY DEF ReleasedAs, Kind, ReleaseWire, GetWire

BuffersInv ==
  /\ var.type \in Read
  /\ owns \in BOOLEAN
  /\ handed \in [Kinds -> Int]
  /\ owns => Kind(var.type) # <<>>
  /\ BuffersOwned

\* A variable goes out of scope, or another one takes its place.
LEMMA LetGoKeeps ==
  ASSUME BuffersInv, LetGo, var'.type \in Read
  PROVE  BuffersInv'
  <1> DEFINE k == Kind(var.type)
  <1>1. k \in Kinds /\ ReleasedAs(var.type) = k
    BY TablesAgree DEF Kinds, BuffersInv
  <1>2. handed \in [Kinds -> Int] /\ \A b \in Kinds : handed[b] = IF owns /\ k = b THEN 1 ELSE 0
    BY DEF BuffersInv, BuffersOwned
  <1>3. handed' = IF owns THEN [handed EXCEPT ![k] = @ - 1] ELSE handed
    BY <1>1 DEF LetGo, GiveBack
  <1> HIDE DEF k
  <1>4. handed' \in [Kinds -> Int] /\ \A b \in Kinds : handed'[b] = 0
    BY <1>1, <1>2, <1>3
  <1>5. owns' = FALSE
    BY DEF LetGo
  <1>6. Kinds' = Kinds
    BY DEF Kinds
  <1> QED
    BY <1>4, <1>5, <1>6 DEF BuffersInv, BuffersOwned

\* A read replaces the buffer the variable owned, if it did, by a new one.
LEMMA TakeOverKeeps ==
  ASSUME BuffersInv, TakeOver, var'.type = var.type
  PROVE  BuffersInv'
  <1> DEFINE k == Kind(var.type)
  <1>1. k \in Kinds /\ ReleasedAs(var.type) = k
    BY TablesAgree DEF Kinds, BuffersInv
  <1>2. handed \in [Kinds -> Int] /\ \A b \in Kinds : handed[b] = IF owns /\ k = b THEN 1 ELSE 0
    BY DEF BuffersInv, BuffersOwned
  <1>3. handed' = IF owns THEN [[handed EXCEPT ![k] = @ + 1] EXCEPT ![k] = @ - 1]
                  ELSE [handed EXCEPT ![k] = @ + 1]
    BY <1>1 DEF TakeOver, GiveBack, Take
  <1>4. k # <<>> /\ owns' = TRUE
    BY DEF TakeOver
  <1>5. Kinds' = Kinds /\ Kind(var'.type) = k
    BY DEF Kinds
  <1>6. var'.type \in Read
    BY DEF BuffersInv
  <1> HIDE DEF k
  <1>7. handed' \in [Kinds -> Int] /\ \A b \in Kinds : handed'[b] = IF k = b THEN 1 ELSE 0
    BY <1>1, <1>2, <1>3
  <1> QED
    BY <1>4, <1>5, <1>6, <1>7 DEF BuffersInv, BuffersOwned

\* WSTP has handed out exactly the buffer that the variable owns, whatever is
\* read, fails to be read, is read again or is declared anew: none leaks, and
\* none is given back twice or with the function for another type.
THEOREM BuffersBalanced == BuffersSpec => []BuffersOwned
  <1>1. ASSUME BuffersInit, var.type \in Read PROVE BuffersInv
    <2>1. owns = FALSE /\ handed \in [Kinds -> Int]
      BY <1>1 DEF BuffersInit
    <2>2. \A b \in Kinds : handed[b] = 0
      BY <1>1 DEF BuffersInit
    <2> QED
      BY <1>1, <2>1, <2>2 DEF BuffersInv, BuffersOwned
  <1>2. BuffersInv /\ [BuffersNext]_<<var, owns, handed>> => BuffersInv'
    <2> SUFFICES ASSUME BuffersInv, [BuffersNext]_<<var, owns, handed>>
                 PROVE  BuffersInv'
      OBVIOUS
    <2>1. CASE LetGo /\ var'.type \in Read
      BY <2>1, LetGoKeeps
    <2>2. CASE TakeOver /\ var'.type = var.type
      BY <2>2, TakeOverKeeps
    <2>3. CASE UNCHANGED <<owns, handed>> /\ var'.type = var.type
      BY <2>3 DEF BuffersInv, BuffersOwned, Kinds
    <2>4. CASE UNCHANGED <<var, owns, handed>>
      BY <2>4 DEF BuffersInv, BuffersOwned, Kinds
    <2> QED
      BY <2>1, <2>2, <2>3, <2>4 DEF BuffersNext
  <1>3. BuffersInv => BuffersOwned
    BY DEF BuffersInv
  <1> QED
    BY <1>1, <1>2, <1>3, PTL DEF BuffersSpec
=============================================================================
