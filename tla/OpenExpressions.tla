-------------------------- MODULE OpenExpressions --------------------------
(***************************************************************************)
(* What WSStream promises to code that sends expressions whose length it   *)
(* does not know: BeginExpr opens an expression inside the current one,    *)
(* what is put next becomes its arguments, EndExpr hands it complete, with *)
(* the right number of arguments, to the expression around it, DropExpr    *)
(* makes it vanish without a trace there and leaves its EndExpr without    *)
(* effect.  Only the last drop is remembered, and only until the next      *)
(* BeginExpr, DropExpr or EndExpr: what is sent in place of a dropped      *)
(* expression has to be plain, or the EndExpr of the dropped one ends the  *)
(* expression around it.  Nothing here knows of links or of the flag.      *)
(***************************************************************************)
EXTENDS Naturals, SequencesExt

CONSTANTS Heads,      \* heads of expressions
          Arities,    \* the argument counts put explicitly, 0 for an atom
          NoHead      \* the head of a dropped expression, and of the answer

VARIABLES
    frames,     \* the answer to the kernel, then the open expressions
    failures    \* how many WSTP calls have failed

Tokens == [head : Heads, argc : Nat]

(***************************************************************************)
(* An open expression: its complete arguments and their number, then the   *)
(* start of one more argument that still lacks owed expressions.           *)
(***************************************************************************)
Expression(h, dropped, done, n, tail, owed) ==
    [head |-> h, dropped |-> dropped, done |-> done, n |-> n, tail |-> tail, owed |-> owed]

Frame(h, dropped) == Expression(h, dropped, <<>>, 0, <<>>, 0)
Answer  == Frame(NoHead, FALSE)
Dropped == Frame(NoHead, TRUE)

\* Tokens that still lack argc expressions arrive in frame f.
Arrive(f, toks, argc) ==
    LET owed == (IF f.owed = 0 THEN 0 ELSE f.owed - 1) + argc
    IN  IF owed = 0
        THEN Expression(f.head, f.dropped, f.done \o f.tail \o toks, f.n + 1, <<>>, 0)
        ELSE Expression(f.head, f.dropped, f.done, f.n, f.tail \o toks, owed)

Take(f, tok) == Arrive(f, <<tok>>, tok.argc)

\* Tokens that arrive one after the other.
TakeAll(f, toks) ==
    LET taken[k \in 0 .. Len(toks)] == IF k = 0 THEN f ELSE Take(taken[k-1], toks[k])
    IN  taken[Len(toks)]

\* A finished expression; an argument that never became complete is left out.
Finished(f) == <<[head |-> f.head, argc |-> f.n]>> \o f.done

\* The answer and the open expressions, without the memory of a drop.
Kept(fs) == IF fs # <<>> /\ Last(fs).dropped THEN Front(fs) ELSE fs

\* What is put goes to the innermost expression that has not been dropped.
Current(fs) == Len(Kept(fs))

-----------------------------------------------------------------------------
Init == frames = <<>> /\ failures = 0

Open ==
    /\ UNCHANGED failures
    /\ frames = <<>>
    /\ frames' = <<Answer>>

Close ==
    /\ UNCHANGED failures
    /\ frames # <<>>
    /\ frames' = <<>>

Put ==
    /\ UNCHANGED failures
    /\ frames # <<>>
    /\ frames' \in {[frames EXCEPT ![Current(frames)] = Take(@, tok)] :
                      tok \in [head : Heads, argc : Arities]}

Begin ==
    /\ UNCHANGED failures
    /\ frames # <<>>
    /\ frames' \in {Append(Kept(frames), Frame(h, FALSE)) : h \in Heads}

Drop ==
    /\ UNCHANGED failures
    /\ Current(frames) > 1
    /\ frames' = Append(Front(Kept(frames)), Dropped)

EndDropped ==
    /\ UNCHANGED failures
    /\ Len(frames) > 1
    /\ Last(frames).dropped
    /\ frames' = Front(frames)

End ==
    /\ UNCHANGED failures
    /\ Len(frames) > 1
    /\ ~ Last(frames).dropped
    /\ frames' = [Front(frames) EXCEPT ![Len(frames) - 1] =
                    Arrive(@, Finished(Last(frames)), 0)]

\* A failed call without a trace; that of BeginExpr also forgets a drop.
Fail == failures' = failures + 1 /\ frames' \in {frames, Kept(frames)}

\* After an exception some first part of the expression has been handed over.
EndFails ==
    /\ failures' = failures + 1
    /\ Len(frames) > 1
    /\ ~ Last(frames).dropped
    /\ frames' \in {[Front(frames) EXCEPT ![Len(frames) - 1] = TakeAll(@, part)] :
                      part \in Prefixes(Finished(Last(frames)))}

\* Arguments lost without an exception, which Utilities.cpp:65 does not throw
\* where wstp.rst:26 has it that all WSTP calls do: only the first ones arrive.
EndShort ==
    /\ failures' = failures + 1
    /\ Len(frames) > 1
    /\ ~ Last(frames).dropped
    /\ \E args \in Prefixes(Last(frames).done) :
         LET short == TakeAll(Frame(Last(frames).head, FALSE), args)
         IN  /\ short.owed = 0
             /\ frames' = [Front(frames) EXCEPT ![Len(frames) - 1] =
                             Arrive(@, Finished(short), 0)]

Next == Open \/ Close \/ Put \/ Begin \/ Drop \/ EndDropped \/ End \/ EndFails
        \/ EndShort \/ Fail

Spec == Init /\ [][Next]_<<frames, failures>>
=============================================================================
