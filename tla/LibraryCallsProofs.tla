--------------------------- MODULE LibraryCallsProofs ---------------------------
(***************************************************************************)
(* Proofs about LibraryCalls for any ids, instances, arguments and depth   *)
(* of nested calls: the store matches the kernel, a string result is its   *)
(* call's own unless a nested call took the buffer, and, for careful       *)
(* functions, what they hold is alive.                                     *)
(***************************************************************************)
EXTENDS LibraryCalls, TLAPS

-----------------------------------------------------------------------------
(* The invariant.                                                          *)

\* What is true of the call f for store s and kernel k.  For careful
\* functions: plain references are the innermost call's, while it runs, and
\* name what the store holds.
References(f, s) ==
    \A r \in f.held : IF r.via = "pointer" THEN r.owns
                      ELSE r.id \in DOMAIN s /\ s[r.id] = r.obj /\ r.id # f.making

Waits(f) == f.mode = "evaluate" => \A r \in f.held : r.via = "pointer"

Sound(f, s, k) ==
    /\ f.making # NoId => k[f.making] # "new"
    /\ Careful => References(f, s) /\ Waits(f)

IInv == /\ TypeOK /\ StoreMatchesKernel
        /\ \A d \in 1 .. Depth : Sound(calls[d], store, kernel)

\* Of all calls with a string, those that are not overtaken have the buffer.
OwnInv == \A d \in 1 .. Depth : calls[d].res = "string" => (buffer = d <=> d \notin overtaken)

-----------------------------------------------------------------------------
(* The stack of calls.                                                     *)

LEMMA Types ==
    ASSUME TypeOK
    PROVE  /\ calls \in Seq(Frames) /\ Depth \in Nat /\ Depth <= MaxDepth /\ DOMAIN calls = 1 .. Depth
           /\ \A d \in 1 .. Depth : calls[d] \in Frames
           /\ \A d \in 1 .. Depth : d < Depth => calls[d].mode = "evaluate"
           /\ calls # <<>> => Depth \in 1 .. Depth /\ Top = calls[Depth] /\ Top \in Frames
           /\ MaxDepth \in Nat
<1>1. calls \in Seq(Frames) /\ Depth \in Nat /\ Depth <= MaxDepth /\ DOMAIN calls = 1 .. Depth
  BY DEF TypeOK, Depth
<1>2. \A d \in 1 .. Depth : calls[d] \in Frames
  BY <1>1
<1>3. calls # <<>> => Depth \in 1 .. Depth /\ Top = calls[Depth]
  BY <1>1 DEF Top, Last, Depth
<1> QED BY <1>1, <1>2, <1>3, CallsAssumption DEF TypeOK

LEMMA FrameFields ==
    ASSUME NEW f \in Frames
    PROVE  /\ f.args \in Seq(Ids \cup {Text}) /\ f.stringArgs \in SUBSET Nat
           /\ f.making \in Ids \cup {NoId} /\ f.held \in SUBSET Refs
           /\ f.res \in {"other", "string"} /\ f.mode \in {"run", "evaluate", "report"}
  BY DEF Frames

LEMMA RefFields ==
    ASSUME NEW r \in Refs
    PROVE  r.obj \in Instances /\ r.id \in Ids /\ r.via \in {"reference", "pointer"} /\ r.owns \in BOOLEAN
  BY DEF Refs

LEMMA BecomesFacts ==
    ASSUME TypeOK, calls # <<>>, NEW f \in Frames, Becomes(f)
    PROVE  /\ calls' \in Seq(Frames) /\ Len(calls') = Depth /\ calls'[Depth] = f /\ Depth \in 1 .. Depth
           /\ \A d \in 1 .. Depth : d # Depth => calls'[d] = calls[d]
<1>1. calls \in Seq(Frames) /\ Depth \in 1 .. Depth /\ Depth = Len(calls) /\ Depth \in Nat
  BY Types DEF Depth
<1>2. calls' = [calls EXCEPT ![Depth] = f]
  BY DEF Becomes
<1> HIDE DEF Depth
<1> QED BY <1>1, <1>2

LEMMA PopFacts ==
    ASSUME TypeOK, calls # <<>>, calls' = Front(calls)
    PROVE  /\ calls' \in Seq(Frames) /\ Len(calls') = Depth - 1 /\ Depth \in Nat
           /\ \A d \in 1 .. Depth - 1 : calls'[d] = calls[d] /\ d \in 1 .. Depth
  BY Types DEF Front, Depth

LEMMA AppendFacts ==
    ASSUME TypeOK, NEW f \in Frames, calls' = Append(calls, f)
    PROVE  /\ calls' \in Seq(Frames) /\ Len(calls') = Depth + 1 /\ calls'[Depth + 1] = f /\ Depth \in Nat
           /\ \A d \in 1 .. Depth : calls'[d] = calls[d]
  BY Types DEF Depth

-----------------------------------------------------------------------------
(* The calls that go on when the innermost one changes, ends or begins.    *)

\* What is left to show when calls, store and kernel change.
LEMMA StateFrame ==
    ASSUME ManagedTypeOK', StoreMatchesKernel', resurrected' \subseteq Ids,
           libData' \in BOOLEAN, aborted' \in BOOLEAN, buffer' \in 0 .. MaxDepth,
           overtaken' \subseteq 1 .. MaxDepth, calls' \in Seq(Frames), Len(calls') <= MaxDepth,
           \A d \in 1 .. Len(calls') :
             /\ calls'[d].stringArgs \subseteq {i - 1 : i \in DOMAIN calls'[d].args}
             /\ d < Len(calls') => calls'[d].mode = "evaluate"
             /\ Sound(calls'[d], store', kernel')
    PROVE  IInv'
<1>1. DOMAIN calls' = 1 .. Len(calls')
  OBVIOUS
<1> QED BY <1>1 DEF IInv, TypeOK, Depth

\* The same when the calls change and the store does not.
LEMMA InvFrame ==
    ASSUME IInv, UNCHANGED managed, libData' \in BOOLEAN, aborted' \in BOOLEAN, buffer' \in 0 .. MaxDepth,
           overtaken' \subseteq 1 .. MaxDepth, calls' \in Seq(Frames), Len(calls') <= MaxDepth,
           \A d \in 1 .. Len(calls') :
             /\ calls'[d].stringArgs \subseteq {i - 1 : i \in DOMAIN calls'[d].args}
             /\ d < Len(calls') => calls'[d].mode = "evaluate"
             /\ Sound(calls'[d], store, kernel)
    PROVE  IInv'
<1>1. ManagedTypeOK' /\ StoreMatchesKernel' /\ resurrected' \subseteq Ids
  BY DEF IInv, TypeOK, ManagedTypeOK, StoreMatchesKernel, managed, hasInstance
<1>2. UNCHANGED <<store, kernel>>
  BY DEF managed
<1> QED BY <1>1, <1>2, StateFrame

LEMMA TopChanges ==
    ASSUME IInv, calls # <<>>, NEW f \in Frames, Becomes(f),
           UNCHANGED <<managed, libData, aborted>>, buffer' \in {buffer, Depth},
           overtaken' = overtaken \/ overtaken' \subseteq 1 .. Depth,
           f.stringArgs \subseteq {i - 1 : i \in DOMAIN f.args},
           Sound(f, store, kernel)
    PROVE  IInv'
<1>1. /\ calls' \in Seq(Frames) /\ Len(calls') = Depth /\ calls'[Depth] = f /\ Depth \in 1 .. Depth
      /\ \A d \in 1 .. Depth : d # Depth => calls'[d] = calls[d]
  BY BecomesFacts DEF IInv
<1>2. Depth \in Nat /\ Depth <= MaxDepth /\ MaxDepth \in Nat /\ DOMAIN calls = 1 .. Depth
  BY Types DEF IInv
<1>3. ASSUME NEW d \in 1 .. Depth, d # Depth
      PROVE  /\ calls[d].mode = "evaluate" /\ Sound(calls[d], store, kernel)
             /\ calls[d].stringArgs \subseteq {i - 1 : i \in DOMAIN calls[d].args}
  <2>1. calls[d].mode = "evaluate" /\ Sound(calls[d], store, kernel)
    BY <1>2, <1>3, Types DEF IInv
  <2>2. calls[d].stringArgs \subseteq {i - 1 : i \in DOMAIN calls[d].args}
    BY <1>2 DEF IInv, TypeOK
  <2> QED BY <2>1, <2>2 DEF Sound, Waits
<1>4. /\ buffer' \in 0 .. MaxDepth /\ libData' \in BOOLEAN /\ aborted' \in BOOLEAN
      /\ overtaken' \subseteq 1 .. MaxDepth
  <2>1. /\ buffer \in 0 .. MaxDepth /\ libData \in BOOLEAN /\ aborted \in BOOLEAN
        /\ overtaken \subseteq 1 .. MaxDepth
    BY DEF IInv, TypeOK
  <2>2. 1 .. Depth \subseteq 1 .. MaxDepth /\ Depth \in 0 .. MaxDepth
    BY <1>1, <1>2
  <2> QED BY <2>1, <2>2
<1>5. \A d \in 1 .. Depth :
         /\ calls'[d].stringArgs \subseteq {i - 1 : i \in DOMAIN calls'[d].args}
         /\ d < Depth => calls'[d].mode = "evaluate"
         /\ Sound(calls'[d], store, kernel)
  BY <1>1, <1>3
<1> QED BY <1>1, <1>2, <1>4, <1>5, InvFrame

LEMMA PopInv ==
    ASSUME IInv, calls # <<>>, Pop, UNCHANGED <<libData, result, managed>>
    PROVE  IInv'
<1>1. /\ calls' \in Seq(Frames) /\ Len(calls') = Depth - 1 /\ Depth \in Nat
      /\ \A d \in 1 .. Depth - 1 : calls'[d] = calls[d] /\ d \in 1 .. Depth
  BY PopFacts DEF IInv, Pop
<1>2. Depth <= MaxDepth /\ MaxDepth \in Nat /\ DOMAIN calls = 1 .. Depth
  BY Types DEF IInv
<1>3. ASSUME NEW d \in 1 .. Depth - 1
      PROVE  /\ calls'[d].stringArgs \subseteq {i - 1 : i \in DOMAIN calls'[d].args}
             /\ d < Depth - 1 => calls'[d].mode = "evaluate"
             /\ Sound(calls'[d], store, kernel)
  <2>1. d \in 1 .. Depth /\ d < Depth /\ calls'[d] = calls[d]
    BY <1>1
  <2>2. /\ calls[d].stringArgs \subseteq {i - 1 : i \in DOMAIN calls[d].args}
        /\ calls[d].mode = "evaluate"
    BY <1>2, <2>1 DEF IInv, TypeOK
  <2>3. Sound(calls[d], store, kernel)
    BY <2>1 DEF IInv
  <2> QED BY <2>1, <2>2, <2>3
<1>4. /\ buffer' \in 0 .. MaxDepth /\ libData' \in BOOLEAN /\ aborted' \in BOOLEAN
      /\ overtaken' \subseteq 1 .. MaxDepth
  BY DEF IInv, TypeOK, Pop, result
<1> QED BY <1>1, <1>2, <1>3, <1>4, InvFrame

LEMMA CallInv ==
    ASSUME IInv, NEW n \in 0 .. MaxArgs, NEW args \in [1 .. n -> Ids \cup {Text}], CallFunction(args)
    PROVE  IInv'
<1> DEFINE f == [args |-> args, stringArgs |-> {}, making |-> NoId, held |-> {}, res |-> "other", mode |-> "run"]
<1>1. args \in Seq(Ids \cup {Text})
  BY CallsAssumption
<1>2. f \in Frames
  BY <1>1 DEF Frames
<1>3. /\ calls' \in Seq(Frames) /\ Len(calls') = Depth + 1 /\ calls'[Depth + 1] = f /\ Depth \in Nat
      /\ \A d \in 1 .. Depth : calls'[d] = calls[d]
  BY <1>2, AppendFacts DEF IInv, CallFunction
<1>4. Depth < MaxDepth /\ MaxDepth \in Nat /\ DOMAIN calls = 1 .. Depth
  BY Types DEF IInv, CallFunction
<1>5. \A d \in 1 .. Depth : /\ calls[d].stringArgs \subseteq {i - 1 : i \in DOMAIN calls[d].args}
                           /\ calls[d].mode = "evaluate"
                           /\ Sound(calls[d], store, kernel)
  <2>1. calls # <<>> => calls[Depth].mode = "evaluate"
    BY Types DEF CallFunction, KernelRuns, IInv
  <2>2. Depth \in 1 .. Depth => calls # <<>>
    BY DEF Depth
  <2> QED BY <1>4, <2>1, <2>2, Types DEF IInv, TypeOK
<1>6. Sound(f, store, kernel)
  BY DEF Sound, References, Waits
<1>7. f.stringArgs = {}
  OBVIOUS
<1> HIDE DEF f
<1>8. \A d \in 1 .. Depth + 1 :
         /\ calls'[d].stringArgs \subseteq {i - 1 : i \in DOMAIN calls'[d].args}
         /\ d < Depth + 1 => calls'[d].mode = "evaluate"
         /\ Sound(calls'[d], store, kernel)
  <2>1. \A d \in 1 .. Depth + 1 : d = Depth + 1 \/ d \in 1 .. Depth
    BY <1>3
  <2> QED BY <1>3, <1>5, <1>6, <1>7, <2>1
<1>9. /\ buffer' \in 0 .. MaxDepth /\ overtaken' \subseteq 1 .. MaxDepth
      /\ libData' \in BOOLEAN /\ aborted' \in BOOLEAN /\ UNCHANGED managed
  BY DEF CallFunction, IInv, TypeOK, result
<1> QED BY <1>3, <1>4, <1>8, <1>9, InvFrame

-----------------------------------------------------------------------------
(* Steps of the innermost call that leave the store as it is.              *)

\* The innermost call, as it is and as it is sound.
LEMMA TopFacts ==
    ASSUME IInv, calls # <<>>
    PROVE  /\ Top \in Frames /\ Top.stringArgs \subseteq {i - 1 : i \in DOMAIN Top.args}
           /\ Sound(Top, store, kernel)
           /\ Depth \in 1 .. Depth /\ Top = calls[Depth] /\ TypeOK
           /\ Top.args \in Seq(Ids \cup {Text}) /\ Top.stringArgs \in SUBSET Nat
           /\ Top.making \in Ids \cup {NoId} /\ Top.held \in SUBSET Refs
  BY Types, FrameFields DEF IInv, TypeOK

LEMMA ModeInv ==
    ASSUME IInv, calls # <<>>, NEW m \in {"run", "evaluate", "report"}, Becomes([Top EXCEPT !.mode = m]),
           m = "evaluate" /\ Careful => \A r \in Top.held : r.via = "pointer",
           UNCHANGED <<libData, result, aborted, managed>>
    PROVE  IInv'
<1> DEFINE f == [Top EXCEPT !.mode = m]
<1>1. /\ f \in Frames /\ f.mode = m /\ f.args = Top.args /\ f.stringArgs = Top.stringArgs
      /\ f.making = Top.making /\ f.held = Top.held /\ f.res = Top.res
  BY TopFacts DEF Frames
<1>2. Becomes(f)
  OBVIOUS
<1> HIDE DEF f
<1>3. Sound(f, store, kernel)
  BY <1>1, TopFacts DEF Sound, References, Waits
<1> QED BY <1>1, <1>2, <1>3, TopFacts, TopChanges DEF result

LEMMA StringInv ==
    ASSUME IInv, NEW index \in 0 .. MaxArgs, GetString(index)
    PROVE  IInv'
<1>1. Running /\ calls # <<>>
  BY DEF GetString, Running
<1>2. CASE ~ Valid(index)
  BY <1>1, <1>2, PopInv DEF GetString, Throws
<1>3. CASE Valid(index)
  <2> DEFINE f == [Top EXCEPT !.stringArgs = @ \cup {index}]
  <2>1. index \in Nat /\ index + 1 \in DOMAIN Top.args
    <3>1. index \in Nat /\ Len(Top.args) \in Nat /\ DOMAIN Top.args = 1 .. Len(Top.args)
      BY <1>1, TopFacts, CallsAssumption
    <3> QED BY <1>3, <3>1 DEF Valid
  <2>2. /\ f \in Frames /\ f.mode = Top.mode /\ f.args = Top.args /\ f.stringArgs = Top.stringArgs \cup {index}
        /\ f.making = Top.making /\ f.held = Top.held /\ f.res = Top.res
    BY <1>1, <2>1, TopFacts DEF Frames
  <2>3. Becomes(f) /\ UNCHANGED <<libData, result, aborted, managed>>
    BY <1>3 DEF GetString
  <2> HIDE DEF f
  <2>4. Sound(f, store, kernel)
    BY <1>1, <2>2, TopFacts DEF Sound, References, Waits
  <2>5. f.stringArgs \subseteq {i - 1 : i \in DOMAIN f.args}
    <3>1. index = (index + 1) - 1
      BY <2>1
    <3>2. index \in {i - 1 : i \in DOMAIN Top.args}
      BY <2>1, <3>1
    <3> QED BY <1>1, <2>2, <3>2, TopFacts
  <2> QED BY <1>1, <2>2, <2>3, <2>4, <2>5, TopChanges DEF result
<1> QED BY <1>2, <1>3

LEMMA ResultInv ==
    ASSUME IInv, SetPlain \/ SetString
    PROVE  IInv'
<1>1. calls # <<>> /\ Top.mode = "run"
  BY DEF SetPlain, SetString, Running
<1>2. PICK res \in {"other", "string"} :
        /\ Becomes([Top EXCEPT !.res = res]) /\ buffer' \in {buffer, Depth}
        /\ overtaken' = overtaken \/ overtaken' \subseteq 1 .. Depth
        /\ UNCHANGED <<managed, libData, aborted>>
  <2>1. Depth \in Nat
    BY DEF IInv, TypeOK, Depth
  <2>2. SetString => overtaken' \subseteq 1 .. Depth
    BY <2>1 DEF SetString, Overtake
  <2> QED BY <2>2 DEF SetPlain, SetString, result
<1> DEFINE f == [Top EXCEPT !.res = res]
<1>3. /\ f \in Frames /\ f.mode = Top.mode /\ f.args = Top.args /\ f.stringArgs = Top.stringArgs
      /\ f.making = Top.making /\ f.held = Top.held /\ f.res = res
  BY <1>1, TopFacts DEF Frames
<1>4. Becomes(f)
  BY <1>2
<1> HIDE DEF f
<1>5. Sound(f, store, kernel)
  BY <1>1, <1>2, <1>3, TopFacts DEF Sound, References, Waits
<1> QED BY <1>1, <1>2, <1>3, <1>4, <1>5, TopFacts, TopChanges

\* Any change of what is held, if references stay what they must be.
LEMMA HeldInv ==
    ASSUME IInv, calls # <<>>, Top.mode = "run", NEW held \in SUBSET Refs,
           Becomes([Top EXCEPT !.held = held]), UNCHANGED <<libData, result, aborted, managed>>,
           \A r \in held : r \in Top.held \/
              IF r.via = "pointer" THEN r.owns
              ELSE r.id \in DOMAIN store /\ store[r.id] = r.obj /\ r.id # Top.making
    PROVE  IInv'
<1> DEFINE f == [Top EXCEPT !.held = held]
<1>1. /\ f \in Frames /\ f.mode = Top.mode /\ f.args = Top.args /\ f.stringArgs = Top.stringArgs
      /\ f.making = Top.making /\ f.held = held /\ f.res = Top.res
  BY TopFacts DEF Frames
<1>2. Becomes(f)
  OBVIOUS
<1> HIDE DEF f
<1>3. Sound(f, store, kernel)
  BY <1>1, TopFacts DEF Sound, References, Waits
<1> QED BY <1>1, <1>2, <1>3, TopFacts, TopChanges DEF result

LEMMA LetGoInv ==
    ASSUME IInv, LetGo
    PROVE  IInv'
<1>1. calls # <<>> /\ Top.mode = "run" /\ UNCHANGED <<libData, result, aborted, managed>>
  BY DEF LetGo, Running
<1>2. PICK r \in Top.held : Becomes([Top EXCEPT !.held = @ \ {r}])
  BY DEF LetGo
<1>3. Top.held \ {r} \in SUBSET Refs /\ \A x \in Top.held \ {r} : x \in Top.held
  BY <1>1, TopFacts
<1> QED BY <1>1, <1>2, <1>3, HeldInv

LEMMA HoldInv ==
    ASSUME IInv, Running, NEW o \in Instances, NEW id \in Ids, NEW via \in {"reference", "pointer"},
           Hold(o, id, via, via = "pointer"), Top.making = NoId, id \in DOMAIN store, store[id] = o,
           UNCHANGED <<libData, result, aborted, managed>>
    PROVE  IInv'
<1> DEFINE r == [obj |-> o, id |-> id, via |-> via, owns |-> via = "pointer"]
<1>1. calls # <<>> /\ Top.mode = "run" /\ Becomes([Top EXCEPT !.held = @ \cup {r}])
  BY DEF Running, Hold
<1>2. r \in Refs /\ r.via = via /\ r.obj = o /\ r.id = id /\ (via = "pointer" => r.owns)
  BY DEF Refs
<1>3. Top.held \cup {r} \in SUBSET Refs
  BY <1>1, <1>2, TopFacts
<1>4. id # Top.making
  BY CallsAssumption
<1> HIDE DEF r
<1> QED BY <1>1, <1>2, <1>3, <1>4, HeldInv

LEMMA GetInv ==
    ASSUME IInv, NEW id \in Ids, GetInstance(id)
    PROVE  IInv'
<1>1. Running /\ Top.making = NoId /\ calls # <<>>
  BY DEF GetInstance, Running
<1>2. CASE ~ (hasInstance(id) /\ store[id] # Null)
  BY <1>1, <1>2, PopInv DEF GetInstance, Throws
<1>3. CASE hasInstance(id) /\ store[id] # Null
  <2>1. id \in DOMAIN store /\ store[id] \in Instances
    BY <1>3 DEF hasInstance, IInv, TypeOK, ManagedTypeOK
  <2>2. Hold(store[id], id, "reference", FALSE) /\ UNCHANGED <<libData, result, aborted, managed>>
    BY <1>3 DEF GetInstance
  <2>3. ("reference" = "pointer") = FALSE
    OBVIOUS
  <2> QED BY <1>1, <2>1, <2>2, <2>3, HoldInv
<1> QED BY <1>2, <1>3

LEMMA GetPtrInv ==
    ASSUME IInv, NEW index \in 0 .. MaxArgs, GetManagedExpressionPtr(index)
    PROVE  IInv'
<1> DEFINE id == Arg(index)
<1>1. Running /\ Top.making = NoId /\ calls # <<>>
  BY DEF GetManagedExpressionPtr, Running
<1>2. CASE ~ (Valid(index) /\ hasInstance(id))
  BY <1>1, <1>2, PopInv DEF GetManagedExpressionPtr, Throws
<1>3. CASE Valid(index) /\ hasInstance(id)
  <2>1. id \in DOMAIN store /\ id \in Ids /\ store[id] \in Instances \cup {Null}
    BY <1>3 DEF hasInstance, IInv, TypeOK, ManagedTypeOK
  <2>2. /\ IF store[id] = Null THEN UNCHANGED calls ELSE SharedPointerTo(id)
        /\ UNCHANGED <<libData, result, aborted, managed>>
    BY <1>3 DEF GetManagedExpressionPtr
  <2> HIDE DEF id
  <2>3. CASE store[id] = Null
    BY <2>2, <2>3 DEF IInv, TypeOK, StoreMatchesKernel, ManagedTypeOK, managed, result, Depth, hasInstance
  <2>4. CASE store[id] # Null
    <3>1. Hold(store[id], id, "pointer", TRUE) /\ store[id] \in Instances
      BY <2>1, <2>2, <2>4 DEF SharedPointerTo
    <3>2. ("pointer" = "pointer") = TRUE
      OBVIOUS
    <3> QED BY <1>1, <2>1, <2>2, <3>1, <3>2, HoldInv
  <2> QED BY <2>3, <2>4
<1> QED BY <1>2, <1>3

LEMMA CreateInv ==
    ASSUME IInv, NEW id \in Ids, CreateInstance(id)
    PROVE  IInv'
<1>1. calls # <<>> /\ Top.mode = "run" /\ Replaceable(id)
  BY DEF CreateInstance, Running
<1>2. CASE ~ hasInstance(id)
  BY <1>1, <1>2, PopInv DEF CreateInstance, Throws
<1>3. CASE hasInstance(id)
  <2> DEFINE f == [Top EXCEPT !.making = id]
  <2>1. Becomes(f) /\ UNCHANGED <<libData, result, aborted, managed>>
    BY <1>3 DEF CreateInstance
  <2>2. /\ f \in Frames /\ f.mode = Top.mode /\ f.args = Top.args /\ f.stringArgs = Top.stringArgs
        /\ f.making = id /\ f.held = Top.held /\ f.res = Top.res
    BY <1>1, TopFacts DEF Frames
  <2>3. kernel[id] # "new"
    BY <1>3 DEF IInv, StoreMatchesKernel, hasInstance
  <2> HIDE DEF f
  <2>4. Sound(f, store, kernel)
    BY <1>1, <2>2, <2>3, TopFacts DEF Sound, References, Waits, Replaceable
  <2> QED BY <1>1, <2>1, <2>2, <2>4, TopFacts, TopChanges DEF result
<1> QED BY <1>2, <1>3

-----------------------------------------------------------------------------
(* Steps that change the store or what the kernel knows.                   *)

\* A call that waits does not depend on the store.
LEMMA WaitingSound ==
    ASSUME NEW f \in Frames, NEW s, NEW k, Sound(f, store, kernel), f.mode = "evaluate",
           f.making # NoId => k[f.making] # "new"
    PROVE  Sound(f, s, k)
  BY DEF Sound, References, Waits

LEMMA CreatesFacts ==
    ASSUME IInv, NEW id \in Ids, KernelCreates(id), UNCHANGED resurrected
    PROVE  /\ ManagedTypeOK' /\ StoreMatchesKernel'
           /\ \A i \in Ids : kernel[i] # "new" => kernel'[i] # "new"
<1>1. ManagedTypeOK /\ kernel[id] = "new"
  BY DEF IInv, TypeOK, KernelCreates
<1>2. /\ kernel' \in [Ids -> {"new", "live", "gone"}] /\ kernel'[id] = "live"
      /\ \A i \in Ids \ {id} : kernel'[i] = kernel[i]
  BY <1>1 DEF KernelCreates, ManagedTypeOK
<1>3. /\ DOMAIN store' = DOMAIN store \cup {id} /\ store'[id] = Null
      /\ \A i \in DOMAIN store \ {id} : store'[i] = store[i]
  BY DEF KernelCreates, Put
<1>4. ManagedTypeOK'
  BY <1>1, <1>2, <1>3 DEF ManagedTypeOK
<1>5. StoreMatchesKernel'
  BY <1>1, <1>2, <1>3 DEF IInv, StoreMatchesKernel, hasInstance, ManagedTypeOK
<1> QED BY <1>2, <1>4, <1>5

LEMMA ReleasesFacts ==
    ASSUME IInv, NEW id \in Ids, KernelReleases(id), UNCHANGED resurrected
    PROVE  /\ ManagedTypeOK' /\ StoreMatchesKernel'
           /\ \A i \in Ids : kernel[i] # "new" => kernel'[i] # "new"
           /\ DOMAIN store' = DOMAIN store \ {id}
           /\ \A i \in DOMAIN store \ {id} : store'[i] = store[i]
<1>1. ManagedTypeOK /\ kernel[id] = "live"
  BY DEF IInv, TypeOK, KernelReleases
<1>2. /\ kernel' \in [Ids -> {"new", "live", "gone"}] /\ kernel'[id] = "gone"
      /\ \A i \in Ids \ {id} : kernel'[i] = kernel[i]
  BY <1>1 DEF KernelReleases, ManagedTypeOK
<1>3. DOMAIN store' = DOMAIN store \ {id} /\ \A i \in DOMAIN store \ {id} : store'[i] = store[i]
  BY DEF KernelReleases, Erase
<1>4. ManagedTypeOK'
  BY <1>1, <1>2, <1>3 DEF ManagedTypeOK
<1>5. StoreMatchesKernel'
  BY <1>1, <1>2, <1>3 DEF IInv, StoreMatchesKernel, hasInstance, ManagedTypeOK
<1> QED BY <1>2, <1>3, <1>4, <1>5

LEMMA ManageInv ==
    ASSUME IInv, ManageInstance
    PROVE  IInv'
<1>1. KernelRuns /\ UNCHANGED <<libData, calls, result, aborted, resurrected>>
  BY DEF ManageInstance
<1>2. ManagedTypeOK' /\ StoreMatchesKernel' /\ \A i \in Ids : kernel[i] # "new" => kernel'[i] # "new"
  BY <1>1, CreatesFacts, ReleasesFacts DEF ManageInstance
<1>3. TypeOK'
  BY <1>1, <1>2 DEF IInv, TypeOK, Depth, result
<1>4. ASSUME NEW d \in 1 .. Depth PROVE Sound(calls[d], store', kernel')
  <2>1. calls # <<>> /\ calls[d] \in Frames /\ Sound(calls[d], store, kernel)
    BY Types DEF IInv, Depth
  <2>2. calls[d].mode = "evaluate"
    BY <1>1, <2>1, Types DEF IInv, KernelRuns
  <2>3. calls[d].making # NoId => kernel'[calls[d].making] # "new"
    BY <1>2, <2>1, FrameFields DEF Sound
  <2> QED BY <2>1, <2>2, <2>3, WaitingSound
<1>5. calls' = calls
  BY <1>1
<1> QED BY <1>2, <1>3, <1>4, <1>5 DEF IInv, Depth

LEMMA ReleaseInv ==
    ASSUME IInv, NEW id \in Ids, ReleaseInstance(id)
    PROVE  IInv'
<1>1. /\ Running /\ Top.making = NoId /\ Replaceable(id) /\ KernelReleases(id)
      /\ UNCHANGED <<libData, calls, result, aborted, resurrected>>
  BY DEF ReleaseInstance
<1>2. /\ ManagedTypeOK' /\ StoreMatchesKernel' /\ \A i \in Ids : kernel[i] # "new" => kernel'[i] # "new"
      /\ DOMAIN store' = DOMAIN store \ {id}
      /\ \A i \in DOMAIN store \ {id} : store'[i] = store[i]
  BY <1>1, ReleasesFacts
<1>3. TypeOK'
  BY <1>1, <1>2 DEF IInv, TypeOK, Depth, result
<1>4. ASSUME NEW d \in 1 .. Depth PROVE Sound(calls[d], store', kernel')
  <2>1. calls # <<>> /\ calls[d] \in Frames /\ Sound(calls[d], store, kernel)
    BY Types DEF IInv, Depth
  <2>2. calls[d].making # NoId => kernel'[calls[d].making] # "new"
    BY <1>2, <2>1, FrameFields DEF Sound
  <2>3. CASE d = Depth
    <3>1. calls[d] = Top
      BY <2>1, <2>3, TopFacts
    <3>2. Careful => \A r \in Top.held : r.via = "pointer" \/ r.id # id
      BY <1>1 DEF Replaceable
    <3>3. Careful => References(Top, store) /\ Waits(Top)
      BY <2>1, <3>1 DEF Sound
    <3>4. Careful => References(Top, store')
      BY <1>2, <3>2, <3>3 DEF References
    <3> QED BY <2>2, <3>1, <3>3, <3>4 DEF Sound
  <2>4. CASE d # Depth
    <3>1. calls[d].mode = "evaluate"
      BY <2>4, Types DEF IInv
    <3> QED BY <2>1, <2>2, <3>1, WaitingSound
  <2> QED BY <2>3, <2>4
<1>5. calls' = calls
  BY <1>1
<1> QED BY <1>2, <1>3, <1>4, <1>5 DEF IInv, Depth

LEMMA MadeInv ==
    ASSUME IInv, NEW o \in Instances, InstanceMade(o)
    PROVE  IInv'
<1> DEFINE id == Top.making
           r == [obj |-> o, id |-> id, via |-> "reference", owns |-> FALSE]
<1>1. calls # <<>> /\ Top.mode = "run" /\ id # NoId /\ UNCHANGED <<libData, result, aborted, kernel>>
  BY DEF InstanceMade, Running
<1>2. id \in Ids /\ kernel[id] # "new"
  BY <1>1, TopFacts DEF Sound
<1>3. /\ DOMAIN store' = DOMAIN store \cup {id} /\ store'[id] = o
      /\ \A i \in DOMAIN store \ {id} : store'[i] = store[i]
      /\ resurrected' = IF id \in DOMAIN store THEN resurrected ELSE resurrected \cup {id}
  BY DEF InstanceMade, Put, hasInstance
<1>4. PICK held \in {Top.held, Top.held \cup {r}} : Becomes([Top EXCEPT !.making = NoId, !.held = held])
  BY DEF InstanceMade
<1> DEFINE f == [Top EXCEPT !.making = NoId, !.held = held]
<1>5. r \in Refs /\ r.via # "pointer" /\ r.id = id /\ r.obj = o
  BY <1>2 DEF Refs
<1>6. held \in SUBSET Refs
  BY <1>1, <1>4, <1>5, TopFacts
<1>7. /\ f \in Frames /\ f.mode = Top.mode /\ f.args = Top.args /\ f.stringArgs = Top.stringArgs
      /\ f.making = NoId /\ f.held = held /\ f.res = Top.res
  BY <1>1, <1>6, TopFacts DEF Frames
<1>8. Becomes(f)
  BY <1>4
<1> HIDE DEF f, r
<1>9. /\ calls' \in Seq(Frames) /\ Len(calls') = Depth /\ calls'[Depth] = f /\ Depth \in 1 .. Depth
      /\ \A d \in 1 .. Depth : d # Depth => calls'[d] = calls[d]
  BY <1>1, <1>7, <1>8, BecomesFacts DEF IInv
<1>10. ManagedTypeOK' /\ StoreMatchesKernel' /\ resurrected' \subseteq Ids
  <2>1. ManagedTypeOK /\ StoreMatchesKernel /\ resurrected \subseteq Ids
    BY DEF IInv, TypeOK
  <2>2. kernel' = kernel /\ kernel \in [Ids -> {"new", "live", "gone"}]
    BY <1>1, <2>1 DEF ManagedTypeOK
  <2>3. ManagedTypeOK'
    BY <1>2, <1>3, <2>1, <2>2 DEF ManagedTypeOK
  <2>4. \A i \in Ids : kernel[i] = "live" => i \in DOMAIN store'
    BY <1>3, <2>1 DEF StoreMatchesKernel, hasInstance
  <2>5. \A i \in DOMAIN store' : kernel[i] = "live" \/ i \in resurrected'
    BY <1>3, <2>1 DEF StoreMatchesKernel
  <2>6. id \notin DOMAIN store => kernel[id] = "gone"
    BY <1>2, <2>1, <2>2 DEF StoreMatchesKernel, hasInstance
  <2>7. \A i \in resurrected' : kernel[i] = "gone" /\ i \in DOMAIN store'
    BY <1>3, <2>1, <2>6 DEF StoreMatchesKernel, hasInstance
  <2>8. StoreMatchesKernel'
    BY <2>2, <2>4, <2>5, <2>7 DEF StoreMatchesKernel, hasInstance
  <2> QED BY <1>2, <1>3, <2>1, <2>3, <2>8
<1>11. Sound(f, store', kernel)
  <2>1. NoId \notin Ids
    BY CallsAssumption
  <2>2. Careful => References(Top, store)
    BY <1>1, TopFacts DEF Sound
  <2>3. ASSUME Careful, NEW x \in held
        PROVE  IF x.via = "pointer" THEN x.owns
               ELSE x.id \in DOMAIN store' /\ store'[x.id] = x.obj /\ x.id # NoId
    <3>1. CASE x = r
      BY <1>2, <1>3, <1>5, <2>1, <3>1
    <3>2. CASE x # r
      <4>1. x \in Top.held /\ x.id \in Ids
        BY <1>4, <1>6, <3>2, RefFields
      <4> QED BY <1>3, <2>1, <2>2, <2>3, <4>1 DEF References
    <3> QED BY <3>1, <3>2
  <2>4. Careful => References(f, store')
    BY <1>7, <2>3 DEF References
  <2> QED BY <1>1, <1>7, <2>2, <2>4 DEF Sound, Waits
<1>12. ASSUME NEW d \in 1 .. Depth PROVE Sound(calls'[d], store', kernel)
  <2>1. CASE d = Depth
    BY <1>9, <1>11, <2>1
  <2>2. CASE d # Depth
    <3>1. calls'[d] = calls[d] /\ calls[d] \in Frames /\ calls[d].mode = "evaluate"
      BY <1>9, <2>2, Types DEF IInv
    <3>2. Sound(calls[d], store, kernel)
      BY DEF IInv
    <3> QED BY <3>1, <3>2, WaitingSound DEF Sound
  <2> QED BY <2>1, <2>2
<1>13. TypeOK'
  <2>1. DOMAIN calls' = 1 .. Depth /\ DOMAIN calls = 1 .. Depth /\ Depth <= MaxDepth
    BY <1>9, Types DEF IInv
  <2>2. ASSUME NEW d \in 1 .. Depth
        PROVE  /\ calls'[d].stringArgs \subseteq {i - 1 : i \in DOMAIN calls'[d].args}
               /\ d < Depth => calls'[d].mode = "evaluate"
    <3>1. /\ calls[d].stringArgs \subseteq {i - 1 : i \in DOMAIN calls[d].args}
          /\ d < Depth => calls[d].mode = "evaluate"
      BY <2>1 DEF IInv, TypeOK
    <3>2. CASE d = Depth
      BY <1>1, <1>7, <1>9, <3>2, TopFacts
    <3>3. CASE d # Depth
      BY <1>9, <3>1, <3>3
    <3> QED BY <3>2, <3>3
  <2> QED BY <1>1, <1>9, <1>10, <2>1, <2>2 DEF IInv, TypeOK, Depth, result
<1> QED BY <1>1, <1>9, <1>10, <1>12, <1>13 DEF IInv, Depth

LEMMA PointerInv ==
    ASSUME IInv, NEW id \in Ids, NEW ptr \in Instances \cup {Null}, CreateFromPointer(id, ptr)
    PROVE  IInv'
<1>1. Running /\ calls # <<>> /\ Top.mode = "run" /\ Top.making = NoId /\ Replaceable(id)
  BY DEF CreateFromPointer, Running
<1>2. CASE ~ hasInstance(id)
  BY <1>1, <1>2, PopInv DEF CreateFromPointer, Throws
<1>3. CASE hasInstance(id)
  <2>1. /\ store' = Put(id, ptr) /\ UNCHANGED <<libData, result, kernel, resurrected>>
        /\ IF ptr = Null THEN Pop
           ELSE /\ UNCHANGED calls \/ Hold(ptr, id, "reference", FALSE)
                /\ UNCHANGED aborted
    BY <1>3 DEF CreateFromPointer
  <2>2. /\ DOMAIN store' = DOMAIN store /\ store'[id] = ptr /\ id \in DOMAIN store
        /\ \A i \in DOMAIN store \ {id} : store'[i] = store[i]
    BY <1>3, <2>1 DEF Put, hasInstance
  <2>3. ManagedTypeOK' /\ StoreMatchesKernel' /\ resurrected' \subseteq Ids
    BY <2>1, <2>2 DEF IInv, TypeOK, ManagedTypeOK, StoreMatchesKernel, hasInstance
  <2>4. /\ libData' \in BOOLEAN /\ aborted' \in BOOLEAN
        /\ buffer' \in 0 .. MaxDepth /\ overtaken' \subseteq 1 .. MaxDepth
    BY <2>1 DEF IInv, TypeOK, result, Pop
  <2>5. Depth \in 1 .. Depth /\ Depth \in Nat /\ Depth <= MaxDepth /\ MaxDepth \in Nat /\ DOMAIN calls = 1 .. Depth
    BY <1>1, Types DEF IInv
  <2>6. ASSUME NEW d \in 1 .. Depth, d < Depth
        PROVE  /\ calls[d].stringArgs \subseteq {i - 1 : i \in DOMAIN calls[d].args}
               /\ calls[d].mode = "evaluate" /\ Sound(calls[d], store', kernel')
    <3>1. /\ calls[d].stringArgs \subseteq {i - 1 : i \in DOMAIN calls[d].args}
          /\ calls[d].mode = "evaluate" /\ calls[d] \in Frames
      BY <2>5, <2>6, Types DEF IInv, TypeOK
    <3>2. Sound(calls[d], store, kernel) /\ kernel' = kernel
      BY <2>1 DEF IInv
    <3> QED BY <3>1, <3>2, WaitingSound DEF Sound
  <2>7. CASE ptr = Null
    <3>1. Pop
      BY <2>1, <2>7
    <3>2. /\ calls' \in Seq(Frames) /\ Len(calls') = Depth - 1
          /\ \A d \in 1 .. Depth - 1 : calls'[d] = calls[d] /\ d \in 1 .. Depth
      BY <1>1, <3>1, PopFacts DEF IInv, Pop
    <3>3. \A d \in 1 .. Len(calls') :
             /\ calls'[d].stringArgs \subseteq {i - 1 : i \in DOMAIN calls'[d].args}
             /\ d < Len(calls') => calls'[d].mode = "evaluate"
             /\ Sound(calls'[d], store', kernel')
      BY <2>5, <2>6, <3>2
    <3> QED BY <2>3, <2>4, <2>5, <3>2, <3>3, StateFrame
  <2>8. CASE ptr # Null
    <3> DEFINE r == [obj |-> ptr, id |-> id, via |-> "reference", owns |-> FALSE]
    <3>1. PICK held \in {Top.held, Top.held \cup {r}} :
             (calls' = calls /\ held = Top.held) \/ Becomes([Top EXCEPT !.held = held])
      BY <2>1, <2>8 DEF Hold
    <3> DEFINE f == [Top EXCEPT !.held = held]
    <3>2. r \in Refs /\ r.via # "pointer" /\ r.id = id /\ r.obj = ptr
      BY <2>8 DEF Refs
    <3>3. held \in SUBSET Refs
      BY <1>1, <3>1, <3>2, TopFacts
    <3>4. /\ f \in Frames /\ f.mode = Top.mode /\ f.args = Top.args /\ f.stringArgs = Top.stringArgs
          /\ f.making = NoId /\ f.held = held /\ f.res = Top.res
      BY <1>1, <3>3, TopFacts DEF Frames
    <3>5. held = Top.held => f = Top
      BY <1>1, TopFacts DEF Frames
    <3>6. (calls' = calls /\ f = Top) \/ Becomes(f)
      BY <3>1, <3>5
    <3> HIDE DEF f, r
    <3>7. /\ calls' \in Seq(Frames) /\ Len(calls') = Depth /\ calls'[Depth] = f
          /\ \A d \in 1 .. Depth : d # Depth => calls'[d] = calls[d]
      <4>1. CASE Becomes(f)
        BY <1>1, <3>4, <4>1, BecomesFacts DEF IInv
      <4>2. CASE calls' = calls /\ f = Top
        BY <1>1, <4>2, Types, TopFacts DEF IInv, Depth
      <4> QED BY <3>6, <4>1, <4>2
    <3>8. Sound(f, store', kernel')
      <4>1. Careful => References(Top, store) /\ \A x \in Top.held : x.via = "pointer" \/ x.id # id
        BY <1>1, TopFacts DEF Sound, Replaceable
      <4>2. ASSUME Careful, NEW x \in held
            PROVE  IF x.via = "pointer" THEN x.owns
                   ELSE x.id \in DOMAIN store' /\ store'[x.id] = x.obj /\ x.id # NoId
        <5>1. CASE x = r
          BY <2>2, <3>2, <5>1, CallsAssumption
        <5>2. CASE x # r
          <6>1. x \in Top.held /\ x.id \in Ids
            BY <3>1, <3>3, <5>2, RefFields
          <6> QED BY <2>2, <4>1, <4>2, <6>1, CallsAssumption DEF References
        <5> QED BY <5>1, <5>2
      <4>3. Careful => References(f, store')
        BY <3>4, <4>2 DEF References
      <4> QED BY <1>1, <3>4, <4>3 DEF Sound, Waits
    <3>9. \A d \in 1 .. Len(calls') :
             /\ calls'[d].stringArgs \subseteq {i - 1 : i \in DOMAIN calls'[d].args}
             /\ d < Len(calls') => calls'[d].mode = "evaluate"
             /\ Sound(calls'[d], store', kernel')
      <4>1. f.stringArgs \subseteq {i - 1 : i \in DOMAIN f.args}
        BY <1>1, <3>4, TopFacts
      <4>2. \A d \in 1 .. Depth : d = Depth \/ d < Depth
        BY <2>5
      <4> QED BY <2>5, <2>6, <3>7, <3>8, <4>1, <4>2
    <3> QED BY <2>3, <2>4, <2>5, <3>7, <3>9, StateFrame
  <2> QED BY <2>7, <2>8
<1> QED BY <1>2, <1>3

-----------------------------------------------------------------------------
(* The invariant holds in every state.                                     *)

LEMMA InitInv == Init => IInv
<1> SUFFICES ASSUME Init PROVE IInv
  OBVIOUS
<1>1. calls \in Seq(Frames) /\ Depth = 0 /\ DOMAIN calls = {}
  BY DEF Init, Depth
<1>2. ManagedTypeOK /\ StoreMatchesKernel
  BY DEF Init, ManagedInit, ManagedTypeOK, StoreMatchesKernel, hasInstance
<1>3. TypeOK
  <2>1. buffer \in 0 .. MaxDepth /\ Depth <= MaxDepth /\ overtaken = {}
    BY <1>1, CallsAssumption DEF Init
  <2> QED BY <1>1, <1>2, <2>1 DEF Init, TypeOK
<1> QED BY <1>1, <1>2, <1>3 DEF IInv

LEMMA StutterInv ==
    ASSUME IInv, UNCHANGED <<calls, result, managed>>, libData' \in BOOLEAN, aborted' \in BOOLEAN
    PROVE  IInv'
  BY DEF IInv, TypeOK, StoreMatchesKernel, ManagedTypeOK, managed, result, Depth, hasInstance

LEMMA NextInv ==
    ASSUME IInv, [Next]_vars
    PROVE  IInv'
<1>0. libData \in BOOLEAN /\ aborted \in BOOLEAN
  BY DEF IInv, TypeOK
<1>1. CASE UNCHANGED vars
  BY <1>0, <1>1, StutterInv DEF vars
<1>2. ASSUME NEW n \in 0 .. MaxArgs, NEW args \in [1 .. n -> Ids \cup {Text}], CallFunction(args) PROVE IInv'
  BY <1>2, CallInv
<1>3. CASE Abort
  BY <1>0, <1>3, StutterInv DEF Abort
<1>4. CASE Evaluate
  <2>1. /\ calls # <<>> /\ Becomes([Top EXCEPT !.mode = "evaluate"])
        /\ UNCHANGED <<libData, result, aborted, managed>>
        /\ Careful => \A r \in Top.held : r.via = "pointer"
    BY <1>4 DEF Evaluate, Running
  <2> QED BY <2>1, ModeInv
<1>5. CASE EvaluateReturns \/ EndReporting
  <2>1. /\ calls # <<>> /\ Becomes([Top EXCEPT !.mode = "run"])
        /\ UNCHANGED <<libData, result, aborted, managed>>
    BY <1>5 DEF EvaluateReturns, EndReporting
  <2> QED BY <2>1, ModeInv
<1>6. CASE Return \/ Fail
  <2>1. calls # <<>> /\ Pop /\ UNCHANGED <<libData, result, managed>>
    BY <1>6 DEF Return, Fail, Running, Throws
  <2> QED BY <2>1, PopInv
<1>7. CASE BeginReporting
  <2>1. CASE Len(Top.args) < 1
    BY <1>7, <2>1, PopInv DEF BeginReporting, Running, Throws
  <2>2. CASE ~ (Len(Top.args) < 1)
    <3>1. /\ calls # <<>> /\ Becomes([Top EXCEPT !.mode = "report"])
          /\ UNCHANGED <<libData, result, aborted, managed>>
      BY <1>7, <2>2 DEF BeginReporting, Running
    <3> QED BY <3>1, ModeInv
  <2> QED BY <2>1, <2>2
<1>8. CASE SetProgress
  <2>1. CASE aborted
    BY <1>8, <2>1, PopInv DEF SetProgress, Throws
  <2>2. CASE ~ aborted
    BY <1>0, <1>8, <2>2, StutterInv DEF SetProgress, vars
  <2> QED BY <2>1, <2>2
<1> QED BY <1>1, <1>2, <1>3, <1>4, <1>5, <1>6, <1>7, <1>8, ManageInv, StringInv, ResultInv, LetGoInv,
           GetInv, GetPtrInv, CreateInv, ReleaseInv, MadeInv, PointerInv DEF Next

LEMMA Invariant == Spec => []IInv
<1>1. IInv /\ [Next]_vars => IInv'
  BY NextInv
<1> QED BY <1>1, InitInv, PTL DEF Spec

-----------------------------------------------------------------------------
(* Strings.                                                                *)

\* No call gets a string, and nothing happens to the buffer.
LEMMA NoNewString ==
    ASSUME OwnInv, UNCHANGED result,
           \A d \in 1 .. Len(calls') :
              calls'[d].res = "string" => d \in 1 .. Depth /\ calls[d].res = "string"
    PROVE  OwnInv'
  BY DEF OwnInv, result, Depth

\* The innermost call changes and gets no string, or ends, or begins.
LEMMA NoStringFrames ==
    ASSUME IInv, OwnInv, UNCHANGED result,
           \/ calls' = calls
           \/ calls # <<>> /\ Pop
           \/ calls # <<>> /\ \E f \in Frames : Becomes(f) /\ f.res \in {"other", Top.res}
           \/ \E f \in Frames : calls' = Append(calls, f) /\ f.res = "other"
    PROVE  OwnInv'
<1>1. CASE calls' = calls
  BY <1>1, NoNewString DEF Depth
<1>2. CASE calls # <<>> /\ Pop
  <2>1. Len(calls') = Depth - 1 /\ \A d \in 1 .. Depth - 1 : calls'[d] = calls[d] /\ d \in 1 .. Depth
    BY <1>2, PopFacts DEF IInv, Pop
  <2> QED BY <2>1, NoNewString
<1>3. ASSUME calls # <<>>, NEW f \in Frames, Becomes(f), f.res \in {"other", Top.res} PROVE OwnInv'
  <2>1. /\ Len(calls') = Depth /\ calls'[Depth] = f
        /\ \A d \in 1 .. Depth : d # Depth => calls'[d] = calls[d]
    BY <1>3, BecomesFacts DEF IInv
  <2>2. Top = calls[Depth]
    BY <1>3, Types DEF IInv
  <2>3. f.res = "string" => calls[Depth].res = "string"
    BY <1>3, <2>2
  <2> QED BY <2>1, <2>3, NoNewString
<1>4. ASSUME NEW f \in Frames, calls' = Append(calls, f), f.res = "other" PROVE OwnInv'
  <2>1. /\ Len(calls') = Depth + 1 /\ calls'[Depth + 1] = f /\ Depth \in Nat
        /\ \A d \in 1 .. Depth : calls'[d] = calls[d]
    BY <1>4, AppendFacts DEF IInv
  <2>2. \A d \in 1 .. Depth + 1 : d = Depth + 1 \/ d \in 1 .. Depth
    BY <2>1
  <2> QED BY <1>4, <2>1, <2>2, NoNewString
<1> QED BY <1>1, <1>2, <1>3, <1>4

\* setString takes the buffer from all the calls that have a string.
LEMMA SetStringOwn ==
    ASSUME IInv, OwnInv, SetString
    PROVE  OwnInv'
<1>1. calls # <<>> /\ Becomes([Top EXCEPT !.res = "string"]) /\ buffer' = Depth
  BY DEF SetString, Running
<1>2. overtaken' = {d \in 1 .. Depth - 1 : calls[d].res = "string"}
  BY DEF SetString, Overtake
<1>3. [Top EXCEPT !.res = "string"] \in Frames
  BY <1>1, TopFacts DEF Frames
<1>4. Len(calls') = Depth /\ \A d \in 1 .. Depth : d # Depth => calls'[d] = calls[d]
  BY <1>1, <1>3, BecomesFacts DEF IInv
<1>5. Depth \in Nat
  BY Types DEF IInv
<1>6. ASSUME NEW d \in 1 .. Depth, calls'[d].res = "string" PROVE buffer' = d <=> d \notin overtaken'
  BY <1>1, <1>2, <1>4, <1>5, <1>6
<1>7. Depth' = Depth
  BY <1>4 DEF Depth
<1> QED BY <1>6, <1>7 DEF OwnInv

\* What any step does to the calls' strings.
LEMMA StringSteps ==
    ASSUME IInv, [Next]_vars
    PROVE  \/ SetString
           \/ /\ UNCHANGED result
              /\ \/ calls' = calls
                 \/ calls # <<>> /\ Pop
                 \/ calls # <<>> /\ \E f \in Frames : Becomes(f) /\ f.res \in {"other", Top.res}
                 \/ \E f \in Frames : calls' = Append(calls, f) /\ f.res = "other"
<1> DEFINE Changes == calls # <<>> /\ \E f \in Frames : Becomes(f) /\ f.res \in {"other", Top.res}
           Fact == UNCHANGED result /\ (calls' = calls \/ (calls # <<>> /\ Pop) \/ Changes)
<1>0. calls # <<>> => /\ Top \in Frames /\ Top.args \in Seq(Ids \cup {Text}) /\ Top.stringArgs \in SUBSET Nat
                      /\ Top.making \in Ids \cup {NoId} /\ Top.held \in SUBSET Refs
  BY TopFacts
<1>1. CASE UNCHANGED vars
  BY <1>1 DEF vars
<1>2. ASSUME NEW n \in 0 .. MaxArgs, NEW args \in [1 .. n -> Ids \cup {Text}], CallFunction(args)
      PROVE  UNCHANGED result /\ \E f \in Frames : calls' = Append(calls, f) /\ f.res = "other"
  <2> DEFINE f == [args |-> args, stringArgs |-> {}, making |-> NoId, held |-> {}, res |-> "other", mode |-> "run"]
  <2>1. args \in Seq(Ids \cup {Text})
    BY CallsAssumption
  <2>2. f \in Frames /\ f.res = "other"
    BY <2>1 DEF Frames
  <2>3. calls' = Append(calls, f) /\ UNCHANGED result
    BY <1>2 DEF CallFunction
  <2> QED BY <2>2, <2>3
<1>3. CASE ManageInstance \/ Abort
  BY <1>3 DEF ManageInstance, Abort
<1>4. ASSUME NEW m \in {"run", "evaluate", "report"}, calls # <<>>, Becomes([Top EXCEPT !.mode = m]) PROVE Changes
  <2>1. [Top EXCEPT !.mode = m] \in Frames /\ [Top EXCEPT !.mode = m].res = Top.res
    BY <1>0, <1>4 DEF Frames
  <2> QED BY <1>4, <2>1
<1>5. ASSUME NEW h \in SUBSET Refs, calls # <<>>, Becomes([Top EXCEPT !.held = h]) PROVE Changes
  <2>1. [Top EXCEPT !.held = h] \in Frames /\ [Top EXCEPT !.held = h].res = Top.res
    BY <1>0, <1>5 DEF Frames
  <2> QED BY <1>5, <2>1
<1>6. CASE Evaluate \/ EvaluateReturns \/ EndReporting \/ BeginReporting
  BY <1>4, <1>6 DEF Evaluate, EvaluateReturns, EndReporting, BeginReporting, Running, Throws
<1>7. CASE Return \/ Fail \/ SetProgress
  BY <1>7 DEF Return, Fail, SetProgress, Running, Throws, Pop, vars
<1>8. CASE SetPlain
  <2>1. [Top EXCEPT !.res = "other"] \in Frames /\ [Top EXCEPT !.res = "other"].res = "other"
    BY <1>0, <1>8 DEF Frames, SetPlain, Running
  <2> QED BY <1>8, <2>1 DEF SetPlain, Running
<1>9. CASE LetGo
  BY <1>0, <1>5, <1>9 DEF LetGo, Running
<1>10. ASSUME NEW index \in 0 .. MaxArgs, GetString(index) PROVE Fact
  <2>1. index \in Nat
    BY CallsAssumption
  <2>2. calls # <<>>
    BY <1>10 DEF GetString, Running
  <2>3. /\ [Top EXCEPT !.stringArgs = @ \cup {index}] \in Frames
        /\ [Top EXCEPT !.stringArgs = @ \cup {index}].res = Top.res
    BY <1>0, <2>1, <2>2 DEF Frames
  <2> QED BY <1>10, <2>2, <2>3 DEF GetString, Running, Throws, Pop
<1>11. ASSUME NEW o \in Instances, NEW id \in Ids, NEW via \in {"reference", "pointer"}, NEW owns \in BOOLEAN,
              calls # <<>>, Hold(o, id, via, owns)
       PROVE  Changes
  <2>1. [obj |-> o, id |-> id, via |-> via, owns |-> owns] \in Refs
    BY DEF Refs
  <2> DEFINE h == Top.held \cup {[obj |-> o, id |-> id, via |-> via, owns |-> owns]}
  <2>2. h \in SUBSET Refs /\ Becomes([Top EXCEPT !.held = h])
    BY <1>0, <1>11, <2>1 DEF Hold
  <2> HIDE DEF h
  <2> QED BY <1>5, <1>11, <2>2
<1>12. ManagedTypeOK
  BY DEF IInv, TypeOK
<1>13. ASSUME NEW index \in 0 .. MaxArgs, GetManagedExpressionPtr(index) PROVE Fact
  <2>1. CASE ~ (Valid(index) /\ hasInstance(Arg(index)))
    BY <1>13, <2>1 DEF GetManagedExpressionPtr, Running, Throws, Pop
  <2>2. CASE Valid(index) /\ hasInstance(Arg(index))
    <3>1. Arg(index) \in Ids /\ store[Arg(index)] \in Instances \cup {Null}
      BY <1>12, <2>2 DEF ManagedTypeOK, hasInstance
    <3> QED BY <1>11, <1>13, <2>2, <3>1 DEF GetManagedExpressionPtr, Running, SharedPointerTo
  <2> QED BY <2>1, <2>2
<1>14. ASSUME NEW id \in Ids, GetInstance(id) PROVE Fact
  <2>1. CASE ~ (hasInstance(id) /\ store[id] # Null)
    BY <1>14, <2>1 DEF GetInstance, Running, Throws, Pop
  <2>2. CASE hasInstance(id) /\ store[id] # Null
    <3>1. store[id] \in Instances
      BY <1>12, <2>2 DEF ManagedTypeOK, hasInstance
    <3> QED BY <1>11, <1>14, <2>2, <3>1 DEF GetInstance, Running
  <2> QED BY <2>1, <2>2
<1>15. ASSUME NEW id \in Ids, CreateInstance(id) PROVE Fact
  <2>1. calls # <<>>
    BY <1>15 DEF CreateInstance, Running
  <2>2. [Top EXCEPT !.making = id] \in Frames /\ [Top EXCEPT !.making = id].res = Top.res
    BY <1>0, <2>1 DEF Frames
  <2> QED BY <1>15, <2>1, <2>2 DEF CreateInstance, Throws, Pop
<1>16. ASSUME NEW id \in Ids, ReleaseInstance(id) PROVE Fact
  BY <1>16 DEF ReleaseInstance
<1>17. ASSUME NEW o \in Instances, InstanceMade(o) PROVE Fact
  <2> DEFINE r == [obj |-> o, id |-> Top.making, via |-> "reference", owns |-> FALSE]
  <2>1. calls # <<>> /\ Top.making \in Ids /\ UNCHANGED result
    BY <1>0, <1>17 DEF InstanceMade, Running
  <2>2. r \in Refs
    BY <2>1 DEF Refs
  <2>3. PICK held \in {Top.held, Top.held \cup {r}} : Becomes([Top EXCEPT !.making = NoId, !.held = held])
    BY <1>17 DEF InstanceMade
  <2>4. /\ [Top EXCEPT !.making = NoId, !.held = held] \in Frames
        /\ [Top EXCEPT !.making = NoId, !.held = held].res = Top.res
    <3>1. held \in SUBSET Refs
      BY <1>0, <2>1, <2>2, <2>3
    <3> QED BY <1>0, <2>1, <3>1 DEF Frames
  <2> QED BY <2>1, <2>3, <2>4
<1>18. ASSUME NEW id \in Ids, NEW ptr \in Instances \cup {Null}, CreateFromPointer(id, ptr) PROVE Fact
  <2>1. calls # <<>> /\ UNCHANGED result
    BY <1>18 DEF CreateFromPointer, Running, Throws, Pop, result
  <2>2. Pop \/ calls' = calls \/ (ptr # Null /\ Hold(ptr, id, "reference", FALSE))
    BY <1>18 DEF CreateFromPointer, Throws
  <2>3. ptr # Null /\ Hold(ptr, id, "reference", FALSE) => Changes
    BY <1>11, <2>1
  <2> QED BY <2>1, <2>2, <2>3
<1> QED BY <1>1, <1>2, <1>3, <1>6, <1>7, <1>8, <1>9, <1>10, <1>13, <1>14, <1>15, <1>16, <1>17, <1>18 DEF Next

LEMMA StringsOwn == Spec => []OwnInv
<1>1. Init => OwnInv
  BY DEF Init, OwnInv, Depth
<1>2. IInv /\ OwnInv /\ [Next]_vars => OwnInv'
  BY StringSteps, NoStringFrames, SetStringOwn
<1> QED BY <1>1, <1>2, Invariant, PTL DEF Spec

-----------------------------------------------------------------------------
(* Theorems.                                                               *)

(***************************************************************************)
(* Types: the calls in progress form a stack within its bound, all but the *)
(* innermost wait for an evaluation, and only strings that a call was      *)
(* given are disowned when it ends.                                        *)
(***************************************************************************)
THEOREM CallTypes == Spec => []TypeOK
<1>1. IInv => TypeOK
  BY DEF IInv
<1> QED BY <1>1, Invariant, PTL

(***************************************************************************)
(* The store holds the ids that are live in the kernel, and besides these  *)
(* only the ones released while their instance was being constructed.      *)
(***************************************************************************)
THEOREM StoreMatches == Spec => []StoreMatchesKernel
<1>1. IInv => StoreMatchesKernel
  BY DEF IInv
<1> QED BY <1>1, Invariant, PTL

(***************************************************************************)
(* In careful functions no reference or pointer to a managed instance      *)
(* outlives it, whatever evaluations and nested calls do.                  *)
(***************************************************************************)
THEOREM ReferencesAlive ==
    ASSUME Careful
    PROVE  Spec => []RefsAlive
<1>1. ASSUME IInv, NEW d \in DOMAIN calls, NEW r \in calls[d].held
      PROVE  UsedAlive(r.obj)
  <2>1. d \in 1 .. Depth /\ calls[d] \in Frames
    BY <1>1, Types DEF IInv
  <2>2. References(calls[d], store)
    BY <1>1, <2>1 DEF IInv, Sound
  <2>3. r \in Refs
    BY <2>1, FrameFields
  <2>4. CASE r.via = "pointer"
    BY <2>2, <2>3, <2>4 DEF References, UsedAlive
  <2>5. CASE r.via # "pointer"
    BY <2>2, <2>5 DEF References, UsedAlive
  <2> QED BY <2>4, <2>5
<1>2. IInv => RefsAlive
  BY <1>1 DEF RefsAlive
<1> QED BY <1>2, Invariant, PTL

(***************************************************************************)
(* A call returns its own string unless a nested call set one since, and   *)
(* then it does not, for calls nested to any depth that may evaluate at    *)
(* any time.                                                               *)
(***************************************************************************)
THEOREM ResultsOwn == Spec => ResultOwn
<1>1. ASSUME IInv, OwnInv, Return, Top.res = "string"
      PROVE  buffer = Depth <=> Depth \notin overtaken
  BY <1>1, TopFacts DEF Return, Running, OwnInv
<1>2. IInv /\ OwnInv => [Return /\ Top.res = "string" => (buffer = Depth <=> Depth \notin overtaken)]_vars
  BY <1>1
<1> QED BY <1>2, Invariant, StringsOwn, PTL DEF ResultOwn
=============================================================================
