---------------------------- MODULE LibraryCalls ----------------------------
(***************************************************************************)
(* Library functions as the kernel calls them: LLU_LIBRARY_FUNCTION, the   *)
(* MArgumentManager that each call makes (src/MArgumentManager.cpp), the   *)
(* ProgressMonitor, and the managed expressions the functions use.  What a *)
(* function evaluates may call another one: calls nest, and all of them    *)
(* use one store, one library data and one buffer for string results.      *)
(***************************************************************************)
EXTENDS ManagedExpressions, Naturals, SequencesExt

CONSTANTS Text,        \* an argument that is a string
          NoId,        \* no managed expression is being constructed
          Careful,     \* see Evaluate and RefsAlive
          MaxDepth, MaxArgs, MaxRefs   \* bounds

ASSUME CallsAssumption ==
    /\ Text \notin Ids /\ NoId \notin Ids
    /\ Careful \in BOOLEAN
    /\ MaxDepth \in Nat /\ MaxArgs \in Nat /\ MaxRefs \in Nat

VARIABLES
    libData,        \* LibraryData::libData is set
    calls,          \* the calls in progress, the innermost last
    buffer,         \* stringResultBuffer: the depth of the call it is for
    aborted,        \* AbortQ
    resurrected,    \* ids that the store holds though the kernel has let go
    overtaken       \* history: the calls whose string was there, not yet
                    \* delivered, when another last set its own

managed == <<store, kernel, resurrected>>
result == <<buffer, overtaken>>
vars == <<libData, calls, result, aborted, managed>>

Refs == [obj : Instances, id : Ids, via : {"reference", "pointer"}, owns : BOOLEAN]
Frames == [args : Seq(Ids \cup {Text}),
           stringArgs : SUBSET Nat,       \* indices of strings to be disowned
           making : Ids \cup {NoId},      \* in createInstance, past checkID
           held : SUBSET Refs,            \* managed expressions in use
           res : {"other", "string"},     \* unset, or a number or container
           mode : {"run", "evaluate", "report"}]

Depth == Len(calls)
Top == Last(calls)
Running == calls # <<>> /\ Top.mode = "run"
KernelRuns == calls # <<>> => Top.mode = "evaluate"
Becomes(frame) == calls' = [calls EXCEPT ![Depth] = frame]

\* The manager's destructor disowns the strings, shared pointers are let go;
\* the kernel's evaluation ends with the outermost call.
Pop ==
    /\ calls' = Front(calls)
    /\ aborted' = (aborted /\ Depth > 1)

\* The catch clauses of the macro.
Throws == Pop /\ UNCHANGED <<libData, result, managed>>

UsedAlive(o) == \/ \E id \in DOMAIN store : store[id] = o
                \/ \E d \in DOMAIN calls, r \in Refs :
                     r \in calls[d].held /\ r.owns /\ r.obj = o
Named(o) == \E d \in DOMAIN calls : \E r \in calls[d].held : r.obj = o

-----------------------------------------------------------------------------
(* The kernel.                                                             *)

Init ==
    /\ ManagedInit
    /\ libData = FALSE /\ calls = <<>> /\ buffer = 0 /\ aborted = FALSE
    /\ resurrected = {} /\ overtaken = {}

\* A call, and the manager's constructor, which keeps the library data.
CallFunction(args) ==
    /\ KernelRuns /\ Depth < MaxDepth
    /\ calls' = Append(calls, [args |-> args, stringArgs |-> {}, making |-> NoId,
                               held |-> {}, res |-> "other", mode |-> "run"])
    /\ libData' = TRUE
    /\ UNCHANGED <<result, aborted, managed>>

ManageInstance ==
    /\ KernelRuns /\ libData
    /\ \E id \in Ids : KernelCreates(id) \/ KernelReleases(id)
    /\ UNCHANGED <<libData, calls, result, aborted, resurrected>>

Abort ==
    /\ calls # <<>> /\ ~ aborted /\ aborted' = TRUE
    /\ UNCHANGED <<libData, calls, result, managed>>

(***************************************************************************)
(* The function evaluates an expression, whether its result is set or not. *)
(* A careful one does not do so while it uses a reference into the store.  *)
(***************************************************************************)
Evaluate ==
    /\ Running
    /\ Careful => \A r \in Top.held : r.via = "pointer"
    /\ Becomes([Top EXCEPT !.mode = "evaluate"])
    /\ UNCHANGED <<libData, result, aborted, managed>>

EvaluateReturns ==
    /\ calls # <<>> /\ Top.mode = "evaluate"
    /\ Becomes([Top EXCEPT !.mode = "run"])
    /\ UNCHANGED <<libData, result, aborted, managed>>

\* NoError, and the kernel takes the result.
Return ==
    /\ Running /\ Top.making = NoId
    /\ Pop
    /\ UNCHANGED <<libData, result, managed>>

\* Any LibraryLinkError or other exception.
Fail ==
    /\ Running
    /\ Throws

-----------------------------------------------------------------------------
(* Arguments and results.                                                  *)

Valid(index) == index < Len(Top.args)
Arg(index) == Top.args[index + 1]

\* acquireUTF8String: the string is taken once, and disowned with the manager.
GetString(index) ==
    /\ Running /\ Top.making = NoId
    /\ IF Valid(index)
       THEN /\ Arg(index) = Text
            /\ Becomes([Top EXCEPT !.stringArgs = @ \cup {index}])
            /\ UNCHANGED <<libData, result, aborted, managed>>
       ELSE Throws

SetPlain ==
    /\ Running /\ Top.making = NoId
    /\ Becomes([Top EXCEPT !.res = "other"])
    /\ UNCHANGED <<libData, result, aborted, managed>>

\* The calls that wait with a string of their own.
Overtake == overtaken' = {d \in 1 .. Depth - 1 : calls[d].res = "string"}

\* Deviation: the buffer is assigned only while it is free.
SetStringKeeping ==
    /\ Running /\ Top.making = NoId
    /\ Becomes([Top EXCEPT !.res = "string"])
    /\ buffer' = IF \E d \in 1 .. Depth - 1 : calls[d].res = "string" THEN buffer ELSE Depth
    /\ Overtake
    /\ UNCHANGED <<libData, aborted, managed>>

SetString ==
    /\ Running /\ Top.making = NoId
    /\ Becomes([Top EXCEPT !.res = "string"])
    /\ buffer' = Depth
    /\ Overtake
    /\ UNCHANGED <<libData, aborted, managed>>

-----------------------------------------------------------------------------
(* Managed expressions.                                                    *)

Hold(o, id, via, owns) ==
    /\ Cardinality(Top.held) < MaxRefs
    /\ Becomes([Top EXCEPT !.held = @ \cup {[obj |-> o, id |-> id, via |-> via, owns |-> owns]}])

LetGo ==
    /\ Running /\ \E r \in Top.held : Becomes([Top EXCEPT !.held = @ \ {r}])
    /\ UNCHANGED <<libData, result, aborted, managed>>

\* A careful function uses no reference to an instance it lets be replaced.
Replaceable(id) == Careful => \A r \in Top.held : r.via = "pointer" \/ r.id # id

\* createInstance: checkID, then the constructor of the instance begins.
CreateInstance(id) ==
    /\ Running /\ Top.making = NoId /\ Replaceable(id)
    /\ IF hasInstance(id)
       THEN /\ Becomes([Top EXCEPT !.making = id])
            /\ UNCHANGED <<libData, result, aborted, managed>>
       ELSE Throws

\* The constructor has returned: store[id] = ptr, whatever became of the id.
InstanceMade(o) ==
    /\ Running /\ Top.making # NoId
    /\ ~ UsedAlive(o) /\ ~ Named(o)
    /\ store' = Put(Top.making, o)
    /\ resurrected' = IF hasInstance(Top.making) THEN resurrected
                                                ELSE resurrected \cup {Top.making}
    /\ \/ Becomes([Top EXCEPT !.making = NoId])
       \/ /\ Cardinality(Top.held) < MaxRefs
          /\ Becomes([Top EXCEPT !.making = NoId, !.held = @ \cup
                        {[obj |-> o, id |-> Top.making, via |-> "reference", owns |-> FALSE]}])
    /\ UNCHANGED <<libData, result, aborted, kernel>>

(***************************************************************************)
(* createInstance from a pointer the function has: to an object of its own *)
(* or one that is managed already, or null.  A null pointer is filed       *)
(* before instanceAt throws.                                               *)
(***************************************************************************)
Ownable(o) == \/ ~ UsedAlive(o) /\ ~ Named(o)
              \/ \E r \in Top.held : r.owns /\ r.obj = o

CreateFromPointer(id, ptr) ==
    /\ Running /\ Top.making = NoId /\ Replaceable(id)
    /\ ptr = Null \/ Ownable(ptr)
    /\ IF hasInstance(id)
       THEN /\ store' = Put(id, ptr)
            /\ IF ptr = Null THEN Pop
               ELSE /\ UNCHANGED calls \/ Hold(ptr, id, "reference", FALSE)
                    /\ UNCHANGED aborted
            /\ UNCHANGED <<libData, result, kernel, resurrected>>
       ELSE Throws

\* releaseInstance asks the kernel, which calls back.
ReleaseInstance(id) ==
    /\ Running /\ Top.making = NoId /\ Replaceable(id)
    /\ KernelReleases(id)
    /\ UNCHANGED <<libData, calls, result, aborted, resurrected>>

\* getInstance, and getManagedExpression on the argument that holds the id.
GetInstance(id) ==
    /\ Running /\ Top.making = NoId
    /\ IF hasInstance(id) /\ store[id] # Null
       THEN /\ Hold(store[id], id, "reference", FALSE)
            /\ UNCHANGED <<libData, result, aborted, managed>>
       ELSE Throws

\* Deviation: the pointer does not share the ownership.
PointerTo(id) == Hold(store[id], id, "pointer", FALSE)

SharedPointerTo(id) == Hold(store[id], id, "pointer", TRUE)

\* A null pointer is given out as it is; the caller is taken to look.
GetManagedExpressionPtr(index) ==
    /\ Running /\ Top.making = NoId
    /\ IF Valid(index) /\ hasInstance(Arg(index))
       THEN /\ IF store[Arg(index)] = Null THEN UNCHANGED calls ELSE SharedPointerTo(Arg(index))
            /\ UNCHANGED <<libData, result, aborted, managed>>
       ELSE Throws

-----------------------------------------------------------------------------
(* ProgressMonitor.                                                        *)

\* getProgressMonitor, and a loop that reports its progress until it is done.
BeginReporting ==
    /\ Running /\ Top.making = NoId
    /\ IF Len(Top.args) < 1
       THEN Throws
       ELSE /\ Becomes([Top EXCEPT !.mode = "report"])
            /\ UNCHANGED <<libData, result, aborted, managed>>

\* Deviation: the progress is written and AbortQ is not asked.
SetProgressOnly == calls # <<>> /\ Top.mode = "report" /\ UNCHANGED vars

\* set writes the progress, then checkAbort throws if the user has aborted.
SetProgress ==
    /\ calls # <<>> /\ Top.mode = "report"
    /\ IF aborted THEN Throws ELSE UNCHANGED vars

EndReporting ==
    /\ calls # <<>> /\ Top.mode = "report"
    /\ Becomes([Top EXCEPT !.mode = "run"])
    /\ UNCHANGED <<libData, result, aborted, managed>>

-----------------------------------------------------------------------------
Next ==
    \/ \E n \in 0 .. MaxArgs : \E args \in [1 .. n -> Ids \cup {Text}] : CallFunction(args)
    \/ ManageInstance \/ Abort
    \/ Evaluate \/ EvaluateReturns \/ Return \/ Fail
    \/ \E index \in 0 .. MaxArgs : GetString(index) \/ GetManagedExpressionPtr(index)
    \/ SetPlain \/ SetString \/ LetGo
    \/ \E id \in Ids : CreateInstance(id) \/ ReleaseInstance(id) \/ GetInstance(id)
    \/ \E o \in Instances : InstanceMade(o)
    \/ \E id \in Ids, ptr \in Instances \cup {Null} : CreateFromPointer(id, ptr)
    \/ BeginReporting \/ SetProgress \/ EndReporting

\* A loop that reports goes on reporting.
Spec == Init /\ [][Next]_vars /\ WF_vars(SetProgress)

-----------------------------------------------------------------------------
(* Properties.                                                             *)

TypeOK ==
    /\ ManagedTypeOK
    /\ libData \in BOOLEAN /\ aborted \in BOOLEAN
    /\ calls \in Seq(Frames) /\ Depth <= MaxDepth
    /\ \A d \in DOMAIN calls :
         /\ calls[d].stringArgs \subseteq {i - 1 : i \in DOMAIN calls[d].args}
         /\ d < Depth => calls[d].mode = "evaluate"
    /\ buffer \in 0 .. MaxDepth /\ overtaken \subseteq 1 .. MaxDepth
    /\ resurrected \subseteq Ids

(***************************************************************************)
(* The store and the kernel agree on the ids, whatever calls do between    *)
(* the creation and the release of an expression: the store holds the live *)
(* ids and none that the kernel has let go or not yet given, but for those *)
(* whose expression went while its instance was being constructed.  Such   *)
(* an entry comes back after its release and is never erased.              *)
(***************************************************************************)
StoreMatchesKernel ==
    /\ \A id \in Ids : kernel[id] = "live" => hasInstance(id)
    /\ \A id \in DOMAIN store : kernel[id] = "live" \/ id \in resurrected
    /\ \A id \in resurrected : kernel[id] = "gone" /\ hasInstance(id)

(***************************************************************************)
(* What a careful function holds is alive.  Shared pointers keep their     *)
(* instance through evaluations, releases, nested calls and a new instance *)
(* under the same id; a plain reference does not, so a careful function    *)
(* drops it before any of these.                                           *)
(***************************************************************************)
RefsAlive == \A d \in DOMAIN calls : \A r \in calls[d].held : UsedAlive(r.obj)

(***************************************************************************)
(* All calls write their string to one static buffer, and a function may   *)
(* evaluate after its result is set.  A call delivers its own string       *)
(* exactly if no call nested in it has set one since; it makes no          *)
(* difference whether the nested call then returns its string, replaces it *)
(* or fails, and a call that sets its string again is whole again.         *)
(***************************************************************************)
ResultOwn == [][Return /\ Top.res = "string" => (buffer = Depth <=> Depth \notin overtaken)]_vars

(***************************************************************************)
(* A function that keeps reporting its progress does not run on after the  *)
(* user has aborted.                                                       *)
(***************************************************************************)
Reporting == calls # <<>> /\ Top.mode = "report"
AbortNoticed == aborted /\ Reporting ~> ~ Reporting
=============================================================================
