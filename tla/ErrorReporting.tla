--------------------------- MODULE ErrorReporting ---------------------------
(***************************************************************************)
(* Exceptions on their way to the Wolfram Language: LibraryLinkError, the  *)
(* loopback link on which each object carries its message parameters,      *)
(* ErrorManager::throwException, Logger::log, and what both write to the   *)
(* one link to the kernel.  Main runs library functions; other threads     *)
(* run tasks, and their exceptions reach Main as futures deliver them.     *)
(***************************************************************************)
EXTENDS ErrorManager, FiniteSets

CONSTANTS Main, Workers,
          Objects, NoObject,  \* places for LibraryLinkError objects
          Loops, NoLink,      \* loopback links
          ThrownNames,        \* the names the code throws
          Careful,            \* parameters are sent by Main alone
          MaxThrows

NoThread == "nobody"

ASSUME ReportingAssumption ==
    /\ Main \notin Workers
    /\ NoThread \notin Workers \cup {Main}
    /\ NoObject \notin Objects /\ NoLink \notin Loops
    /\ ThrownNames \subseteq {ErrorNames[i] : i \in DOMAIN ErrorNames}
                       \cup {err.name : err \in PacletErrors}
    /\ Careful \in BOOLEAN /\ MaxThrows \in Nat

VARIABLES
    sendParametersImmediately,
    obj,         \* the LibraryLinkError objects
    loop,        \* the content of each loopback link
    lost,        \* loopback links that are open and that nothing refers to
    garbled,     \* packets on the kernel's link are half written or mixed
    mlinkGuard,  \* the thread that holds Logger's mutex
    pc, hand,    \* what a thread does; the exception in flight or in its handler
    details,     \* $LastFailureParameters: whose parameters, 0 for none
    unread,      \* caught after its parameters were sent, or returned with a
                 \* code for which none are read
    thrown       \* the number of throws so far

carrying == <<obj, loop, lost>>
talking == <<garbled, mlinkGuard, pc, hand>>
shown == <<details, unread>>
vars == <<registry, carrying, talking, shown, sendParametersImmediately, thrown>>

Threads == Workers \cup {Main}

Closed == -1      \* contents of a loopback link that is not the
Drained == 0      \* parameters of the throw with that number

\* A place with no object; what is thrown has a number from 1 on.
NoError == [of |-> 0, name |-> "", params |-> NoLink]
Live(e) == obj[e] # NoError

-----------------------------------------------------------------------------
ReportingInit ==
    /\ RegistryInit
    /\ sendParametersImmediately = TRUE
    /\ obj = [e \in Objects |-> NoError]
    /\ loop = [l \in Loops |-> Closed]
    /\ lost = {}
    /\ garbled = FALSE /\ mlinkGuard = NoThread
    /\ pc = [t \in Threads |-> "run"]
    /\ hand = [t \in Threads |-> NoObject]
    /\ details = 0 /\ unread = {}
    /\ thrown = 0

\* A paclet registers and asks for its errors when it loads, before all else.
Register ==
    /\ thrown = 0 /\ \A t \in Threads : pc[t] = "run"
    /\ RegistryNext
    /\ UNCHANGED <<carrying, talking, shown, sendParametersImmediately, thrown>>

SetSendParametersImmediately(newValue) ==
    /\ sendParametersImmediately' = newValue
    /\ UNCHANGED <<registry, carrying, talking, shown, thrown>>

GoTo(t, where) == pc' = [pc EXCEPT ![t] = where]
Closing(l) == IF l = NoLink THEN loop ELSE [loop EXCEPT ![l] = Closed]

\* openLoopback, which may fail; the new link l then gets its content.
OpenLoopback(l, what) ==
    \/ l = NoLink /\ UNCHANGED loop
    \/ l # NoLink /\ loop[l] = Closed /\ loop' = [loop EXCEPT ![l] = what]

-----------------------------------------------------------------------------
(* throwException.                                                         *)

\* findError, whose own failure replaces the exception.
Found(asked) == IF asked \in Registered THEN asked ELSE "ErrorManagerThrowNameError"

NewError(t, e, asked, l) ==
    /\ pc[t] = "run" /\ hand[t] = NoObject /\ ~ Live(e)
    /\ thrown < MaxThrows /\ pending = <<>>
    /\ Careful /\ t # Main => ~ sendParametersImmediately
    /\ thrown' = thrown + 1
    /\ obj' = [obj EXCEPT ![e] = [of |-> thrown', name |-> Found(asked), params |-> l]]
    /\ hand' = [hand EXCEPT ![t] = e]
    /\ UNCHANGED <<registry, shown, sendParametersImmediately, lost, garbled, mlinkGuard>>

\* No parameters, or no library data, or an unknown name.
ThrowPlain(t, e, asked) ==
    /\ NewError(t, e, asked, NoLink)
    /\ UNCHANGED <<loop, pc>>

ThrowWithParameters(t, e, asked, l) ==
    /\ asked \in Registered
    /\ NewError(t, e, asked, l)
    /\ OpenLoopback(l, thrown')
    /\ GoTo(t, IF sendParametersImmediately THEN "send" ELSE "run")

\* setMessageParameters on an error that has some: the old link is not closed.
SetMessageParameters(t, l) ==
    /\ pc[t] = "run" /\ hand[t] # NoObject
    /\ LET e == hand[t]
       IN  /\ lost' = lost \cup ({obj[e].params} \ {NoLink})
           /\ OpenLoopback(l, obj[e].of)
           /\ obj' = [obj EXCEPT ![e].params = l]
    /\ UNCHANGED <<registry, talking, shown, sendParametersImmediately, thrown>>

-----------------------------------------------------------------------------
(* The special members of LibraryLinkError, used on objects kept aside.    *)

Kept(e) == \A t \in Threads : hand[t] # e
SpecialMember == UNCHANGED <<registry, talking, shown, lost,
                             sendParametersImmediately, thrown>>

\* Copies: a link of its own with the same parameters, if one can be opened.
Copy(e, e2, l) ==
    /\ Live(e) /\ Kept(e2) /\ e # e2
    /\ obj' = [obj EXCEPT ![e2] = [obj[e] EXCEPT !.params = l]]
    /\ LET from == obj[e].params
           after == Closing(obj[e2].params)
       IN  IF from = NoLink \/ l = NoLink THEN l = NoLink /\ loop' = after
           ELSE loop[l] = Closed /\ loop' = [after EXCEPT ![l] = loop[from]]
    /\ SpecialMember

\* Deviation: the source keeps the link it has given away.
MoveKeeping(e, e2) ==
    /\ Live(e) /\ Kept(e2) /\ e # e2
    /\ obj' = [obj EXCEPT ![e2] = obj[e]]
    /\ loop' = Closing(obj[e2].params)
    /\ SpecialMember

\* Moves: the link changes hands, the one of the target is closed.
Move(e, e2) ==
    /\ Live(e) /\ Kept(e2) /\ e # e2
    /\ obj' = [obj EXCEPT ![e2] = obj[e], ![e].params = NoLink]
    /\ loop' = Closing(obj[e2].params)
    /\ SpecialMember

Dies(e) ==
    /\ loop' = Closing(obj[e].params)
    /\ obj' = [obj EXCEPT ![e] = NoError]

Destroy(e) == Live(e) /\ Kept(e) /\ Dies(e) /\ SpecialMember

-----------------------------------------------------------------------------
(* sendParameters: the head of a packet, then the parameters and the answer.*)

SendParameters(t) ==
    /\ pc[t] = "run" /\ hand[t] # NoObject
    /\ Careful => t = Main
    /\ GoTo(t, "send")
    /\ UNCHANGED <<registry, carrying, shown, sendParametersImmediately, thrown,
                   garbled, mlinkGuard, hand>>

Writing(t) == pc[t] \in {"transfer", "log"}

\* A packet begins: mixed with another if one is being written.
BeginPacket(t) == garbled' = (garbled \/ \E t2 \in Threads : Writing(t2))

\* A packet is complete.  The kernel may drop what it cannot make sense of.
EndPacket(t) ==
    \/ UNCHANGED garbled
    \/ garbled' = FALSE /\ \A t2 \in Threads \ {t} : ~ Writing(t2)

\* EvaluatePacket, Set and the symbol; a failure is turned into a code.
SendHead(t) ==
    /\ pc[t] = "send"
    /\ \/ BeginPacket(t) /\ GoTo(t, "transfer")
       \/ garbled' = TRUE /\ GoTo(t, "run")
    /\ UNCHANGED <<registry, carrying, shown, sendParametersImmediately, thrown,
                   mlinkGuard, hand>>

\* With no link, or one sent before, half a packet stays; a whole one is evaluated.
SendTransfer(t) ==
    /\ pc[t] = "transfer"
    /\ GoTo(t, "run")
    /\ LET l == obj[hand[t]].params
       IN  IF l = NoLink \/ loop[l] = Drained
           THEN garbled' = TRUE /\ UNCHANGED <<carrying, details>>
           ELSE /\ EndPacket(t)
                /\ details' = IF garbled THEN details ELSE loop[l]
                /\ loop' = [loop EXCEPT ![l] = Drained]
                /\ UNCHANGED <<obj, lost>>
    /\ UNCHANGED <<registry, unread, sendParametersImmediately, thrown,
                   mlinkGuard, hand>>

-----------------------------------------------------------------------------
(* Handlers.                                                               *)

\* A handler ends and the exception with it, whose parameters may be sent.
Catch(t) ==
    /\ pc[t] = "run" /\ hand[t] # NoObject
    /\ unread' = unread \cup ({details} \cap {obj[hand[t]].of})
    /\ Dies(hand[t])
    /\ hand' = [hand EXCEPT ![t] = NoObject]
    /\ UNCHANGED <<registry, details, sendParametersImmediately, thrown, lost,
                   garbled, mlinkGuard, pc>>

\* A task's exception goes to Main with its future, or one is thrown again.
Rethrow(e) ==
    /\ Live(e) /\ pc[Main] = "run" /\ hand[Main] = NoObject
    /\ \A t \in Workers : hand[t] = e => pc[t] = "run"
    /\ hand' = [t \in Threads |-> IF t = Main THEN e
                                  ELSE IF hand[t] = e THEN NoObject ELSE hand[t]]
    /\ UNCHANGED <<registry, carrying, shown, sendParametersImmediately, thrown,
                   garbled, mlinkGuard, pc>>

\* The layer knows the code, and that it comes from C++ code.
ParametersRead(n) == n \in LLUNames \cup DOMAIN lut /\ Code(n) < 0

\* Deviation: the symbol is not reset once it has been read.
MakeFailureKeeping(e) ==
    /\ UNCHANGED details
    /\ unread' = IF ParametersRead(obj[e].name) THEN unread ELSE unread \cup {obj[e].of}

\* The Wolfram Language layer makes a Failure of the code that came back.
MakeFailure(e) ==
    IF ParametersRead(obj[e].name)
    THEN details' = 0 /\ UNCHANGED unread
    ELSE unread' = unread \cup {obj[e].of} /\ UNCHANGED details

Return ==
    /\ pc[Main] = "run" /\ hand[Main] # NoObject
    /\ MakeFailure(hand[Main])
    /\ Dies(hand[Main])
    /\ hand' = [hand EXCEPT ![Main] = NoObject]
    /\ UNCHANGED <<registry, sendParametersImmediately, thrown, lost,
                   garbled, mlinkGuard, pc>>

-----------------------------------------------------------------------------
(* Logger::log.                                                            *)

LogStep == UNCHANGED <<registry, carrying, shown, sendParametersImmediately,
                       thrown, hand>>

\* Deviation: the mutex is not taken.
LogUnguarded(t) ==
    /\ pc[t] = "run"
    /\ UNCHANGED mlinkGuard
    /\ BeginPacket(t) /\ GoTo(t, "log")
    /\ LogStep

Log(t) ==
    /\ pc[t] = "run"
    /\ mlinkGuard = NoThread /\ mlinkGuard' = t
    /\ BeginPacket(t) /\ GoTo(t, "log")
    /\ LogStep

\* The arguments; the kernel evaluates what it finds; the mutex is released.
LogEnds(t) ==
    /\ pc[t] = "log"
    /\ GoTo(t, "run") /\ mlinkGuard' = NoThread
    /\ EndPacket(t)
    /\ LogStep

\* An argument cannot be put: an exception, with the packet half written.
LogThrows(t, e) ==
    /\ pc[t] = "log" /\ hand[t] = NoObject /\ ~ Live(e)
    /\ thrown < MaxThrows /\ pending = <<>>
    /\ garbled' = TRUE
    /\ GoTo(t, "run") /\ mlinkGuard' = NoThread
    /\ thrown' = thrown + 1
    /\ obj' = [obj EXCEPT ![e] = [of |-> thrown', name |-> Found("WSPutScalarError"),
                                params |-> NoLink]]
    /\ hand' = [hand EXCEPT ![t] = e]
    /\ UNCHANGED <<registry, loop, lost, shown, sendParametersImmediately>>

-----------------------------------------------------------------------------
ReportingNext ==
    \/ Register
    \/ \E b \in BOOLEAN : SetSendParametersImmediately(b)
    \/ Return
    \/ \E t \in Threads :
         \/ \E e \in Objects, n \in ThrownNames :
              \/ ThrowPlain(t, e, n)
              \/ \E l \in Loops \cup {NoLink} : ThrowWithParameters(t, e, n, l)
         \/ \E l \in Loops \cup {NoLink} : SetMessageParameters(t, l)
         \/ SendParameters(t) \/ SendHead(t) \/ SendTransfer(t)
         \/ Catch(t) \/ Log(t) \/ LogEnds(t) \/ \E e \in Objects : LogThrows(t, e)
    \/ \E e \in Objects :
         \/ Destroy(e) \/ Rethrow(e)
         \/ \E e2 \in Objects :
              Move(e, e2) \/ \E l \in Loops \cup {NoLink} : Copy(e, e2, l)

Spec == ReportingInit /\ [][ReportingNext]_vars

-----------------------------------------------------------------------------
(* Properties.                                                             *)

Names == ThrownNames \cup {"", "WSPutScalarError", "ErrorManagerThrowNameError"}

TypeOK ==
    /\ RegistryTypeOK /\ CodesDescend
    /\ sendParametersImmediately \in BOOLEAN
    /\ obj \in [Objects -> [of : Nat, name : Names, params : Loops \cup {NoLink}]]
    /\ loop \in [Loops -> Int] /\ lost \in SUBSET Loops
    /\ garbled \in BOOLEAN
    /\ mlinkGuard \in Threads \cup {NoThread}
    /\ pc \in [Threads -> {"run", "send", "transfer", "log"}]
    /\ hand \in [Threads -> Objects \cup {NoObject}]
    /\ details \in Nat
    /\ unread \in SUBSET Nat /\ thrown \in 0 .. MaxThrows

(***************************************************************************)
(* Every loopback link that is open belongs to exactly one exception       *)
(* object, however objects were copied, moved, assigned, thrown again or   *)
(* destroyed; only a second setMessageParameters loses one.  No object     *)
(* refers to a closed link, so none is closed twice or read after that.    *)
(***************************************************************************)
LoopbacksOwned ==
    \A l \in Loops :
        LET owners == {e \in Objects : obj[e].params = l}
        IN  IF loop[l] = Closed THEN owners = {} /\ l \notin lost
            ELSE Cardinality(owners) = IF l \in lost THEN 0 ELSE 1

(***************************************************************************)
(* Logs of any threads keep apart: what spoils a packet on the kernel's    *)
(* link is a thread that is sending parameters, which takes no mutex, or a *)
(* log that throws, and never one log beginning before another has ended.  *)
(***************************************************************************)
LogsApart ==
    [][~ garbled /\ garbled'
       => \/ \E t \in Threads : pc[t] \in {"send", "transfer"}
          \/ \E t \in Threads, e \in Objects : LogThrows(t, e)]_vars

(***************************************************************************)
(* A Failure shows the parameters of the exception it stands for, or none, *)
(* or what stays in the symbol of an earlier exception that was caught     *)
(* after it had sent them, or came back with a code for which the Wolfram  *)
(* Language layer reads none.                                              *)
(***************************************************************************)
FailureShowsItsOwn ==
    [][Return /\ ParametersRead(obj[hand[Main]].name)
       => details \in {0, obj[hand[Main]].of} \cup unread]_vars
=============================================================================
