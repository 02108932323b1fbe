------------------------ MODULE ErrorReportingProofs ------------------------
(***************************************************************************)
(* Proofs about ErrorManager and ErrorReporting for any paclet, threads,   *)
(* exception objects and loopback links: codes identify errors, links have *)
(* one owner, logs keep apart, names are found, and, for careful programs, *)
(* a Failure shows the parameters of its own exception.                    *)
(***************************************************************************)
EXTENDS ErrorReporting, FiniteSetTheorems, WellFoundedInduction, TLAPS

-----------------------------------------------------------------------------
(* The table of the library's errors.                                      *)

LEMMA AreSequences ==
    ASSUME NEW S, NEW n \in Nat, NEW f \in [1 .. n -> S]
    PROVE  Len(f) = n
<1>1. f \in Seq(S)
  OBVIOUS
<1>2. 1 .. Len(f) = 1 .. n /\ Len(f) \in Nat
  BY <1>1
<1> QED BY <1>2

LEMMA Table == DOMAIN LLUErrors = 1 .. 86 /\ Len(LLUErrors) = 86
<1>1. DOMAIN ErrorNames = 1 .. 86
  BY DEF ErrorNames
<1>2. DOMAIN LLUErrors = 1 .. 86
  BY <1>1 DEF LLUErrors
<1>3. LLUErrors \in [1 .. 86 -> LLUNames]
  <2>1. LLUErrors = [i \in 1 .. 86 |-> LLUErrors[i]]
    BY <1>2 DEF LLUErrors
  <2>2. \A i \in 1 .. 86 : LLUErrors[i] \in LLUNames
    BY <1>2 DEF LLUNames
  <2> QED BY <2>1, <2>2
<1>4. Len(LLUErrors) = 86
  BY <1>3, AreSequences
<1> QED BY <1>2, <1>4

\* Place is the first row with the name.
LEMMA FirstRow ==
    ASSUME NEW n \in LLUNames
    PROVE  Place(n) \in 1 .. 86 /\ LLUErrors[Place(n)] = n
<1> DEFINE Rows == {i \in 1 .. 86 : LLUErrors[i] = n}
<1>1. Rows \subseteq Nat /\ Rows # {}
  <2>1. PICK i \in 1 .. 86 : n = LLUErrors[i]
    BY Table DEF LLUNames
  <2> QED BY <2>1
<1>2. PICK i \in Rows : \A j \in Rows : ~ (j < i)
  <2>1. IsWellFoundedOn(OpToRel(<, Nat), Nat)
    BY NatLessThanWellFounded
  <2>2. PICK i \in Rows : \A j \in Rows : <<j, i>> \notin OpToRel(<, Nat)
    BY <1>1, <2>1, WFMin, ZenonT(30)
  <2> QED BY <1>1, <2>2 DEF OpToRel
<1>3. \A j \in 1 .. i - 1 : LLUErrors[j] # n
  BY <1>2, Table
<1>4. \E k \in DOMAIN LLUErrors : LLUErrors[k] = n /\ \A j \in 1 .. k - 1 : LLUErrors[j] # n
  <2>1. i \in DOMAIN LLUErrors /\ LLUErrors[i] = n
    BY <1>2, Table
  <2> QED BY <1>3, <2>1, Zenon
<1> QED BY <1>4, Table DEF Place

LEMMA LLUCodesFacts ==
    /\ LLUCodesDiffer
    /\ \A n \in LLUNames : LLUCodes[n] \in Int /\ LLUCodes[n] > VersionError - 86
<1>1. ASSUME NEW n \in LLUNames PROVE LLUCodes[n] = 8 - Place(n)
  <2>1. Place(n) \in Int
    BY FirstRow
  <2> QED BY <2>1 DEF LLUCodes, VersionError
<1>2. ASSUME NEW n1 \in LLUNames, NEW n2 \in LLUNames, LLUCodes[n1] = LLUCodes[n2]
      PROVE  n1 = n2
  <2>1. Place(n1) = Place(n2)
    BY <1>1, <1>2, FirstRow
  <2> QED BY <2>1, FirstRow
<1> QED BY <1>1, <1>2, FirstRow DEF LLUCodesDiffer, VersionError

-----------------------------------------------------------------------------
(* The registry.                                                           *)

RegInv == RegistryTypeOK /\ CodesDescend

LEMMA RegistryInitial == RegistryInit => RegInv
  BY Table DEF RegistryInit, RegInv, RegistryTypeOK, CodesDescend, VersionError

LEMMA InsertInv ==
    ASSUME RegInv, SetNew
    PROVE  RegInv'
<1> DEFINE err == Head(pending)
<1>1. pending \in Seq(PacletErrors) /\ pending # <<>>
  BY DEF RegInv, RegistryTypeOK, SetNew
<1>2. err \in PacletErrors /\ Tail(pending) \in Seq(PacletErrors)
  BY <1>1
<1>3. err.name \in STRING /\ err.message \in STRING
  BY <1>2, RegistryAssumption
<1>4. err.name \notin LLUNames /\ err.name \notin DOMAIN paclet
  BY DEF SetNew, Registered
<1>5. nextErrorId \in Int /\ nextErrorId <= VersionError - 86
  BY Table DEF RegInv, RegistryTypeOK, CodesDescend
<1>6. /\ DOMAIN paclet' = DOMAIN paclet \cup {err.name}
      /\ paclet'[err.name] = [id |-> nextErrorId, message |-> err.message]
      /\ \A n \in DOMAIN paclet : paclet'[n] = paclet[n]
  BY <1>4 DEF SetNew, Insert
<1>7. nextErrorId' = nextErrorId - 1 /\ pending' = Tail(pending) /\ lut' = lut
  BY DEF SetNew
<1> HIDE DEF err
<1>8. RegistryTypeOK'
  BY <1>2, <1>3, <1>5, <1>6, <1>7 DEF RegInv, RegistryTypeOK
<1>9. CodesDescend'
  <2>1. \A n \in DOMAIN paclet' :
           n \notin LLUNames /\ nextErrorId' < paclet'[n].id /\ paclet'[n].id <= VersionError - Len(LLUErrors)
    BY <1>4, <1>5, <1>6, <1>7, Table DEF RegInv, CodesDescend, RegistryTypeOK, VersionError
  <2>2. \A n \in DOMAIN paclet : paclet[n].id > nextErrorId /\ paclet[n].id \in Int
    BY DEF RegInv, CodesDescend, RegistryTypeOK
  <2>3. \A n1, n2 \in DOMAIN paclet' : paclet'[n1].id = paclet'[n2].id => n1 = n2
    BY <1>5, <1>6, <2>2 DEF RegInv, CodesDescend
  <2> QED BY <1>5, <1>6, <1>7, <2>1, <2>3, Table DEF RegInv, CodesDescend, VersionError
<1> QED BY <1>8, <1>9 DEF RegInv

LEMMA RegistryStep ==
    ASSUME RegInv, [RegistryNext]_registry
    PROVE  RegInv'
<1>1. ASSUME NEW n \in 1 .. MaxList, NEW errs \in [1 .. n -> PacletErrors], RegisterPacletErrors(errs)
      PROVE  RegInv'
  <2>1. errs \in Seq(PacletErrors)
    BY RegistryAssumption
  <2> QED BY <1>1, <2>1 DEF RegisterPacletErrors, RegInv, RegistryTypeOK, CodesDescend
<1>2. CASE SetNew
  BY <1>2, InsertInv
<1>3. CASE SetExisting
  <2>1. Tail(pending) \in Seq(PacletErrors) /\ <<>> \in Seq(PacletErrors)
    BY <1>3 DEF SetExisting, RegInv, RegistryTypeOK
  <2> QED BY <1>3, <2>1 DEF SetExisting, RegInv, RegistryTypeOK, CodesDescend
<1>4. CASE SendRegisteredErrors
  <2>1. \A n \in DOMAIN paclet : paclet[n].id \in Int
    BY DEF RegInv, RegistryTypeOK
  <2> QED BY <1>4, <2>1 DEF SendRegisteredErrors, RegInv, RegistryTypeOK, CodesDescend
<1>5. CASE UNCHANGED registry
  BY <1>5 DEF registry, RegInv, RegistryTypeOK, CodesDescend
<1> QED BY <1>1, <1>2, <1>3, <1>4, <1>5 DEF RegistryNext

LEMMA Identified == RegInv => ErrorIdentified
<1> SUFFICES ASSUME RegInv PROVE ErrorIdentified
  OBVIOUS
<1>1. ASSUME NEW n1 \in Registered, NEW n2 \in DOMAIN paclet, Code(n1) = Code(n2)
      PROVE  n1 = n2
  <2>1. n2 \notin LLUNames /\ Code(n2) = paclet[n2].id
    BY DEF RegInv, CodesDescend, Code
  <2>2. CASE n1 \in LLUNames
    <3>1. Code(n1) = LLUCodes[n1] /\ Code(n1) > VersionError - 86 /\ Code(n1) \in Int
      BY <2>2, LLUCodesFacts DEF Code
    <3>2. Code(n2) <= VersionError - 86
      BY <2>1, Table DEF RegInv, CodesDescend
    <3> QED BY <1>1, <3>1, <3>2 DEF VersionError
  <2>3. CASE n1 \notin LLUNames
    <3>1. n1 \in DOMAIN paclet /\ Code(n1) = paclet[n1].id
      BY <2>3 DEF Registered, Code
    <3> QED BY <1>1, <2>1, <3>1 DEF RegInv, CodesDescend
  <2> QED BY <2>2, <2>3
<1>2. ASSUME NEW n \in DOMAIN lut PROVE n \in Registered /\ lut[n] = Code(n)
  BY DEF RegInv, CodesDescend, Registered, Code
<1> QED BY <1>1, <1>2, LLUCodesFacts DEF ErrorIdentified

-----------------------------------------------------------------------------
(* The invariant of the reports.                                           *)

\* An open link has one owner or is lost; none owned or lost is closed.
OwnedInv ==
    /\ \A e1, e2 \in Objects :
          obj[e1].params = obj[e2].params /\ obj[e1].params # NoLink => e1 = e2
    /\ \A e \in Objects : obj[e].params # NoLink =>
          obj[e].params \notin lost /\ loop[obj[e].params] \in {Drained, obj[e].of}
    /\ \A l \in lost : loop[l] # Closed
    /\ \A l \in Loops : loop[l] # Closed /\ l \notin lost =>
          \E e \in Objects : obj[e].params = l

\* What threads have in hand, and where they stand.
FlightInv ==
    /\ \A t \in Threads :
          /\ mlinkGuard = t <=> pc[t] = "log"
          /\ pc[t] \in {"send", "transfer"} => hand[t] # NoObject
          /\ hand[t] # NoObject => Live(hand[t])
          /\ \A u \in Threads : hand[t] = hand[u] /\ hand[t] # NoObject => t = u
    /\ \A e \in Objects : Live(e) => obj[e].of > 0 /\ thrown > 0

Asked == ThrownNames \cup {"WSPutScalarError"}

IInv == TypeOK /\ OwnedInv /\ FlightInv

-----------------------------------------------------------------------------
(* Helpers.                                                                *)

Record == [of : Nat, name : Names, params : Loops \cup {NoLink}]

LEMMA TypeFacts ==
    ASSUME TypeOK
    PROVE  /\ obj \in [Objects -> Record]
           /\ loop \in [Loops -> Int] /\ lost \subseteq Loops
           /\ pc \in [Threads -> {"run", "send", "transfer", "log"}]
           /\ hand \in [Threads -> Objects \cup {NoObject}]
           /\ thrown \in Nat /\ details \in Nat /\ unread \in SUBSET Nat
           /\ MaxThrows \in Nat
  BY ReportingAssumption DEF TypeOK, Record

LEMMA EmptyPlace == NoError.params = NoLink /\ NoError.of = 0
  BY DEF NoError

LEMMA FoundName ==
    ASSUME NEW asked \in Asked
    PROVE  Found(asked) \in Names
  BY DEF Asked, Found, Names

LEMMA ClosingFacts ==
    ASSUME TypeOK, NEW p \in Loops \cup {NoLink}
    PROVE  /\ Closing(p) \in [Loops -> Int]
           /\ \A x \in Loops : Closing(p)[x] = IF x = p THEN Closed ELSE loop[x]
  BY ReportingAssumption DEF Closing, Closed, TypeOK

LEMMA OpenFacts ==
    ASSUME TypeOK, NEW l \in Loops \cup {NoLink}, NEW what \in Int, OpenLoopback(l, what)
    PROVE  /\ loop' \in [Loops -> Int]
           /\ \A x \in Loops : loop'[x] = IF x = l THEN what ELSE loop[x]
           /\ l # NoLink => loop[l] = Closed
  BY ReportingAssumption DEF OpenLoopback, TypeOK

\* TypeOK and OwnedInv depend on the following parts of the state.
LEMMA RegFrame ==
    ASSUME TypeOK, UNCHANGED registry
    PROVE  RegistryTypeOK' /\ CodesDescend'
  BY DEF TypeOK, registry, RegistryTypeOK, CodesDescend

LEMMA CarryFrame ==
    ASSUME OwnedInv, UNCHANGED carrying
    PROVE  OwnedInv'
  BY DEF OwnedInv, carrying, Live

LEMMA InitInv == ReportingInit => IInv
<1> SUFFICES ASSUME ReportingInit PROVE IInv
  OBVIOUS
<1>1. RegistryTypeOK /\ CodesDescend
  BY RegistryInitial DEF ReportingInit, RegInv
<1>2. TypeOK
  <2>1. NoError \in [of : Nat, name : Names, params : Loops \cup {NoLink}]
    BY DEF NoError, Names
  <2>2. obj \in [Objects -> [of : Nat, name : Names, params : Loops \cup {NoLink}]]
    BY <2>1 DEF ReportingInit
  <2>3. loop \in [Loops -> Int] /\ lost \in SUBSET Loops
    BY DEF ReportingInit, Closed
  <2>4. thrown \in 0 .. MaxThrows
    BY ReportingAssumption DEF ReportingInit
  <2>5. /\ pc \in [Threads -> {"run", "send", "transfer", "log"}]
        /\ hand \in [Threads -> Objects \cup {NoObject}]
    BY DEF ReportingInit
  <2> QED BY <1>1, <2>2, <2>3, <2>4, <2>5 DEF ReportingInit, TypeOK
<1>3. OwnedInv
  BY DEF ReportingInit, OwnedInv, NoError, Closed, Live
<1>4. FlightInv
  BY ReportingAssumption DEF ReportingInit, FlightInv, Live, Threads
<1> QED BY <1>2, <1>3, <1>4 DEF IInv

-----------------------------------------------------------------------------
(* Throwing.                                                               *)

\* The types that a step of the exceptions leaves to be shown.
LEMMA TypeFrame ==
    ASSUME TypeOK, UNCHANGED <<registry, shown, sendParametersImmediately>>,
           obj' \in [Objects -> Record], loop' \in [Loops -> Int], lost' \subseteq Loops,
           garbled' \in BOOLEAN, mlinkGuard' \in Threads \cup {NoThread},
           pc' \in [Threads -> {"run", "send", "transfer", "log"}],
           hand' \in [Threads -> Objects \cup {NoObject}], thrown' \in 0 .. MaxThrows
    PROVE  TypeOK'
<1>1. RegistryTypeOK' /\ CodesDescend'
  BY RegFrame
<1> QED BY <1>1 DEF TypeOK, Record, shown

\* What throwException and a log that throws have in common.
NewObject(t, e, asked, l, where) ==
    /\ ~ Live(e) /\ hand[t] = NoObject /\ pc[t] \in {"run", "log"}
    /\ thrown < MaxThrows /\ thrown' = thrown + 1
    /\ obj' = [obj EXCEPT ![e] = [of |-> thrown + 1, name |-> Found(asked), params |-> l]]
    /\ hand' = [hand EXCEPT ![t] = e]
    /\ pc' = [pc EXCEPT ![t] = where]
    /\ garbled' \in BOOLEAN
    /\ mlinkGuard' = IF pc[t] = "log" THEN NoThread ELSE mlinkGuard
    /\ UNCHANGED <<registry, shown, sendParametersImmediately, lost>>

LEMMA NewObjectInv ==
    ASSUME IInv, NEW t \in Threads, NEW e \in Objects, NEW asked \in Asked,
           NEW l \in Loops \cup {NoLink}, NEW w \in {"run", "send"},
           NewObject(t, e, asked, l, w), OpenLoopback(l, thrown + 1)
    PROVE  IInv'
<1> DEFINE new == [of |-> thrown + 1, name |-> Found(asked), params |-> l]
<1>1. TypeOK
  BY DEF IInv
<1>2. thrown' = thrown + 1 /\ thrown \in Nat /\ thrown' \in 0 .. MaxThrows
  BY <1>1, ReportingAssumption DEF NewObject, TypeOK
<1>3. new \in Record
  BY <1>2, FoundName DEF Record
<1>4. /\ obj' \in [Objects -> Record] /\ obj'[e] = new
      /\ \A x \in Objects \ {e} : obj'[x] = obj[x]
  <2>1. obj' = [obj EXCEPT ![e] = new]
    BY DEF NewObject
  <2> HIDE DEF new
  <2> QED BY <1>1, <1>3, <2>1, TypeFacts
<1>5. /\ loop' \in [Loops -> Int]
      /\ l # NoLink => loop[l] = Closed
      /\ \A x \in Loops : loop'[x] = IF x = l THEN thrown + 1 ELSE loop[x]
  BY <1>1, <1>2, OpenFacts
<1>6. /\ hand' \in [Threads -> Objects \cup {NoObject}] /\ hand'[t] = e /\ hand[t] = NoObject
      /\ \A u \in Threads \ {t} : hand'[u] = hand[u]
      /\ pc' \in [Threads -> {"run", "send", "transfer", "log"}] /\ pc'[t] = w /\ pc[t] \in {"run", "log"}
      /\ \A u \in Threads \ {t} : pc'[u] = pc[u]
      /\ mlinkGuard' = IF pc[t] = "log" THEN NoThread ELSE mlinkGuard
      /\ garbled' \in BOOLEAN
      /\ UNCHANGED <<lost, registry, shown, sendParametersImmediately>>
      /\ ~ Live(e)
  BY <1>1, TypeFacts DEF NewObject
<1>7. TypeOK'
  <2>1. garbled' \in BOOLEAN /\ mlinkGuard' \in Threads \cup {NoThread} /\ lost' \subseteq Loops
    BY <1>1, <1>6 DEF TypeOK
  <2>2. UNCHANGED <<registry, shown, sendParametersImmediately>>
    BY <1>6
  <2> QED BY <1>1, <1>2, <1>4, <1>5, <1>6, <2>1, <2>2, TypeFrame
<1>8. OwnedInv'
  <2>0. obj[e] = NoError
    BY <1>6 DEF Live
  <2>1. obj[e].params = NoLink
    BY <2>0, EmptyPlace, Zenon
  <2>2. /\ obj'[e].params = l /\ obj'[e].of = thrown + 1
        /\ \A x \in Objects \ {e} : obj'[x].params = obj[x].params /\ obj'[x].of = obj[x].of
    BY <1>4
  <2>3. \A x \in Objects : obj[x].params # NoLink => obj[x].params \in Loops /\ loop[obj[x].params] # Closed
    BY <1>1, TypeFacts DEF IInv, OwnedInv, Record, Closed, Drained
  <2>4. \A x \in Objects : obj[x].params # NoLink => obj[x].params # l
    BY <1>5, <2>3
  <2>5. thrown + 1 # Closed
    BY <1>2 DEF Closed
  <2>6. lost' = lost /\ lost \subseteq Loops /\ l \notin lost
    <3>1. lost' = lost /\ lost \subseteq Loops
      BY <1>1, <1>6, TypeFacts
    <3>2. CASE l = NoLink
      BY <3>1, <3>2, ReportingAssumption
    <3>3. CASE l # NoLink
      BY <1>5, <3>1, <3>3 DEF IInv, OwnedInv
    <3> QED BY <3>1, <3>2, <3>3
  <2>7. ASSUME NEW x \in Objects, obj'[x].params # NoLink
        PROVE  obj'[x].params \notin lost /\ loop'[obj'[x].params] \in {Drained, obj'[x].of}
    <3>1. CASE x = e
      BY <1>5, <2>2, <2>6, <2>7, <3>1
    <3>2. CASE x # e
      BY <1>5, <2>2, <2>3, <2>4, <2>7, <3>2 DEF IInv, OwnedInv
    <3> QED BY <3>1, <3>2
  <2>8. \A l2 \in lost : loop'[l2] # Closed
    BY <1>5, <2>5, <2>6 DEF IInv, OwnedInv
  <2>9. ASSUME NEW l2 \in Loops, loop'[l2] # Closed, l2 \notin lost
        PROVE  \E x \in Objects : obj'[x].params = l2
    <3>1. CASE l2 = l
      BY <2>2, <3>1
    <3>2. CASE l2 # l
      <4>1. PICK x \in Objects : obj[x].params = l2
        BY <1>5, <2>9, <3>2 DEF IInv, OwnedInv
      <4>2. x # e
        BY <2>1, <4>1, ReportingAssumption
      <4> QED BY <2>2, <4>1, <4>2
    <3> QED BY <3>1, <3>2
  <2>10. \A x1, x2 \in Objects : obj'[x1].params = obj'[x2].params /\ obj'[x1].params # NoLink => x1 = x2
    BY <2>2, <2>4 DEF IInv, OwnedInv
  <2> QED BY <2>6, <2>7, <2>8, <2>9, <2>10 DEF OwnedInv
<1>9. FlightInv'
  <2>1. new # NoError
    <3>1. new.of = thrown + 1 /\ NoError.of = 0
      BY DEF NoError
    <3> QED BY <1>2, <3>1
  <2>2. \A x \in Objects : obj[x] # NoError => obj'[x] # NoError
    BY <1>4, <2>1
  <2>4. e # NoObject
    BY ReportingAssumption
  <2>3. \A u \in Threads \ {t} : hand[u] # e
    <3>1. obj[e] = NoError
      BY <1>6 DEF Live
    <3>2. \A u \in Threads : hand[u] # NoObject => obj[hand[u]] # NoError
      BY DEF IInv, FlightInv, Live
    <3> QED BY <2>4, <3>1, <3>2
  <2>5. thrown' > 0
    BY <1>2
  <2>6. \A u \in Threads : hand[u] # NoObject => hand[u] \in Objects /\ obj[hand[u]] # NoError
    BY <1>1, TypeFacts DEF IInv, FlightInv, Live
  <2>7. \A u \in Threads : /\ mlinkGuard' = u <=> pc'[u] = "log"
                           /\ pc'[u] \in {"send", "transfer"} => hand'[u] # NoObject
    BY <1>6, <2>4, ReportingAssumption DEF IInv, FlightInv, Threads
  <2>8. \A u \in Threads : hand'[u] # NoObject => obj'[hand'[u]] # NoError
    BY <1>4, <1>6, <2>1, <2>2, <2>6
  <2>9. \A u, v \in Threads : hand'[u] = hand'[v] /\ hand'[u] # NoObject => u = v
    BY <1>6, <2>3 DEF IInv, FlightInv
  <2>10. \A x \in Objects : obj'[x] # NoError => obj'[x].of > 0
    <3>1. obj'[e].of = thrown + 1
      BY <1>4
    <3>2. \A x \in Objects \ {e} : obj'[x] # NoError => obj'[x].of > 0
      BY <1>4 DEF IInv, FlightInv, Live
    <3> QED BY <1>2, <3>1, <3>2
  <2> QED BY <2>5, <2>7, <2>8, <2>9, <2>10 DEF FlightInv, Live
<1> QED BY <1>7, <1>8, <1>9 DEF IInv

LEMMA ThrowPlainInv ==
    ASSUME IInv, NEW t \in Threads, NEW e \in Objects, NEW asked \in ThrownNames,
           ThrowPlain(t, e, asked)
    PROVE  IInv'
<1>1. pc' = [pc EXCEPT ![t] = "run"]
  BY TypeFacts DEF ThrowPlain, NewError, IInv
<1>2. garbled \in BOOLEAN /\ pc[t] = "run"
  BY DEF IInv, TypeOK, ThrowPlain, NewError
<1>3. NewObject(t, e, asked, NoLink, "run")
  BY <1>1, <1>2 DEF ThrowPlain, NewError, NewObject
<1>4. OpenLoopback(NoLink, thrown + 1)
  BY DEF ThrowPlain, OpenLoopback
<1>5. asked \in Asked
  BY DEF Asked
<1> QED BY <1>3, <1>4, <1>5, NewObjectInv

LEMMA ThrowWithParametersInv ==
    ASSUME IInv, NEW t \in Threads, NEW e \in Objects, NEW asked \in ThrownNames,
           NEW l \in Loops \cup {NoLink}, ThrowWithParameters(t, e, asked, l)
    PROVE  IInv'
<1> DEFINE w == IF sendParametersImmediately THEN "send" ELSE "run"
<1>1. garbled \in BOOLEAN /\ pc[t] = "run" /\ thrown' = thrown + 1
  BY DEF IInv, TypeOK, ThrowWithParameters, NewError
<1>2. NewObject(t, e, asked, l, w)
  BY <1>1 DEF ThrowWithParameters, NewError, NewObject, GoTo
<1>3. OpenLoopback(l, thrown + 1)
  BY <1>1 DEF ThrowWithParameters
<1>4. asked \in Asked
  BY DEF Asked
<1>5. w \in {"run", "send"}
  OBVIOUS
<1> QED BY <1>2, <1>3, <1>4, <1>5, NewObjectInv

LEMMA LogThrowsInv ==
    ASSUME IInv, NEW t \in Threads, NEW e \in Objects, LogThrows(t, e)
    PROVE  IInv'
<1>1. thrown' = thrown + 1
  BY DEF LogThrows
<1>2. NewObject(t, e, "WSPutScalarError", NoLink, "run")
  BY <1>1 DEF LogThrows, NewObject, GoTo
<1>3. OpenLoopback(NoLink, thrown + 1)
  BY DEF LogThrows, OpenLoopback
<1>4. "WSPutScalarError" \in Asked
  BY DEF Asked
<1> QED BY <1>2, <1>3, <1>4, NewObjectInv

-----------------------------------------------------------------------------
(* Steps that change objects and links and leave the threads where they are.*)

\* What OwnedInv says of one object.
LEMMA Holding ==
    ASSUME TypeOK, OwnedInv, NEW e \in Objects
    PROVE  /\ obj[e] \in Record /\ obj[e].params \in Loops \cup {NoLink}
           /\ obj[e].params # NoLink =>
                /\ obj[e].params \in Loops /\ obj[e].params \notin lost
                /\ loop[obj[e].params] \in {Drained, obj[e].of}
                /\ loop[obj[e].params] # Closed
                /\ \A x \in Objects \ {e} : obj[x].params # obj[e].params
<1>1. obj[e] \in Record
  BY TypeFacts
<1>2. obj[e].params \in Loops \cup {NoLink} /\ obj[e].of \in Nat
  BY <1>1 DEF Record
<1> QED BY <1>1, <1>2 DEF OwnedInv, Closed, Drained

LEMMA FlightFrame ==
    ASSUME FlightInv, UNCHANGED <<mlinkGuard, pc, hand, thrown>>,
           \A t \in Threads : hand[t] # NoObject => obj'[hand[t]] # NoError,
           \A e \in Objects : obj'[e] # NoError => obj'[e].of > 0 /\ thrown > 0
    PROVE  FlightInv'
  BY DEF FlightInv, Live

LEMMA SetMessageParametersInv ==
    ASSUME IInv, NEW t \in Threads, NEW l \in Loops \cup {NoLink}, SetMessageParameters(t, l)
    PROVE  IInv'
<1> DEFINE e == hand[t]
           p == obj[e].params
<1>1. TypeOK /\ OwnedInv /\ FlightInv
  BY DEF IInv
<1>2. e \in Objects /\ obj[e] # NoError
  BY <1>1, TypeFacts DEF SetMessageParameters, FlightInv, Live
<1>3. /\ obj[e] \in Record /\ p \in Loops \cup {NoLink} /\ obj[e].of \in Int
      /\ p # NoLink => p \in Loops /\ p \notin lost /\ loop[p] # Closed
  BY <1>1, <1>2, Holding DEF Record
<1>4. /\ obj' \in [Objects -> Record] /\ obj'[e].params = l /\ obj'[e].of = obj[e].of
      /\ \A x \in Objects \ {e} : obj'[x] = obj[x]
  <2>1. obj' = [obj EXCEPT ![e] = [obj[e] EXCEPT !.params = l]]
    BY DEF SetMessageParameters
  <2>2. [obj[e] EXCEPT !.params = l] \in Record
    BY <1>3 DEF Record
  <2>3. obj \in [Objects -> Record]
    BY <1>1, TypeFacts
  <2>4. /\ [obj[e] EXCEPT !.params = l].params = l /\ [obj[e] EXCEPT !.params = l].of = obj[e].of
    BY <1>3 DEF Record
  <2> HIDE DEF e
  <2> QED BY <1>2, <2>1, <2>2, <2>3, <2>4
<1>5. lost' = lost \cup ({p} \ {NoLink}) /\ lost \subseteq Loops
  BY <1>1, TypeFacts DEF SetMessageParameters
<1>6. /\ loop' \in [Loops -> Int]
      /\ l # NoLink => loop[l] = Closed
      /\ \A x \in Loops : loop'[x] = IF x = l THEN obj[e].of ELSE loop[x]
  <2>1. OpenLoopback(l, obj[e].of)
    BY DEF SetMessageParameters
  <2> QED BY <1>1, <1>3, <2>1, OpenFacts
<1>7. /\ UNCHANGED <<registry, shown, sendParametersImmediately>>
      /\ UNCHANGED <<mlinkGuard, pc, hand, thrown, garbled>>
  BY DEF SetMessageParameters, talking
<1>8. NoLink \notin Loops
  BY ReportingAssumption
<1> HIDE DEF e, p
<1>9. TypeOK'
  <2>1. lost' \subseteq Loops
    BY <1>3, <1>5
  <2> QED BY <1>1, <1>4, <1>6, <1>7, <2>1, TypeFrame DEF TypeOK
<1>10. OwnedInv'
  <2>1. \A x \in Objects : obj[x].params # NoLink => obj[x].params # l
    <3>1. ASSUME NEW x \in Objects, obj[x].params # NoLink PROVE loop[obj[x].params] # Closed
      BY <1>1, <3>1, Holding
    <3> QED BY <1>6, <3>1
  <2>2. \A x1, x2 \in Objects : obj'[x1].params = obj'[x2].params /\ obj'[x1].params # NoLink => x1 = x2
    BY <1>1, <1>4, <2>1 DEF OwnedInv
  <2>3. l \notin lost'
    <3>1. l # NoLink => l \notin lost
      BY <1>1, <1>6 DEF OwnedInv
    <3>2. l # NoLink => l # p
      BY <1>3, <1>6
    <3> QED BY <1>5, <1>8, <3>1, <3>2
  <2>4. ASSUME NEW x \in Objects, obj'[x].params # NoLink
        PROVE  obj'[x].params \notin lost' /\ loop'[obj'[x].params] \in {Drained, obj'[x].of}
    <3>1. CASE x = e
      <4>1. l \in Loops
        BY <1>4, <2>4, <3>1
      <4> QED BY <1>4, <1>6, <2>3, <3>1, <4>1
    <3>2. CASE x # e
      <4>1. /\ obj[x].params \in Loops /\ obj[x].params \notin lost
            /\ loop[obj[x].params] \in {Drained, obj[x].of} /\ obj[x].params # l
        BY <1>1, <1>4, <2>1, <2>4, <3>2, Holding
      <4>2. obj[x].params # p
        BY <1>1, <1>2, <1>4, <2>4, <3>2, Holding DEF p
      <4> QED BY <1>4, <1>5, <1>6, <3>2, <4>1, <4>2
    <3> QED BY <3>1, <3>2
  <2>5. ASSUME NEW l2 \in lost' PROVE loop'[l2] # Closed
    <3>1. loop[l2] # Closed /\ l2 \in Loops
      BY <1>1, <1>3, <1>5, <2>5 DEF OwnedInv
    <3>2. l2 # l
      BY <2>3, <2>5
    <3> QED BY <1>6, <3>1, <3>2
  <2>6. ASSUME NEW l2 \in Loops, loop'[l2] # Closed, l2 \notin lost'
        PROVE  \E x \in Objects : obj'[x].params = l2
    <3>1. CASE l2 = l
      BY <1>2, <1>4, <3>1
    <3>2. CASE l2 # l
      <4>1. PICK x \in Objects : obj[x].params = l2
        BY <1>1, <1>5, <1>6, <2>6, <3>2 DEF OwnedInv
      <4>2. x # e
        BY <1>5, <1>8, <2>6, <4>1 DEF p
      <4> QED BY <1>4, <4>1, <4>2
    <3> QED BY <3>1, <3>2
  <2> QED BY <2>2, <2>4, <2>5, <2>6 DEF OwnedInv
<1>11. FlightInv'
  <2>1. obj'[e].of > 0 /\ thrown > 0
    BY <1>1, <1>2, <1>4 DEF FlightInv, Live
  <2>2. obj'[e] # NoError
    BY <2>1, EmptyPlace
  <2>3. \A u \in Threads : hand[u] # NoObject => hand[u] \in Objects /\ obj[hand[u]] # NoError
    BY <1>1, TypeFacts DEF FlightInv, Live
  <2>4. \A u \in Threads : hand[u] # NoObject => obj'[hand[u]] # NoError
    BY <1>4, <2>2, <2>3
  <2>5. \A x \in Objects : obj'[x] # NoError => obj'[x].of > 0 /\ thrown > 0
    BY <1>1, <1>4, <2>1 DEF FlightInv, Live
  <2> QED BY <1>1, <1>7, <2>4, <2>5, FlightFrame
<1> QED BY <1>9, <1>10, <1>11 DEF IInv

\* Copies and moves: how the objects and the links change, one by one.
LEMMA MemberInv ==
    ASSUME IInv, SpecialMember, obj' \in [Objects -> Record], loop' \in [Loops -> Int],
           OwnedInv',
           \A x \in Objects : obj[x] # NoError => obj'[x] # NoError \/ Kept(x),
           \A x \in Objects : obj'[x] # NoError => obj'[x].of > 0 /\ thrown > 0
    PROVE  IInv'
<1>1. TypeOK /\ FlightInv
  BY DEF IInv
<1>2. /\ UNCHANGED <<registry, shown, sendParametersImmediately, lost>>
      /\ UNCHANGED <<mlinkGuard, pc, hand, thrown, garbled>>
  BY DEF SpecialMember, talking
<1>3. TypeOK'
  BY <1>1, <1>2, TypeFrame DEF TypeOK
<1>4. FlightInv'
  <2>1. \A t \in Threads : hand[t] # NoObject => hand[t] \in Objects /\ obj[hand[t]] # NoError /\ ~ Kept(hand[t])
    BY <1>1, TypeFacts DEF FlightInv, Live, Kept
  <2>2. \A t \in Threads : hand[t] # NoObject => obj'[hand[t]] # NoError
    BY <2>1
  <2> QED BY <1>1, <1>2, <2>2, FlightFrame
<1> QED BY <1>3, <1>4 DEF IInv

LEMMA CopyInv ==
    ASSUME IInv, NEW e \in Objects, NEW e2 \in Objects, NEW l \in Loops \cup {NoLink}, Copy(e, e2, l)
    PROVE  IInv'
<1> DEFINE from == obj[e].params
           old == obj[e2].params
<1>1. TypeOK /\ OwnedInv /\ FlightInv /\ e # e2 /\ obj[e] # NoError /\ Kept(e2)
  BY DEF IInv, Copy, Live
<1>2. /\ obj[e] \in Record /\ obj[e2] \in Record
      /\ from \in Loops \cup {NoLink} /\ old \in Loops \cup {NoLink}
      /\ from # NoLink => loop[from] \in {Drained, obj[e].of} /\ loop[from] \in Int /\ loop[from] # Closed
      /\ old # NoLink => loop[old] # Closed
      /\ from # NoLink => from # old
  BY <1>1, Holding, TypeFacts
<1>3. /\ obj' \in [Objects -> Record] /\ obj'[e2].params = l /\ obj'[e2].of = obj[e].of
      /\ \A x \in Objects \ {e2} : obj'[x] = obj[x]
  <2>1. obj' = [obj EXCEPT ![e2] = [obj[e] EXCEPT !.params = l]]
    BY DEF Copy
  <2>2. [obj[e] EXCEPT !.params = l] \in Record
    BY <1>2 DEF Record
  <2>3. obj \in [Objects -> Record]
    BY <1>1, TypeFacts
  <2>4. /\ [obj[e] EXCEPT !.params = l].params = l /\ [obj[e] EXCEPT !.params = l].of = obj[e].of
    BY <1>2 DEF Record
  <2> QED BY <2>1, <2>2, <2>3, <2>4
<1>4. NoLink \notin Loops
  BY ReportingAssumption
<1>5. /\ Closing(old) \in [Loops -> Int]
      /\ \A x \in Loops : Closing(old)[x] = IF x = old THEN Closed ELSE loop[x]
  BY <1>1, <1>2, ClosingFacts
<1>6. /\ loop' \in [Loops -> Int]
      /\ l # NoLink => from # NoLink /\ loop[l] = Closed
      /\ \A x \in Loops : loop'[x] = IF x = l THEN loop[from] ELSE IF x = old THEN Closed ELSE loop[x]
  <2>1. IF from = NoLink \/ l = NoLink THEN l = NoLink /\ loop' = Closing(old)
        ELSE loop[l] = Closed /\ loop' = [Closing(old) EXCEPT ![l] = loop[from]]
    BY DEF Copy
  <2> HIDE DEF from, old
  <2>2. CASE l = NoLink
    BY <1>4, <1>5, <2>1, <2>2
  <2>3. CASE l # NoLink
    <3>1. from # NoLink /\ loop[l] = Closed /\ loop' = [Closing(old) EXCEPT ![l] = loop[from]]
      BY <2>1, <2>3
    <3>2. loop[from] \in Int
      BY <1>1, <1>2, <3>1, TypeFacts
    <3> QED BY <1>5, <2>3, <3>1, <3>2
  <2> QED BY <2>2, <2>3
<1>7. SpecialMember
  BY DEF Copy
<1>8. lost' = lost /\ lost \subseteq Loops
  BY <1>1, <1>7, TypeFacts DEF SpecialMember
<1> HIDE DEF from, old
<1>9. OwnedInv'
  <2>1. ASSUME NEW x \in Objects, obj[x].params # NoLink
        PROVE  /\ obj[x].params # l /\ obj[x].params \in Loops
               /\ obj[x].params \notin lost /\ loop[obj[x].params] \in {Drained, obj[x].of}
               /\ (x = e2 \/ obj[x].params # old)
    <3>1. loop[obj[x].params] # Closed /\ obj[x].params \in Loops
      BY <1>1, <2>1, Holding
    <3>2. \A y \in Objects \ {x} : obj[y].params # obj[x].params
      BY <1>1, <2>1, Holding
    <3>3. obj[x].params # l
      BY <1>6, <2>1, <3>1
    <3>4. x = e2 \/ obj[x].params # old
      BY <3>2 DEF old
    <3> QED BY <1>1, <2>1, <3>1, <3>3, <3>4, Holding
  <2>2. l \notin lost
    BY <1>1, <1>4, <1>6, <1>8 DEF OwnedInv
  <2>3. ASSUME NEW x1 \in Objects, NEW x2 \in Objects,
               obj'[x1].params = obj'[x2].params, obj'[x1].params # NoLink
        PROVE  x1 = x2
    <3>1. x1 = e2 => x2 = e2
      BY <1>3, <2>1, <2>3
    <3>2. x2 = e2 => x1 = e2
      BY <1>3, <2>1, <2>3
    <3>3. x1 # e2 /\ x2 # e2 => x1 = x2
      BY <1>1, <1>3, <2>3 DEF OwnedInv
    <3> QED BY <3>1, <3>2, <3>3
  <2>4. ASSUME NEW x \in Objects, obj'[x].params # NoLink
        PROVE  obj'[x].params \notin lost /\ loop'[obj'[x].params] \in {Drained, obj'[x].of}
    <3>1. CASE x = e2
      <4>1. l \in Loops /\ l # NoLink
        BY <1>3, <2>4, <3>1
      <4>2. loop'[l] \in {Drained, obj[e].of}
        BY <1>2, <1>6, <4>1
      <4> QED BY <1>3, <2>2, <3>1, <4>1, <4>2
    <3>2. CASE x # e2
      <4>1. obj'[x] = obj[x] /\ obj[x].params # NoLink
        BY <1>3, <2>4, <3>2
      <4>2. /\ obj[x].params \notin lost /\ loop[obj[x].params] \in {Drained, obj[x].of}
            /\ obj[x].params # l /\ obj[x].params # old /\ obj[x].params \in Loops
        BY <2>1, <3>2, <4>1
      <4>3. loop'[obj[x].params] = loop[obj[x].params]
        BY <1>6, <4>2
      <4> QED BY <4>1, <4>2, <4>3
    <3> QED BY <3>1, <3>2
  <2>5. ASSUME NEW l2 \in lost PROVE loop'[l2] # Closed
    <3>1. loop[l2] # Closed /\ l2 \in Loops /\ l2 # l
      BY <1>1, <1>8, <2>2, <2>5 DEF OwnedInv
    <3>2. l2 # old
      BY <1>1, <1>4, <2>5, <3>1, Holding DEF old
    <3> QED BY <1>6, <3>1, <3>2
  <2>6. ASSUME NEW l2 \in Loops, loop'[l2] # Closed, l2 \notin lost
        PROVE  \E x \in Objects : obj'[x].params = l2
    <3>1. CASE l2 = l
      BY <1>3, <3>1
    <3>2. CASE l2 # l
      <4>1. l2 # old /\ loop[l2] # Closed
        BY <1>6, <2>6, <3>2
      <4>2. PICK x \in Objects : obj[x].params = l2
        BY <1>1, <2>6, <4>1 DEF OwnedInv
      <4>3. x # e2
        BY <4>1, <4>2 DEF old
      <4> QED BY <1>3, <4>2, <4>3
    <3> QED BY <3>1, <3>2
  <2> QED BY <1>8, <2>3, <2>4, <2>5, <2>6 DEF OwnedInv
<1>11. obj[e].of > 0 /\ thrown > 0
  BY <1>1 DEF FlightInv, Live
<1>12. \A x \in Objects : obj'[x] # NoError => obj'[x].of > 0 /\ thrown > 0
  BY <1>1, <1>3, <1>11 DEF FlightInv, Live
<1>13. \A x \in Objects : obj[x] # NoError => obj'[x] # NoError \/ Kept(x)
  BY <1>1, <1>3
<1> QED BY <1>3, <1>6, <1>7, <1>9, <1>12, <1>13, MemberInv

LEMMA MoveInv ==
    ASSUME IInv, NEW e \in Objects, NEW e2 \in Objects, Move(e, e2)
    PROVE  IInv'
<1> DEFINE old == obj[e2].params
<1>1. TypeOK /\ OwnedInv /\ FlightInv /\ e # e2 /\ obj[e] # NoError /\ Kept(e2)
  BY DEF IInv, Move, Live
<1>2. obj[e] \in Record /\ obj[e2] \in Record /\ old \in Loops \cup {NoLink}
  BY <1>1, Holding
<1>3. /\ obj' \in [Objects -> Record] /\ obj'[e2] = obj[e]
      /\ obj'[e].params = NoLink /\ obj'[e].of = obj[e].of
      /\ \A x \in Objects \ {e, e2} : obj'[x] = obj[x]
  <2> DEFINE r == [obj[e] EXCEPT !.params = NoLink]
  <2>1. obj' = [[obj EXCEPT ![e2] = obj[e]] EXCEPT ![e] = r]
    BY <1>1, TypeFacts DEF Move
  <2>2. r \in Record /\ r.params = NoLink /\ r.of = obj[e].of
    BY <1>2 DEF Record
  <2>3. obj \in [Objects -> Record]
    BY <1>1, TypeFacts
  <2> HIDE DEF r
  <2> QED BY <1>1, <1>2, <2>1, <2>2, <2>3
<1>4. /\ loop' \in [Loops -> Int]
      /\ \A x \in Loops : loop'[x] = IF x = old THEN Closed ELSE loop[x]
  BY <1>1, <1>2, ClosingFacts DEF Move
<1>5. SpecialMember
  BY DEF Move
<1>6. lost' = lost /\ lost \subseteq Loops /\ NoLink \notin Loops
  BY <1>1, <1>5, TypeFacts, ReportingAssumption DEF SpecialMember
<1>7. OwnedInv'
  <2>1. \A x1, x2 \in Objects : obj'[x1].params = obj'[x2].params /\ obj'[x1].params # NoLink => x1 = x2
    BY <1>1, <1>3 DEF OwnedInv
  <2>2. ASSUME NEW x \in Objects, obj'[x].params # NoLink
        PROVE  obj'[x].params \notin lost /\ loop'[obj'[x].params] \in {Drained, obj'[x].of}
    <3>1. PICK y \in Objects \ {e2} : obj[y].params = obj'[x].params /\ obj[y].of = obj'[x].of
      BY <1>1, <1>3, <2>2
    <3>2. /\ obj[y].params \notin lost /\ loop[obj[y].params] \in {Drained, obj[y].of}
          /\ obj[y].params \in Loops
      BY <1>1, <2>2, <3>1, Holding
    <3>3. obj[y].params # old
      BY <1>1, <2>2, <3>1, Holding
    <3> QED BY <1>4, <3>1, <3>2, <3>3
  <2>3. ASSUME NEW l2 \in lost PROVE loop'[l2] # Closed
    <3>1. loop[l2] # Closed /\ l2 \in Loops
      BY <1>1, <1>6, <2>3 DEF OwnedInv
    <3>2. l2 # old
      BY <1>1, <1>6, <2>3, <3>1, Holding
    <3> QED BY <1>4, <3>1, <3>2
  <2>4. ASSUME NEW l2 \in Loops, loop'[l2] # Closed, l2 \notin lost
        PROVE  \E x \in Objects : obj'[x].params = l2
    <3>1. l2 # old /\ loop[l2] # Closed
      BY <1>4, <2>4
    <3>2. PICK x \in Objects : obj[x].params = l2
      BY <1>1, <2>4, <3>1 DEF OwnedInv
    <3>3. x # e2
      BY <3>1, <3>2
    <3> QED BY <1>3, <3>2, <3>3
  <2> QED BY <1>6, <2>1, <2>2, <2>3, <2>4 DEF OwnedInv
<1>9. obj[e].of > 0 /\ thrown > 0
  BY <1>1 DEF FlightInv, Live
<1>10. \A x \in Objects : obj'[x] # NoError => obj'[x].of > 0 /\ thrown > 0
  BY <1>1, <1>3, <1>9 DEF FlightInv, Live
<1>11. \A x \in Objects : obj[x] # NoError => obj'[x] # NoError \/ Kept(x)
  <2>1. obj'[e] # NoError
    BY <1>3, <1>9, EmptyPlace
  <2> QED BY <1>1, <1>3, <2>1
<1> QED BY <1>3, <1>4, <1>5, <1>7, <1>10, <1>11, MemberInv
-----------------------------------------------------------------------------
(* Objects that die.                                                       *)

LEMMA DiesFacts ==
    ASSUME IInv, NEW e \in Objects, Live(e), Dies(e), lost' = lost
    PROVE  /\ obj' \in [Objects -> Record] /\ loop' \in [Loops -> Int]
           /\ obj'[e] = NoError /\ \A x \in Objects \ {e} : obj'[x] = obj[x]
           /\ OwnedInv'
<1> DEFINE p == obj[e].params
<1>1. TypeOK /\ OwnedInv
  BY DEF IInv
<1>2. NoError \in Record
  BY DEF NoError, Names, Record
<1>3. /\ obj' \in [Objects -> Record] /\ obj'[e] = NoError
      /\ \A x \in Objects \ {e} : obj'[x] = obj[x]
  BY <1>1, <1>2, TypeFacts DEF Dies
<1>4. p \in Loops \cup {NoLink}
  BY <1>1, Holding
<1>5. /\ loop' \in [Loops -> Int]
      /\ \A x \in Loops : loop'[x] = IF x = p THEN Closed ELSE loop[x]
  BY <1>1, <1>4, ClosingFacts DEF Dies
<1>6. lost' = lost /\ lost \subseteq Loops /\ NoLink \notin Loops
  BY <1>1, TypeFacts, ReportingAssumption
<1>7. obj'[e].params = NoLink
  BY <1>3, EmptyPlace
<1>8. OwnedInv'
  <2>1. ASSUME NEW x \in Objects, obj'[x].params # NoLink
        PROVE  x # e /\ obj'[x] = obj[x] /\ obj[x].params # NoLink
    BY <1>3, <1>7, <2>1
  <2>2. \A x1, x2 \in Objects : obj'[x1].params = obj'[x2].params /\ obj'[x1].params # NoLink => x1 = x2
    BY <1>1, <2>1 DEF OwnedInv
  <2>3. ASSUME NEW x \in Objects, obj'[x].params # NoLink
        PROVE  obj'[x].params \notin lost /\ loop'[obj'[x].params] \in {Drained, obj'[x].of}
    <3>1. /\ obj[x].params \notin lost /\ loop[obj[x].params] \in {Drained, obj[x].of}
          /\ obj[x].params \in Loops
      BY <1>1, <2>1, <2>3, Holding
    <3>2. obj[x].params # p
      BY <1>1, <2>1, <2>3, Holding
    <3> QED BY <1>5, <2>1, <2>3, <3>1, <3>2
  <2>4. ASSUME NEW l2 \in lost PROVE loop'[l2] # Closed
    <3>1. loop[l2] # Closed /\ l2 \in Loops
      BY <1>1, <1>6, <2>4 DEF OwnedInv
    <3>2. l2 # p
      BY <1>1, <1>6, <2>4, <3>1, Holding
    <3> QED BY <1>5, <3>1, <3>2
  <2>5. ASSUME NEW l2 \in Loops, loop'[l2] # Closed, l2 \notin lost
        PROVE  \E x \in Objects : obj'[x].params = l2
    <3>1. l2 # p /\ loop[l2] # Closed
      BY <1>5, <2>5
    <3>2. PICK x \in Objects : obj[x].params = l2
      BY <1>1, <2>5, <3>1 DEF OwnedInv
    <3>3. x # e
      BY <3>1, <3>2
    <3> QED BY <1>3, <3>2, <3>3
  <2> QED BY <1>6, <2>2, <2>3, <2>4, <2>5 DEF OwnedInv
<1> QED BY <1>3, <1>5, <1>8

LEMMA DestroyInv ==
    ASSUME IInv, NEW e \in Objects, Destroy(e)
    PROVE  IInv'
<1>1. Live(e) /\ Kept(e) /\ Dies(e) /\ SpecialMember /\ lost' = lost
  BY DEF Destroy, SpecialMember
<1>2. /\ obj' \in [Objects -> Record] /\ loop' \in [Loops -> Int]
      /\ obj'[e] = NoError /\ \A x \in Objects \ {e} : obj'[x] = obj[x]
      /\ OwnedInv'
  BY <1>1, DiesFacts
<1>3. \A x \in Objects : obj[x] # NoError => obj'[x] # NoError \/ Kept(x)
  BY <1>1, <1>2
<1>4. \A x \in Objects : obj'[x] # NoError => obj'[x].of > 0 /\ thrown > 0
  BY <1>2 DEF IInv, FlightInv, Live
<1> QED BY <1>1, <1>2, <1>3, <1>4, MemberInv

\* A handler of t ends, and with it the exception that t has in hand.
LEMMA HandlerEnds ==
    ASSUME IInv, NEW t \in Threads, pc[t] = "run", hand[t] # NoObject, Dies(hand[t]),
           hand' = [hand EXCEPT ![t] = NoObject],
           UNCHANGED <<registry, sendParametersImmediately, thrown, lost, garbled, mlinkGuard, pc>>,
           details' \in Nat, unread' \in SUBSET Nat
    PROVE  IInv'
<1> DEFINE e == hand[t]
<1>1. TypeOK /\ FlightInv
  BY DEF IInv
<1>2. e \in Objects /\ Live(e)
  BY <1>1, TypeFacts DEF FlightInv
<1>3. /\ obj' \in [Objects -> Record] /\ loop' \in [Loops -> Int]
      /\ obj'[e] = NoError /\ \A x \in Objects \ {e} : obj'[x] = obj[x]
      /\ OwnedInv'
  BY <1>2, DiesFacts
<1>4. /\ hand' \in [Threads -> Objects \cup {NoObject}] /\ hand'[t] = NoObject
      /\ \A u \in Threads \ {t} : hand'[u] = hand[u]
  BY <1>1, TypeFacts
<1>5. TypeOK'
  <2>1. RegistryTypeOK' /\ CodesDescend'
    BY <1>1, RegFrame
  <2> QED BY <1>1, <1>3, <1>4, <2>1 DEF TypeOK, Record
<1>6. FlightInv'
  <2>1. \A u \in Threads : hand'[u] # NoObject =>
           hand[u] = hand'[u] /\ hand[u] # e /\ hand[u] \in Objects /\ obj[hand[u]] # NoError
    BY <1>1, <1>4, TypeFacts DEF FlightInv, Live
  <2>2. \A u \in Threads : hand'[u] # NoObject => obj'[hand'[u]] # NoError
    BY <1>3, <2>1
  <2>3. \A u \in Threads : /\ mlinkGuard' = u <=> pc'[u] = "log"
                           /\ pc'[u] \in {"send", "transfer"} => hand'[u] # NoObject
    BY <1>1, <1>4 DEF FlightInv
  <2>4. \A u, v \in Threads : hand'[u] = hand'[v] /\ hand'[u] # NoObject => u = v
    BY <1>1, <2>1 DEF FlightInv
  <2>5. \A x \in Objects : obj'[x] # NoError => obj'[x].of > 0 /\ thrown' > 0
    BY <1>1, <1>3 DEF FlightInv, Live
  <2> QED BY <2>2, <2>3, <2>4, <2>5 DEF FlightInv, Live
<1> QED BY <1>3, <1>5, <1>6 DEF IInv

LEMMA CatchInv ==
    ASSUME IInv, NEW t \in Threads, Catch(t)
    PROVE  IInv'
<1>1. details' \in Nat /\ unread' \in SUBSET Nat
  BY TypeFacts DEF IInv, Catch, shown
<1> QED BY <1>1, HandlerEnds DEF Catch

LEMMA ReturnInv ==
    ASSUME IInv, Return
    PROVE  IInv'
<1>1. Main \in Threads
  BY DEF Threads
<1>2. obj[hand[Main]].of \in Nat
  BY <1>1, TypeFacts DEF IInv, Return, Record
<1>3. details' \in Nat /\ unread' \in SUBSET Nat
  BY <1>2, TypeFacts DEF IInv, Return, MakeFailure
<1> QED BY <1>1, <1>3, HandlerEnds DEF Return

-----------------------------------------------------------------------------
(* Steps that move threads and leave the objects as they are.              *)

LEMMA RethrowInv ==
    ASSUME IInv, NEW e \in Objects, Rethrow(e)
    PROVE  IInv'
<1>1. TypeOK /\ FlightInv
  BY DEF IInv
<1>2. Main \in Threads /\ NoObject \notin Objects
  BY ReportingAssumption DEF Threads
<1>3. /\ hand' \in [Threads -> Objects \cup {NoObject}] /\ hand'[Main] = e
      /\ \A u \in Threads \ {Main} : hand'[u] = IF hand[u] = e THEN NoObject ELSE hand[u]
  BY <1>1, <1>2, TypeFacts DEF Rethrow
<1>4. UNCHANGED <<registry, carrying, shown, sendParametersImmediately, thrown, garbled, mlinkGuard, pc>>
  BY DEF Rethrow
<1>5. OwnedInv'
  BY <1>4, CarryFrame DEF IInv
<1>6. TypeOK'
  <2>1. RegistryTypeOK' /\ CodesDescend'
    BY <1>1, <1>4, RegFrame
  <2> QED BY <1>1, <1>3, <1>4, <2>1 DEF TypeOK, carrying, shown
<1>7. FlightInv'
  <2>1. Live(e) /\ pc[Main] = "run" /\ \A u \in Workers : hand[u] = e => pc[u] = "run"
    BY DEF Rethrow
  <2>3. \A u \in Threads : hand'[u] # NoObject => obj[hand'[u]] # NoError
    BY <1>1, <1>3, <2>1 DEF FlightInv, Live
  <2>4. \A u \in Threads : pc[u] \in {"send", "transfer"} => hand'[u] # NoObject
    <3>1. \A u \in Threads : pc[u] \in {"send", "transfer"} => u # Main /\ hand[u] # e /\ hand[u] # NoObject
      BY <1>1, <2>1 DEF FlightInv, Threads
    <3> QED BY <1>3, <3>1
  <2>5. \A u, v \in Threads : hand'[u] = hand'[v] /\ hand'[u] # NoObject => u = v
    BY <1>1, <1>2, <1>3 DEF FlightInv
  <2>6. obj' = obj
    BY <1>4 DEF carrying
  <2> QED BY <1>1, <1>4, <2>3, <2>4, <2>5, <2>6 DEF FlightInv, Live
<1> QED BY <1>5, <1>6, <1>7 DEF IInv

\* t goes where it has to be with the exception it has, and with the mutex.
LEMMA Goes ==
    ASSUME IInv, NEW t \in Threads, NEW w \in {"run", "send", "transfer", "log"}, GoTo(t, w),
           UNCHANGED <<registry, carrying, shown, sendParametersImmediately, thrown, hand>>,
           garbled' \in BOOLEAN,
           w \in {"send", "transfer"} => hand[t] # NoObject,
           mlinkGuard' \in Threads \cup {NoThread},
           mlinkGuard' = t <=> w = "log",
           \A u \in Threads \ {t} : mlinkGuard' = u <=> mlinkGuard = u
    PROVE  IInv'
<1>1. TypeOK /\ FlightInv
  BY DEF IInv
<1>2. /\ pc' \in [Threads -> {"run", "send", "transfer", "log"}] /\ pc'[t] = w
      /\ \A u \in Threads \ {t} : pc'[u] = pc[u]
  BY <1>1, TypeFacts DEF GoTo
<1>3. OwnedInv'
  BY CarryFrame DEF IInv
<1>4. TypeOK'
  <2>1. RegistryTypeOK' /\ CodesDescend'
    BY <1>1, RegFrame
  <2> QED BY <1>1, <1>2, <2>1 DEF TypeOK, carrying, shown
<1>5. FlightInv'
  <2>1. \A u \in Threads : /\ mlinkGuard' = u <=> pc'[u] = "log"
                           /\ pc'[u] \in {"send", "transfer"} => hand[u] # NoObject
    BY <1>1, <1>2 DEF FlightInv
  <2> QED BY <1>1, <2>1 DEF FlightInv, Live, carrying
<1> QED BY <1>3, <1>4, <1>5 DEF IInv

LEMMA SendParametersInv ==
    ASSUME IInv, NEW t \in Threads, SendParameters(t)
    PROVE  IInv'
<1>1. garbled' \in BOOLEAN
  BY DEF IInv, TypeOK, FlightInv, SendParameters
<1>2. mlinkGuard' = mlinkGuard /\ mlinkGuard # t /\ mlinkGuard \in Threads \cup {NoThread}
  BY DEF IInv, TypeOK, FlightInv, SendParameters
<1> QED BY <1>1, <1>2, Goes DEF SendParameters

LEMMA SendHeadInv ==
    ASSUME IInv, NEW t \in Threads, SendHead(t)
    PROVE  IInv'
<1>1. hand[t] # NoObject
  BY DEF IInv, FlightInv, SendHead
<1>2. mlinkGuard' = mlinkGuard /\ mlinkGuard # t /\ mlinkGuard \in Threads \cup {NoThread}
  BY DEF IInv, TypeOK, FlightInv, SendHead
<1>3. garbled \in BOOLEAN
  BY DEF IInv, TypeOK
<1>4. UNCHANGED <<registry, carrying, shown, sendParametersImmediately, thrown, hand>>
  BY DEF SendHead
<1>5. CASE BeginPacket(t) /\ GoTo(t, "transfer")
  <2>1. garbled' \in BOOLEAN
    BY <1>3, <1>5 DEF BeginPacket
  <2> QED BY <1>1, <1>2, <1>4, <1>5, <2>1, Goes
<1>6. CASE garbled' = TRUE /\ GoTo(t, "run")
  BY <1>1, <1>2, <1>4, <1>6, Goes
<1> QED BY <1>5, <1>6 DEF SendHead

LEMMA LogInv ==
    ASSUME IInv, NEW t \in Threads, Log(t)
    PROVE  IInv'
<1>1. mlinkGuard = NoThread /\ mlinkGuard' = t /\ BeginPacket(t) /\ GoTo(t, "log") /\ LogStep
  BY DEF Log
<1>2. NoThread \notin Threads
  BY ReportingAssumption DEF Threads
<1>3. garbled' \in BOOLEAN
  BY <1>1 DEF BeginPacket, IInv, TypeOK
<1>4. UNCHANGED <<registry, carrying, shown, sendParametersImmediately, thrown, hand>>
  BY <1>1 DEF LogStep
<1> QED BY <1>1, <1>2, <1>3, <1>4, Goes

LEMMA LogEndsInv ==
    ASSUME IInv, NEW t \in Threads, LogEnds(t)
    PROVE  IInv'
<1>1. mlinkGuard' = NoThread /\ EndPacket(t) /\ GoTo(t, "run") /\ LogStep /\ mlinkGuard = t
  BY DEF LogEnds, IInv, FlightInv
<1>2. NoThread \notin Threads
  BY ReportingAssumption DEF Threads
<1>3. garbled' \in BOOLEAN
  BY <1>1 DEF EndPacket, IInv, TypeOK
<1>4. UNCHANGED <<registry, carrying, shown, sendParametersImmediately, thrown, hand>>
  BY <1>1 DEF LogStep
<1> QED BY <1>1, <1>2, <1>3, <1>4, Goes

LEMMA SendTransferInv ==
    ASSUME IInv, NEW t \in Threads, SendTransfer(t)
    PROVE  IInv'
<1> DEFINE e == hand[t]
           l == obj[e].params
<1>1. TypeOK /\ OwnedInv /\ FlightInv
  BY DEF IInv
<1>2. e \in Objects /\ hand[t] # NoObject
  BY <1>1, TypeFacts DEF SendTransfer, FlightInv
<1>3. /\ pc' \in [Threads -> {"run", "send", "transfer", "log"}] /\ pc'[t] = "run" /\ pc[t] = "transfer"
      /\ \A u \in Threads \ {t} : pc'[u] = pc[u]
  BY <1>1, TypeFacts DEF SendTransfer, GoTo
<1>4. /\ l \in Loops \cup {NoLink} /\ obj[e] \in Record /\ obj[e].of \in Nat
      /\ l # NoLink => l \in Loops /\ l \notin lost /\ loop[l] \in {Drained, obj[e].of}
  BY <1>1, <1>2, Holding DEF Record
<1>5. UNCHANGED <<registry, unread, sendParametersImmediately, thrown, mlinkGuard, hand, obj, lost>>
  BY DEF SendTransfer, carrying
<1>6. garbled' \in BOOLEAN
  BY <1>1 DEF SendTransfer, EndPacket, TypeOK
<1>7. details' \in Nat
  <2>1. details' = details \/ (l # NoLink /\ details' = loop[l])
    BY DEF SendTransfer
  <2>2. l # NoLink => loop[l] \in Nat
    BY <1>4 DEF Drained
  <2> QED BY <1>1, <2>1, <2>2, TypeFacts
<1>8. /\ loop' \in [Loops -> Int]
      /\ \A x \in Loops : loop'[x] = loop[x] \/ (x = l /\ l # NoLink /\ loop'[x] = Drained)
  BY <1>1, <1>4, TypeFacts DEF SendTransfer, Drained, carrying
<1> HIDE DEF e, l
<1>9. TypeOK'
  <2>1. RegistryTypeOK' /\ CodesDescend'
    BY <1>1, <1>5, RegFrame
  <2> QED BY <1>1, <1>3, <1>5, <1>6, <1>7, <1>8, <2>1 DEF TypeOK
<1>10. OwnedInv'
  <2>1. \A x \in Loops : (loop'[x] = Closed <=> loop[x] = Closed) \/ (x = l /\ l # NoLink /\ loop'[x] = Drained)
    BY <1>8
  <2>2. l # NoLink => loop[l] # Closed
    BY <1>1, <1>2, Holding DEF l
  <2>3. \A x \in Loops : loop'[x] = Closed <=> loop[x] = Closed
    BY <2>1, <2>2 DEF Drained, Closed
  <2>4. ASSUME NEW x \in Objects, obj[x].params # NoLink
        PROVE  obj[x].params \notin lost /\ loop'[obj[x].params] \in {Drained, obj[x].of}
    BY <1>1, <1>8, <2>4, Holding
  <2>5. lost \subseteq Loops
    BY <1>1, TypeFacts
  <2> QED BY <1>1, <1>5, <2>3, <2>4, <2>5 DEF OwnedInv
<1>11. FlightInv'
  <2>1. \A u \in Threads : /\ mlinkGuard' = u <=> pc'[u] = "log"
                           /\ pc'[u] \in {"send", "transfer"} => hand[u] # NoObject
    BY <1>1, <1>3, <1>5 DEF FlightInv
  <2> QED BY <1>1, <1>2, <1>5, <2>1 DEF FlightInv, Live
<1> QED BY <1>9, <1>10, <1>11 DEF IInv

-----------------------------------------------------------------------------
(* The invariant holds in every state.                                     *)

LEMMA NextInv ==
    ASSUME IInv, [ReportingNext]_vars
    PROVE  IInv'
<1>1. CASE Register
  <2>1. RegInv' /\ UNCHANGED <<carrying, talking, shown, sendParametersImmediately, thrown>>
    BY <1>1, RegistryStep DEF Register, RegInv, IInv, TypeOK
  <2>2. OwnedInv'
    BY <2>1, CarryFrame DEF IInv
  <2>3. TypeOK'
    BY <2>1 DEF IInv, TypeOK, RegInv, carrying, talking, shown
  <2>4. FlightInv'
    BY <2>1 DEF IInv, FlightInv, carrying, talking, Live
  <2> QED BY <2>2, <2>3, <2>4 DEF IInv
<1>2. ASSUME NEW b \in BOOLEAN, SetSendParametersImmediately(b)
      PROVE  IInv'
  <2>1. UNCHANGED <<registry, carrying, talking, shown, thrown>> /\ sendParametersImmediately' = b
    BY <1>2 DEF SetSendParametersImmediately
  <2>2. OwnedInv'
    BY <2>1, CarryFrame DEF IInv
  <2>3. RegistryTypeOK' /\ CodesDescend'
    BY <2>1, RegFrame DEF IInv
  <2>4. TypeOK'
    BY <2>1, <2>3 DEF IInv, TypeOK, carrying, talking, shown
  <2>5. FlightInv'
    BY <2>1 DEF IInv, FlightInv, carrying, talking, Live
  <2> QED BY <2>2, <2>4, <2>5 DEF IInv
<1>3. CASE UNCHANGED vars
  <2>1. UNCHANGED <<registry, carrying, talking, shown, thrown, sendParametersImmediately>>
    BY <1>3 DEF vars
  <2>2. OwnedInv'
    BY <2>1, CarryFrame DEF IInv
  <2>3. RegistryTypeOK' /\ CodesDescend'
    BY <2>1, RegFrame DEF IInv
  <2>4. TypeOK'
    BY <2>1, <2>3 DEF IInv, TypeOK, carrying, talking, shown
  <2>5. FlightInv'
    BY <2>1 DEF IInv, FlightInv, carrying, talking, Live
  <2> QED BY <2>2, <2>4, <2>5 DEF IInv
<1>4. ASSUME NEW t \in Threads,
             \/ \E e \in Objects, n \in ThrownNames :
                  \/ ThrowPlain(t, e, n)
                  \/ \E l \in Loops \cup {NoLink} : ThrowWithParameters(t, e, n, l)
             \/ \E l \in Loops \cup {NoLink} : SetMessageParameters(t, l)
             \/ SendParameters(t) \/ SendHead(t) \/ SendTransfer(t)
             \/ Catch(t) \/ Log(t) \/ LogEnds(t) \/ \E e \in Objects : LogThrows(t, e)
      PROVE  IInv'
  BY <1>4, ThrowPlainInv, ThrowWithParametersInv, SetMessageParametersInv, SendParametersInv, SendHeadInv,
     SendTransferInv, CatchInv, LogInv, LogEndsInv, LogThrowsInv
<1>5. ASSUME NEW e \in Objects,
             \/ Destroy(e) \/ Rethrow(e)
             \/ \E e2 \in Objects : Move(e, e2) \/ \E l \in Loops \cup {NoLink} : Copy(e, e2, l)
      PROVE  IInv'
  BY <1>5, DestroyInv, RethrowInv, MoveInv, CopyInv
<1> QED BY <1>1, <1>2, <1>3, <1>4, <1>5, ReturnInv DEF ReportingNext

LEMMA Invariant == Spec => []IInv
<1>1. ReportingInit => IInv
  BY InitInv
<1>2. IInv /\ [ReportingNext]_vars => IInv'
  BY NextInv
<1> QED BY <1>1, <1>2, PTL DEF Spec

-----------------------------------------------------------------------------
(* Theorems.                                                               *)

(***************************************************************************)
(* Types: registry codes, objects, links, threads and the kernel's symbol  *)
(* stay in their sets, and the ids that the registry hands out descend.    *)
(***************************************************************************)
THEOREM ReportingTypes == Spec => []TypeOK
<1>1. IInv => TypeOK
  BY DEF IInv
<1> QED BY <1>1, Invariant, PTL

(***************************************************************************)
(* An error code identifies one error, for any paclet errors registered in *)
(* any number of calls, and the table sent to the Wolfram Language agrees. *)
(***************************************************************************)
THEOREM CodesIdentify == Spec => []ErrorIdentified
<1>1. IInv => ErrorIdentified
  BY Identified DEF IInv, TypeOK, RegInv
<1> QED BY <1>1, Invariant, PTL

(***************************************************************************)
(* Every open loopback link belongs to exactly one exception object, or    *)
(* was lost by a second setMessageParameters; none is referred to once     *)
(* closed.                                                                 *)
(***************************************************************************)
THEOREM LinksOwned == Spec => []LoopbacksOwned
<1>1. ASSUME IInv, NEW l \in Loops
      PROVE  LET owners == {e \in Objects : obj[e].params = l}
             IN  IF loop[l] = Closed THEN owners = {} /\ l \notin lost
                 ELSE Cardinality(owners) = IF l \in lost THEN 0 ELSE 1
  <2> DEFINE owners == {e \in Objects : obj[e].params = l}
  <2>1. TypeOK /\ OwnedInv /\ l # NoLink
    BY <1>1, ReportingAssumption DEF IInv
  <2>2. \A e \in owners : l \notin lost /\ loop[l] # Closed
    BY <2>1, Holding
  <2>3. CASE loop[l] = Closed
    BY <2>1, <2>2, <2>3 DEF OwnedInv
  <2>4. CASE loop[l] # Closed /\ l \in lost
    <3>1. owners = {}
      BY <2>2, <2>4
    <3>2. Cardinality(owners) = 0
      BY <3>1, FS_EmptySet
    <3> QED BY <2>4, <3>2
  <2>5. CASE loop[l] # Closed /\ l \notin lost
    <3>1. PICK e \in Objects : obj[e].params = l
      BY <2>1, <2>5 DEF OwnedInv
    <3>2. owners = {e}
      BY <2>1, <3>1 DEF OwnedInv
    <3>3. Cardinality(owners) = 1
      BY <3>2, FS_Singleton
    <3> QED BY <2>5, <3>3
  <2> QED BY <2>3, <2>4, <2>5
<1>2. IInv => LoopbacksOwned
  BY <1>1 DEF LoopbacksOwned
<1> QED BY <1>2, Invariant, PTL

(***************************************************************************)
(* A packet on the kernel's link is spoilt only by a thread that is        *)
(* sending parameters or by a log that throws, however many threads log.   *)
(***************************************************************************)
THEOREM LogsKeepApart == Spec => LogsApart
<1> DEFINE Spoils == \/ \E t \in Threads : pc[t] \in {"send", "transfer"}
                     \/ \E t \in Threads, e \in Objects : LogThrows(t, e)
<1>1. ASSUME IInv, [ReportingNext]_vars, ~ garbled, garbled' PROVE Spoils
  <2>0. ~ UNCHANGED garbled
    BY <1>1
  <2>1. ~ Register /\ ~ UNCHANGED vars /\ ~ Return
    BY <2>0 DEF Register, Return, vars, talking
  <2>2. \A b \in BOOLEAN : ~ SetSendParametersImmediately(b)
    BY <2>0 DEF SetSendParametersImmediately, talking
  <2>3. ASSUME NEW e \in Objects
        PROVE  /\ ~ Destroy(e) /\ ~ Rethrow(e)
               /\ \A e2 \in Objects : ~ Move(e, e2) /\ \A l \in Loops \cup {NoLink} : ~ Copy(e, e2, l)
    BY <2>0 DEF Destroy, Rethrow, Move, Copy, SpecialMember, talking
  <2>4. PICK t \in Threads :
             \/ SendHead(t) \/ SendTransfer(t) \/ Log(t) \/ LogEnds(t)
             \/ \E e \in Objects : LogThrows(t, e)
    <3>1. ASSUME NEW t \in Threads
          PROVE  /\ \A e \in Objects, n \in ThrownNames :
                       /\ ~ ThrowPlain(t, e, n)
                       /\ \A l \in Loops \cup {NoLink} : ~ ThrowWithParameters(t, e, n, l)
                 /\ \A l \in Loops \cup {NoLink} : ~ SetMessageParameters(t, l)
                 /\ ~ SendParameters(t) /\ ~ Catch(t)
      BY <2>0 DEF ThrowPlain, ThrowWithParameters, NewError, SetMessageParameters, SendParameters,
                  Catch, talking
    <3> QED BY <1>1, <2>1, <2>2, <2>3, <3>1 DEF ReportingNext
  <2>5. CASE Log(t)
    <3>1. mlinkGuard = NoThread /\ BeginPacket(t)
      BY <2>5 DEF Log
    <3>2. PICK t2 \in Threads : pc[t2] \in {"transfer", "log"}
      BY <1>1, <3>1 DEF BeginPacket, Writing
    <3>3. pc[t2] # "log"
      BY <1>1, <3>1, ReportingAssumption DEF IInv, FlightInv, Threads
    <3> QED BY <3>2, <3>3
  <2>6. ~ LogEnds(t)
    BY <1>1 DEF LogEnds, EndPacket
  <2>7. CASE SendHead(t) \/ SendTransfer(t)
    BY <2>7 DEF SendHead, SendTransfer
  <2> QED BY <2>4, <2>5, <2>6, <2>7
<1>2. IInv /\ [ReportingNext]_vars => [~ garbled /\ garbled' => Spoils]_vars
  BY <1>1
<1> QED BY <1>2, Invariant, PTL DEF Spec, LogsApart
-----------------------------------------------------------------------------
(* What a Failure shows, if parameters are sent by Main alone.             *)

\* Parameters in the symbol that are nobody's leftovers are those of the
\* exception that Main has in hand, and Main alone sends any.
ShownInv ==
    /\ details # 0 /\ details \notin unread =>
          hand[Main] # NoObject /\ obj[hand[Main]].of = details
    /\ \A t \in Threads : pc[t] \in {"send", "transfer"} => t = Main

\* Steps that leave the symbol and Main's exception as they are.
LEMMA ShownFrame ==
    ASSUME ShownInv, UNCHANGED shown,
           hand[Main] # NoObject => hand'[Main] = hand[Main] /\ obj'[hand[Main]].of = obj[hand[Main]].of,
           \A t \in Threads \ {Main} : pc'[t] \in {"send", "transfer"} => pc[t] \in {"send", "transfer"}
    PROVE  ShownInv'
  BY DEF ShownInv, shown

LEMMA MainFacts ==
    ASSUME IInv
    PROVE  /\ Main \in Threads /\ NoObject \notin Objects
           /\ hand[Main] # NoObject => /\ hand[Main] \in Objects
                                       /\ Live(hand[Main])
                                       /\ \A t \in Threads \ {Main} : hand[t] # hand[Main]
<1>1. Main \in Threads /\ NoObject \notin Objects
  BY ReportingAssumption DEF Threads
<1> QED BY <1>1, TypeFacts DEF IInv, FlightInv

\* pc changes for t alone.
LEMMA GoesAlone ==
    ASSUME IInv, NEW t \in Threads, NEW w, GoTo(t, w)
    PROVE  pc'[t] = w /\ \A u \in Threads \ {t} : pc'[u] = pc[u]
  BY TypeFacts DEF IInv, GoTo

LEMMA ThrowShown ==
    ASSUME Careful, IInv, ShownInv, NEW t \in Threads, NEW e \in Objects, NEW asked, NEW l, NEW n,
           ~ Live(e), hand[t] = NoObject, obj' = [obj EXCEPT ![e] = n], hand' = [hand EXCEPT ![t] = e],
           UNCHANGED shown,
           \A u \in Threads \ {Main} : pc'[u] \in {"send", "transfer"} => pc[u] \in {"send", "transfer"}
    PROVE  ShownInv'
<1>1. hand[Main] # NoObject => hand'[Main] = hand[Main] /\ obj'[hand[Main]] = obj[hand[Main]]
  BY MainFacts, TypeFacts DEF IInv
<1> QED BY <1>1, ShownFrame

LEMMA CopiesShown ==
    ASSUME IInv, ShownInv, SpecialMember,
           \A x \in Objects : obj[x] # NoError => obj'[x].of = obj[x].of \/ Kept(x)
    PROVE  ShownInv'
<1>1. hand[Main] # NoObject => obj'[hand[Main]].of = obj[hand[Main]].of
  BY MainFacts DEF Kept, Live
<1> QED BY <1>1, ShownFrame DEF SpecialMember, talking

LEMMA NextShown ==
    ASSUME Careful, IInv, ShownInv, [ReportingNext]_vars
    PROVE  ShownInv'
<1>0. TypeOK /\ obj \in [Objects -> Record] /\ hand \in [Threads -> Objects \cup {NoObject}]
  BY TypeFacts DEF IInv
<1>1. CASE Register
  BY <1>1, ShownFrame DEF Register, carrying, talking
<1>2. ASSUME NEW b \in BOOLEAN, SetSendParametersImmediately(b) PROVE ShownInv'
  BY <1>2, ShownFrame DEF SetSendParametersImmediately, carrying, talking
<1>3. CASE UNCHANGED vars
  BY <1>3, ShownFrame DEF vars, carrying, talking
<1>4. CASE Return
  <2>1. hand' = [hand EXCEPT ![Main] = NoObject] /\ pc' = pc /\ hand[Main] # NoObject
    BY <1>4 DEF Return
  <2>2. MakeFailure(hand[Main])
    BY <1>4 DEF Return
  <2>3. ~ (details' # 0 /\ details' \notin unread')
    BY <2>1, <2>2 DEF MakeFailure, ShownInv
  <2> QED BY <2>1, <2>3 DEF ShownInv
<1>5. ASSUME NEW t \in Threads, NEW e \in Objects, NEW n \in ThrownNames, ThrowPlain(t, e, n) PROVE ShownInv'
  BY <1>5, ThrowShown DEF ThrowPlain, NewError
<1>6. ASSUME NEW t \in Threads, NEW e \in Objects, NEW n \in ThrownNames, NEW l \in Loops \cup {NoLink},
             ThrowWithParameters(t, e, n, l)
      PROVE  ShownInv'
  <2>1. \A u \in Threads \ {Main} : pc'[u] \in {"send", "transfer"} => pc[u] \in {"send", "transfer"}
    <3>1. t # Main => ~ sendParametersImmediately
      BY <1>6 DEF ThrowWithParameters, NewError
    <3>2. /\ pc'[t] = IF sendParametersImmediately THEN "send" ELSE "run"
          /\ \A u \in Threads \ {t} : pc'[u] = pc[u]
      BY <1>6, GoesAlone DEF ThrowWithParameters
    <3> QED BY <3>1, <3>2
  <2>2. NewError(t, e, n, l)
    BY <1>6 DEF ThrowWithParameters
  <2> QED BY <2>1, <2>2, ThrowShown DEF NewError
<1>7. ASSUME NEW t \in Threads, NEW e \in Objects, LogThrows(t, e) PROVE ShownInv'
  <2>1. \A u \in Threads \ {Main} : pc'[u] \in {"send", "transfer"} => pc[u] \in {"send", "transfer"}
    BY <1>7, GoesAlone DEF LogThrows
  <2> QED BY <1>7, <2>1, ThrowShown DEF LogThrows
<1>8. ASSUME NEW t \in Threads, NEW l \in Loops \cup {NoLink}, SetMessageParameters(t, l) PROVE ShownInv'
  <2>1. obj' = [obj EXCEPT ![hand[t]] = [obj[hand[t]] EXCEPT !.params = l]]
    BY <1>8 DEF SetMessageParameters
  <2>2. \A x \in Objects : obj'[x].of = obj[x].of
    BY <1>0, <2>1 DEF Record
  <2> QED BY <1>8, <2>2, MainFacts, ShownFrame DEF SetMessageParameters, talking
<1>9. ASSUME NEW t \in Threads, SendParameters(t) PROVE ShownInv'
  <2>1. \A u \in Threads \ {Main} : pc'[u] = pc[u]
    BY <1>9, GoesAlone DEF SendParameters
  <2> QED BY <1>9, <2>1, ShownFrame DEF SendParameters, carrying
<1>10. ASSUME NEW t \in Threads, SendHead(t) PROVE ShownInv'
  <2>1. t = Main
    BY <1>10 DEF SendHead, ShownInv
  <2>2. \A u \in Threads \ {Main} : pc'[u] = pc[u]
    BY <1>10, <2>1, GoesAlone DEF SendHead
  <2> QED BY <1>10, <2>2, ShownFrame DEF SendHead, carrying
<1>11. ASSUME NEW t \in Threads, SendTransfer(t) PROVE ShownInv'
  <2>1. t = Main /\ hand[Main] # NoObject /\ hand[Main] \in Objects
    BY <1>11, MainFacts DEF SendTransfer, ShownInv, IInv, FlightInv
  <2>2. \A u \in Threads \ {Main} : pc'[u] = pc[u]
    BY <1>11, <2>1, GoesAlone DEF SendTransfer
  <2>3. obj' = obj /\ hand' = hand /\ unread' = unread
    BY <1>11 DEF SendTransfer, carrying
  <2>4. details' = details \/ details' = obj[hand[Main]].of
    <3> DEFINE l == obj[hand[Main]].params
    <3>1. l # NoLink => loop[l] \in {Drained, obj[hand[Main]].of}
      BY <1>0, <2>1, Holding DEF IInv
    <3>2. details' = details \/ (l # NoLink /\ details' = loop[l] /\ loop[l] # Drained)
      BY <1>11, <2>1 DEF SendTransfer
    <3> QED BY <3>1, <3>2
  <2>5. \A u \in Threads : pc'[u] \in {"send", "transfer"} => u = Main
    BY <2>2 DEF ShownInv
  <2> QED BY <2>1, <2>3, <2>4, <2>5 DEF ShownInv
<1>12. ASSUME NEW t \in Threads, Catch(t) PROVE ShownInv'
  <2>1. /\ hand[t] # NoObject /\ details' = details
        /\ unread' = unread \cup ({details} \cap {obj[hand[t]].of})
        /\ obj' = [obj EXCEPT ![hand[t]] = NoError] /\ hand' = [hand EXCEPT ![t] = NoObject]
        /\ pc' = pc
    BY <1>12 DEF Catch, Dies
  <2>2. CASE t = Main
    <3>1. ~ (details' # 0 /\ details' \notin unread')
      BY <2>1, <2>2 DEF ShownInv
    <3> QED BY <2>1, <3>1 DEF ShownInv
  <2>3. CASE t # Main
    <3>1. hand[Main] # NoObject => hand'[Main] = hand[Main] /\ obj'[hand[Main]] = obj[hand[Main]]
      BY <1>0, <2>1, <2>3, MainFacts
    <3> QED BY <2>1, <3>1 DEF ShownInv
  <2> QED BY <2>2, <2>3
<1>13. ASSUME NEW t \in Threads, Log(t) \/ LogEnds(t) PROVE ShownInv'
  <2>1. LogStep /\ (GoTo(t, "log") \/ GoTo(t, "run"))
    BY <1>13 DEF Log, LogEnds
  <2>2. \A u \in Threads \ {Main} : pc'[u] \in {"send", "transfer"} => pc[u] \in {"send", "transfer"}
    BY <2>1, GoesAlone
  <2> QED BY <2>1, <2>2, ShownFrame DEF LogStep, carrying
<1>14. ASSUME NEW e \in Objects, Destroy(e) PROVE ShownInv'
  <2>1. SpecialMember /\ Kept(e) /\ obj' = [obj EXCEPT ![e] = NoError]
    BY <1>14 DEF Destroy, Dies
  <2> QED BY <1>0, <2>1, CopiesShown
<1>15. ASSUME NEW e \in Objects, Rethrow(e) PROVE ShownInv'
  <2>1. hand[Main] = NoObject /\ pc' = pc /\ UNCHANGED shown
    BY <1>15 DEF Rethrow
  <2> QED BY <2>1, ShownFrame
<1>16. ASSUME NEW e \in Objects, NEW e2 \in Objects, Move(e, e2) PROVE ShownInv'
  <2>1. SpecialMember /\ Kept(e2) /\ e # e2 /\ obj' = [obj EXCEPT ![e2] = obj[e], ![e].params = NoLink]
    BY <1>16 DEF Move
  <2>2. \A x \in Objects \ {e2} : obj'[x].of = obj[x].of
    BY <1>0, <2>1 DEF Record
  <2> QED BY <2>1, <2>2, CopiesShown
<1>17. ASSUME NEW e \in Objects, NEW e2 \in Objects, NEW l \in Loops \cup {NoLink}, Copy(e, e2, l)
       PROVE  ShownInv'
  <2>1. SpecialMember /\ Kept(e2) /\ obj' = [obj EXCEPT ![e2] = [obj[e] EXCEPT !.params = l]]
    BY <1>17 DEF Copy
  <2> QED BY <1>0, <2>1, CopiesShown
<1> QED BY <1>1, <1>2, <1>3, <1>4, <1>5, <1>6, <1>7, <1>8, <1>9, <1>10, <1>11, <1>12, <1>13, <1>14,
           <1>15, <1>16, <1>17 DEF ReportingNext

(***************************************************************************)
(* If parameters are sent by Main alone, a Failure whose code reads        *)
(* parameters shows those of its own exception, none, or what is left of   *)
(* one that was caught after sending, or whose code reads none.            *)
(***************************************************************************)
THEOREM FailuresShowTheirOwn ==
    ASSUME Careful
    PROVE  Spec => FailureShowsItsOwn
<1>1. ReportingInit => ShownInv
  BY DEF ReportingInit, ShownInv
<1>2. IInv /\ ShownInv /\ [ReportingNext]_vars => ShownInv'
  BY NextShown
<1>3. ASSUME IInv, ShownInv
      PROVE  Return /\ ParametersRead(obj[hand[Main]].name)
             => details \in {0, obj[hand[Main]].of} \cup unread
  BY <1>3 DEF ShownInv
<1>4. IInv /\ ShownInv /\ [ReportingNext]_vars =>
         [Return /\ ParametersRead(obj[hand[Main]].name) => details \in {0, obj[hand[Main]].of} \cup unread]_vars
  BY <1>3
<1> QED BY <1>1, <1>2, <1>4, Invariant, PTL DEF Spec, FailureShowsItsOwn
=============================================================================
