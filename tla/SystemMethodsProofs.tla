------------------------ MODULE SystemMethodsProofs ------------------------
(***************************************************************************)
(* Proofs about Faults, for every 32-bit code, and about SystemMethods,    *)
(* for any number of objects, any application methods and any batches.     *)
(* The invariant adds to the two properties that an object only ever owns  *)
(* names its constructor binds: without it a destructor could leave a name *)
(* behind.                                                                 *)
(***************************************************************************)
EXTENDS SystemMethods, WellFoundedInduction, TLAPS

-----------------------------------------------------------------------------
\* Fault codes, which Dispatcher::Invoke and the client pass on.

Predefined ==
  {PARSE_ERROR, INVALID_REQUEST, METHOD_NOT_FOUND, INVALID_PARAMETERS,
   INTERNAL_ERROR}

\* Enough of the values of the bounds.
LEMMA Int32Values ==
  INT32_MIN \in Int /\ INT32_MAX \in Int /\ INT32_MIN <= -65536 /\ INT32_MAX >= 0
BY SMT DEF INT32_MIN, INT32_MAX

LEMMA CodeValues ==
  /\ RESERVED_CODE_MIN = -32768 /\ RESERVED_CODE_MAX = -32000
  /\ SERVER_ERROR_CODE_MIN = -32099 /\ SERVER_ERROR_CODE_MAX = -32000
  /\ PARSE_ERROR = -32700 /\ INVALID_REQUEST = -32600
  /\ METHOD_NOT_FOUND = -32601 /\ INVALID_PARAMETERS = -32602
  /\ INTERNAL_ERROR = -32603
BY SMT DEF RESERVED_CODE_MIN, RESERVED_CODE_MAX, SERVER_ERROR_CODE_MIN,
       SERVER_ERROR_CODE_MAX, PARSE_ERROR, INVALID_REQUEST, METHOD_NOT_FOUND,
       INVALID_PARAMETERS, INTERNAL_ERROR

\* The caller of ThrowIfFault catches an exception with the very code of the
\* response, and one whose class tells the range that code is in: only codes
\* outside the reserved range come as a plain Fault, where the constructor
\* would have replaced a reserved one by 0 (response.cpp:57-91).
THEOREM ThrowIfFaultKeepsCode ==
  \A code \in Int32 :
    /\ ThrowIfFault(code).code = code
    /\ ThrowIfFault(code).class = "Fault" <=> ~IsReserved(code)
    /\ ThrowIfFault(code).class = "ServerErrorFault" <=>
         code \in SERVER_ERROR_CODE_MIN..SERVER_ERROR_CODE_MAX
<1> SUFFICES ASSUME NEW code \in Int32
             PROVE  /\ ThrowIfFault(code).code = code
                    /\ ThrowIfFault(code).class = "Fault" <=> ~IsReserved(code)
                    /\ ThrowIfFault(code).class = "ServerErrorFault" <=>
                         code \in SERVER_ERROR_CODE_MIN..SERVER_ERROR_CODE_MAX
  OBVIOUS
<1>1. code \in Int
  BY Int32Values, SMT DEF Int32
<1>2. CASE code \in Predefined
  <2>1. CASE code = PARSE_ERROR
    BY <2>1, CodeValues, SMT DEF ThrowIfFault, Thrown, IsReserved
  <2>2. CASE code = INVALID_REQUEST
    BY <2>2, CodeValues, SMT DEF ThrowIfFault, Thrown, IsReserved
  <2>3. CASE code = METHOD_NOT_FOUND
    BY <2>3, CodeValues, SMT DEF ThrowIfFault, Thrown, IsReserved
  <2>4. CASE code = INVALID_PARAMETERS
    BY <2>4, CodeValues, SMT DEF ThrowIfFault, Thrown, IsReserved
  <2>5. CASE code = INTERNAL_ERROR
    BY <2>5, CodeValues, SMT DEF ThrowIfFault, Thrown, IsReserved
  <2>6. QED
    BY <1>2, <2>1, <2>2, <2>3, <2>4, <2>5 DEF Predefined
<1>3. CASE code \in SERVER_ERROR_CODE_MIN..SERVER_ERROR_CODE_MAX
  BY <1>1, <1>3, CodeValues, SMTT(30) DEF ThrowIfFault, Thrown, IsReserved
<1>4. CASE /\ code \notin Predefined
           /\ code \notin SERVER_ERROR_CODE_MIN..SERVER_ERROR_CODE_MAX
           /\ IsReserved(code)
  BY <1>1, <1>4, SMT DEF Predefined, ThrowIfFault, Thrown
<1>5. CASE ~IsReserved(code)
  <2>1. /\ code \notin Predefined
        /\ code \notin SERVER_ERROR_CODE_MIN..SERVER_ERROR_CODE_MAX
    BY <1>1, <1>5, CodeValues, SMT DEF Predefined, IsReserved
  <2>2. QED
    BY <1>5, <2>1, SMT DEF Predefined, ThrowIfFault, Thrown, FaultCode
<1>6. QED
  BY <1>2, <1>3, <1>4, <1>5

\* What is thrown stays a 32-bit code, and so does what is answered.
LEMMA CodeTypes ==
  ASSUME NEW exception \in Exceptions, NEW code \in Int32
  PROVE  /\ ThrownCode(exception, code) \in Int32
         /\ InvokeCode(exception, code) \in Int32
<1>1. 0 \in Int32 /\ INVALID_PARAMETERS \in Int32
  BY CodeValues, Int32Values, SMT DEF Int32
<1>2. ThrownCode(exception, code) \in Int32
  BY <1>1 DEF ThrownCode, FaultCode
<1>3. InvokeCode(exception, code) \in Int32
  BY <1>1 DEF InvokeCode, Exceptions
<1>4. QED
  BY <1>2, <1>3

-----------------------------------------------------------------------------
\* The methods and who binds them.

Owners == Objects \cup {App}

\* The names the constructor binds, as a set.
BoundNames(b) ==
  {SYSTEM_MULTICALL, SYSTEM_GETCAPABILITIES} \cup
  (IF b THEN Introspection ELSE {})

IsRegistry(m) ==
  /\ DOMAIN m \subseteq Names
  /\ \A n \in DOMAIN m : m[n] \in MethodWrapper

\* What an application can do to a registry: methods of objects only go.
Derived(m, m2) ==
  /\ IsRegistry(m2)
  /\ \A n \in DOMAIN m2 :
       m2[n].owner # App => n \in DOMAIN m /\ m[n].owner = m2[n].owner

IsBatch(b) ==
  b = [active |-> b.active, calls |-> b.calls, results |-> b.results,
       before |-> b.before]

OwnedNames ==
  \A n \in DOMAIN myMethods : \A o \in Objects :
    myMethods[n].owner = o =>
      object[o] # "unborn" /\ n \in BoundNames(introspection[o])

Inv == TypeOK /\ IsBatch(batch) /\ OwnedNames /\ NoDanglingMethod

-----------------------------------------------------------------------------
\* The registry.

\* What ToSet gives of the names bound, whatever the prefix.
LEMMA BoundSet ==
  ASSUME NEW b \in BOOLEAN
  PROVE  /\ ToSet(Bound(b)) = BoundNames(b)
         /\ DOMAIN Bound(b) = IF b THEN 1..5 ELSE 1..2
BY DEF ToSet, Bound, BoundNames, Introspection

LEMMA PrefixSet ==
  ASSUME NEW b \in BOOLEAN, NEW i \in DOMAIN Bound(b)
  PROVE  ToSet(SubSeq(Bound(b), 1, i - 1)) \subseteq BoundNames(b)
BY BoundSet DEF ToSet

LEMMA BoundInNames == ASSUME NEW b \in BOOLEAN PROVE BoundNames(b) \subseteq Names
BY SystemNamesAssumption DEF BoundNames

\* A wrapper just bound is one.
LEMMA FreshWrapper ==
  ASSUME NEW o \in Owners
  PROVE  [owner |-> o, hidden |-> FALSE] \in MethodWrapper
BY DEF MethodWrapper, Owners

LEMMA AddDerived ==
  ASSUME NEW m, IsRegistry(m), NEW n \in Names
  PROVE  Derived(m, AddMethod(m, n, App))
<1>1. [owner |-> App, hidden |-> FALSE] \in MethodWrapper
  BY FreshWrapper DEF Owners
<1>2. QED
  BY <1>1 DEF Derived, IsRegistry, AddMethod, With

LEMMA WithoutDerived ==
  ASSUME NEW m, IsRegistry(m), NEW N
  PROVE  Derived(m, Without(m, N))
BY DEF Derived, IsRegistry, Without

LEMMA HideDerived ==
  ASSUME NEW m, IsRegistry(m), NEW n \in DOMAIN m, NEW h \in BOOLEAN
  PROVE  Derived(m, [m EXCEPT ![n].hidden = h])
BY DEF Derived, IsRegistry, MethodWrapper

\* A method of the application changes the registry only as it may.
LEMMA RunDerived ==
  ASSUME NEW m, IsRegistry(m), NEW n \in Names
  PROVE  Derived(m, RunMethod(m, n).registry)
<1>1. Behaviour[n].adds \subseteq Names
  BY BehaviourAssumption
<1>2. [owner |-> App, hidden |-> FALSE] \in MethodWrapper
  BY FreshWrapper DEF Owners
<1> DEFINE removed == Without(m, Behaviour[n].removes)
           grown == [x \in DOMAIN removed \cup Behaviour[n].adds |->
                       IF x \in Behaviour[n].adds
                       THEN [owner |-> App, hidden |-> FALSE]
                       ELSE removed[x]]
<1>3. Derived(m, removed)
  BY WithoutDerived
<1>4. Derived(m, grown)
  BY <1>1, <1>2, <1>3 DEF Derived, IsRegistry
<1>5. RunMethod(m, n).registry \in {removed, grown}
  BY DEF RunMethod
<1>6. QED
  BY <1>3, <1>4, <1>5

\* Nor does any call: the system methods change nothing.
LEMMA ServeDerived ==
  ASSUME NEW m, IsRegistry(m), NEW call
  PROVE  Derived(m, ServeCall(m, call).registry)
<1>1. Derived(m, m)
  BY DEF Derived
<1>2. ASSUME NEW n, NEW p PROVE Derived(m, InvokeMethod(m, n, p).registry)
  <2>1. CASE n \in DOMAIN m
    <3>1. n \in Names
      BY <2>1 DEF IsRegistry
    <3>2. InvokeMethod(m, n, p).registry \in {m, RunMethod(m, n).registry}
      BY DEF InvokeMethod
    <3>3. QED
      BY <1>1, <3>1, <3>2, RunDerived
  <2>2. CASE n \notin DOMAIN m
    BY <1>1, <2>2 DEF InvokeMethod
  <2>3. QED
    BY <2>1, <2>2
<1>3. Derived(m, Invoke(m, call).registry)
  <2>1. Invoke(m, call).registry
          \in {m, InvokeMethod(m, call.name, call.params).registry}
    BY DEF Invoke
  <2>2. QED
    BY <1>1, <1>2, <2>1
<1>4. ServeCall(m, call).registry \in {m, Invoke(m, call).registry}
  BY DEF ServeCall
<1>5. QED
  BY <1>1, <1>3, <1>4

-----------------------------------------------------------------------------
\* The results of a multicall.

\* A response carries a 32-bit code, and a list of registered names.
IsResponse(r) == r.code \in Int32 /\ r.value \subseteq Names

LEMMA CodesInRange ==
  /\ 0 \in Int32 /\ INVALID_PARAMETERS \in Int32
  /\ METHOD_NOT_FOUND \in Int32 /\ INTERNAL_ERROR \in Int32
BY CodeValues, Int32Values, SMT DEF Int32

LEMMA ResponseTypes ==
  /\ \A c \in Int32 : IsResponse(FaultResponse(c))
  /\ \A v \in SUBSET Names : IsResponse(Ok(v))
BY CodesInRange DEF IsResponse, FaultResponse, Ok

LEMMA InvokeMethodType ==
  ASSUME NEW m, IsRegistry(m), NEW n, NEW p
  PROVE  IsResponse(InvokeMethod(m, n, p).response)
<1>1. CASE n \in DOMAIN m
  <2>1. n \in Names
    BY <1>1 DEF IsRegistry
  <2>2. /\ Behaviour[n].throws \in {"nothing"} \cup Exceptions
        /\ Behaviour[n].code \in Int32
    BY <2>1, BehaviourAssumption
  <2>3. \/ RunMethod(m, n).throws = "nothing"
        \/ /\ RunMethod(m, n).throws \in Exceptions
           /\ RunMethod(m, n).code \in Int32
    <3>1. CASE Behaviour[n].adds \cap DOMAIN Without(m, Behaviour[n].removes) # {}
      BY <3>1, CodesInRange DEF RunMethod, Exceptions
    <3>2. CASE Behaviour[n].adds \cap DOMAIN Without(m, Behaviour[n].removes) = {}
      <4>1. /\ RunMethod(m, n).throws = Behaviour[n].throws
            /\ RunMethod(m, n).code =
                 ThrownCode(Behaviour[n].throws, Behaviour[n].code)
        BY <3>2 DEF RunMethod
      <4>2. QED
        BY <2>2, <4>1, CodeTypes
    <3>3. QED
      BY <3>1, <3>2
  <2>4. InvokeMethod(m, n, p).response \in
          {Ok({})} \cup {FaultResponse(c) : c \in Int32}
    BY <1>1, <2>3, CodesInRange, CodeTypes DEF InvokeMethod
  <2>5. QED
    BY <2>4, ResponseTypes
<1>2. CASE n \notin DOMAIN m
  BY <1>2, CodesInRange, ResponseTypes DEF InvokeMethod
<1>3. QED
  BY <1>1, <1>2

LEMMA InvokeType ==
  ASSUME NEW m, IsRegistry(m), NEW call
  PROVE  IsResponse(Invoke(m, call).response)
<1>1. ListMethods(m) \in SUBSET Names
  BY DEF ListMethods, GetMethodNames, IsRegistry
<1>2. SystemResponse(m, call.name, call.params, call.about) \in
        {Ok({}), Ok(ListMethods(m)), FaultResponse(0),
         FaultResponse(INVALID_PARAMETERS)}
  BY DEF SystemResponse
<1>3. IsResponse(SystemResponse(m, call.name, call.params, call.about))
  BY <1>1, <1>2, CodesInRange, ResponseTypes
<1>4. Invoke(m, call).response \in
        {SystemResponse(m, call.name, call.params, call.about),
         InvokeMethod(m, call.name, call.params).response}
  BY DEF Invoke
<1>5. QED
  BY <1>3, <1>4, InvokeMethodType

\* So does an element of the result.
LEMMA ServeType ==
  ASSUME NEW m, IsRegistry(m), NEW call
  PROVE  ServeCall(m, call).entry \in Entry
<1> DEFINE response == Invoke(m, call).response
<1>1. /\ \A v \in SUBSET Names : ResultEntry(v) \in Entry
      /\ \A c \in Int32 : FaultEntry(c) \in Entry
  BY CodesInRange DEF ResultEntry, FaultEntry, Entry
<1>2. response.code \in Int32 /\ response.value \in SUBSET Names
  BY InvokeType DEF IsResponse
<1>3. ThrowIfFault(response.code).code \in Int32
  BY <1>2, ThrowIfFaultKeepsCode
<1>4. ServeCall(m, call).entry \in
        {FaultEntry(INVALID_PARAMETERS), FaultEntry(0), FaultEntry(INTERNAL_ERROR),
         FaultEntry(ThrowIfFault(response.code).code),
         ResultEntry(response.value)}
  BY DEF ServeCall
<1>5. QED
  BY <1>1, <1>2, <1>3, <1>4, CodesInRange

-----------------------------------------------------------------------------
\* The invariant.

LEMMA InitInv == Init => Inv
BY DEF Init, Inv, TypeOK, NoBatch, IsBatch, OwnedNames, NoDanglingMethod, Lives

\* A step that only derives a registry keeps all that is said of owners.
LEMMA DerivedInv ==
  ASSUME Inv, Derived(myMethods, myMethods'),
         UNCHANGED <<object, introspection, capability>>
  PROVE  IsRegistry(myMethods') /\ OwnedNames' /\ NoDanglingMethod'
<1>1. IsRegistry(myMethods')
  BY DEF Derived
<1>2. \A n \in DOMAIN myMethods' : myMethods'[n].owner \in Owners
  BY <1>1 DEF IsRegistry, MethodWrapper, Owners
<1>3. App \notin Objects
  BY OwnersAssumption
<1>4. OwnedNames'
  BY <1>3 DEF Inv, OwnedNames, Derived
<1>5. NoDanglingMethod'
  BY DEF Inv, NoDanglingMethod, Derived
<1>6. QED
  BY <1>1, <1>4, <1>5

\* A step of the application between two requests.
LEMMA AppStepInv ==
  ASSUME Inv, Derived(myMethods, myMethods'),
         UNCHANGED <<object, introspection, capability, batch>>
  PROVE  Inv'
BY DerivedInv DEF Inv, TypeOK, IsRegistry, IsBatch

LEMMA AppInv ==
  ASSUME Inv,
         \/ \E n \in AppNames : AppAdds(n) \/ AppRemoves(n)
         \/ \E n \in MayHide, h \in BOOLEAN : SetHidden(n, h)
  PROVE  Inv'
<1>1. IsRegistry(myMethods)
  BY DEF Inv, TypeOK, IsRegistry
<1>2. ASSUME NEW n \in AppNames, AppAdds(n) PROVE Inv'
  <2>1. n \in Names
    BY CallsAssumption
  <2>2. Derived(myMethods, myMethods')
    BY <1>1, <1>2, <2>1, AddDerived DEF AppAdds
  <2>3. QED
    BY <1>2, <2>2, AppStepInv DEF AppAdds
<1>3. ASSUME NEW n \in AppNames, AppRemoves(n) PROVE Inv'
  <2>1. Derived(myMethods, myMethods')
    BY <1>1, <1>3, WithoutDerived DEF AppRemoves, RemoveMethod
  <2>2. QED
    BY <1>3, <2>1, AppStepInv DEF AppRemoves
<1>4. ASSUME NEW n \in MayHide, NEW h \in BOOLEAN, SetHidden(n, h) PROVE Inv'
  <2>1. Derived(myMethods, myMethods')
    BY <1>1, <1>4, HideDerived DEF SetHidden
  <2>2. QED
    BY <1>4, <2>1, AppStepInv DEF SetHidden
<1>5. QED
  BY <1>2, <1>3, <1>4

\* Binding names an object's constructor binds, to an object not yet born.
LEMMA BindInv ==
  ASSUME Inv, NEW o \in Objects, object[o] = "unborn", NEW b \in BOOLEAN,
         NEW names, ToSet(names) \subseteq BoundNames(b),
         NEW life \in {"alive", "failed"},
         myMethods' = BindAll(myMethods, names, o),
         object' = [object EXCEPT ![o] = life],
         introspection' = [introspection EXCEPT ![o] = b],
         capability' \in [Objects -> BOOLEAN],
         \A p \in Objects \ {o} : capability'[p] = capability[p],
         batch' = batch
  PROVE  Inv'
<1> DEFINE new == ToSet(names)
<1>1. /\ DOMAIN myMethods' = DOMAIN myMethods \cup new
      /\ \A n \in DOMAIN myMethods : myMethods'[n] = myMethods[n]
      /\ \A n \in new \ DOMAIN myMethods :
           myMethods'[n] = [owner |-> o, hidden |-> FALSE]
  BY DEF BindAll
<1>2. new \subseteq Names
  BY BoundInNames
<1> HIDE DEF new
<1>3. [owner |-> o, hidden |-> FALSE] \in MethodWrapper
  BY FreshWrapper DEF Owners
<1>4. /\ object \in [Objects -> Lives] /\ introspection \in [Objects -> BOOLEAN]
      /\ object' \in [Objects -> Lives] /\ introspection' \in [Objects -> BOOLEAN]
      /\ object'[o] = life /\ introspection'[o] = b
      /\ \A p \in Objects \ {o} : object'[p] = object[p]
                                  /\ introspection'[p] = introspection[p]
  BY DEF Inv, TypeOK, Lives
<1>5. TypeOK' /\ IsBatch(batch)'
  BY <1>1, <1>2, <1>3, <1>4 DEF Inv, TypeOK, IsBatch
\* Nothing was bound to it before.
<1>6. \A n \in DOMAIN myMethods : myMethods[n].owner # o
  BY DEF Inv, OwnedNames
<1>7. \A n \in DOMAIN myMethods' :
        \/ n \in DOMAIN myMethods /\ myMethods'[n] = myMethods[n]
        \/ n \in BoundNames(b) /\ myMethods'[n].owner = o
  BY <1>1 DEF new
<1>8. OwnedNames'
  BY <1>4, <1>6, <1>7 DEF Inv, OwnedNames
<1>9. NoDanglingMethod'
  <2> SUFFICES ASSUME NEW n \in DOMAIN myMethods', NEW p \in Objects,
                      myMethods'[n].owner = p, object'[p] # "alive"
               PROVE  \/ object'[p] = "failed"
                      \/ /\ object'[p] = "destroyed"
                         /\ introspection'[p] /\ ~capability'[p]
                         /\ n \in Introspection
    <3>1. \A n \in DOMAIN myMethods' : myMethods'[n].owner \in Objects \cup {App}
      BY <1>5 DEF TypeOK, MethodWrapper
    <3>2. QED
      BY <3>1 DEF NoDanglingMethod
  <2>1. CASE p = o
    BY <1>4, <2>1
  <2>2. CASE p # o
    <3>1. n \in DOMAIN myMethods /\ myMethods[n].owner = p
      BY <1>7, <2>2
    <3>2. p # App
      BY OwnersAssumption
    <3>3. QED
      BY <1>4, <2>2, <3>1, <3>2 DEF Inv, NoDanglingMethod
  <2>3. QED
    BY <2>1, <2>2
<1>10. QED
  BY <1>5, <1>8, <1>9 DEF Inv

LEMMA ConstructInv ==
  ASSUME Inv, NEW o \in Objects, NEW b \in BOOLEAN, Construct(o, b)
  PROVE  Inv'
<1> DEFINE names == Bound(b)
           taken == {i \in DOMAIN names : names[i] \in DOMAIN myMethods}
<1>1. /\ object[o] = "unborn" /\ batch' = batch
      /\ introspection' = [introspection EXCEPT ![o] = b]
  BY DEF Construct
<1>2. capability \in [Objects -> BOOLEAN]
  BY DEF Inv, TypeOK
<1>3. CASE /\ myMethods' = BindAll(myMethods, names, o)
           /\ object' = [object EXCEPT ![o] = "alive"]
           /\ capability' = [capability EXCEPT ![o] = b]
  <2>1. ToSet(names) \subseteq BoundNames(b)
    BY BoundSet
  <2>2. /\ capability' \in [Objects -> BOOLEAN]
        /\ \A p \in Objects \ {o} : capability'[p] = capability[p]
    BY <1>2, <1>3
  <2>3. QED
    BY <1>1, <1>3, <2>1, <2>2, BindInv
<1>4. ASSUME NEW i \in taken,
             myMethods' = BindAll(myMethods, SubSeq(names, 1, i - 1), o),
             object' = [object EXCEPT ![o] = "failed"],
             UNCHANGED capability
      PROVE  Inv'
  <2>1. ToSet(SubSeq(names, 1, i - 1)) \subseteq BoundNames(b)
    BY PrefixSet
  <2>2. QED
    BY <1>1, <1>2, <1>4, <2>1, BindInv
<1>5. QED
  BY <1>3, <1>4 DEF Construct

\* The destructor removes all that the object owns but what the exception says.
LEMMA DestructInv ==
  ASSUME Inv, NEW o \in Objects, Destruct(o)
  PROVE  Inv'
<1>1. /\ myMethods' = Without(myMethods, Unbound(o))
      /\ object[o] = "alive"
      /\ object' = [object EXCEPT ![o] = "destroyed"]
      /\ introspection' = introspection /\ capability' = capability
      /\ batch' = batch
  BY DEF Destruct
<1>2. /\ DOMAIN myMethods' = DOMAIN myMethods \ Unbound(o)
      /\ \A n \in DOMAIN myMethods' : myMethods'[n] = myMethods[n]
  BY <1>1 DEF Without
<1>3. /\ object' \in [Objects -> Lives] /\ object'[o] = "destroyed"
      /\ \A p \in Objects \ {o} : object'[p] = object[p]
      /\ introspection[o] \in BOOLEAN /\ capability[o] \in BOOLEAN
  BY <1>1 DEF Inv, TypeOK, Lives
<1>4. TypeOK' /\ IsBatch(batch)'
  BY <1>1, <1>2, <1>3 DEF Inv, TypeOK, IsBatch
<1>5. OwnedNames'
  BY <1>1, <1>2, <1>3 DEF Inv, OwnedNames
<1>6. NoDanglingMethod'
  <2> SUFFICES ASSUME NEW n \in DOMAIN myMethods', NEW p \in Objects,
                      myMethods'[n].owner = p, object'[p] # "alive"
               PROVE  \/ object'[p] = "failed"
                      \/ /\ object'[p] = "destroyed"
                         /\ introspection'[p] /\ ~capability'[p]
                         /\ n \in Introspection
    <3>1. \A n \in DOMAIN myMethods' : myMethods'[n].owner \in Objects \cup {App}
      BY <1>4 DEF TypeOK, MethodWrapper
    <3>2. QED
      BY <3>1 DEF NoDanglingMethod
  <2>1. n \in DOMAIN myMethods /\ n \notin Unbound(o) /\ myMethods[n].owner = p
    BY <1>2
  <2>2. CASE p = o
    <3>1. n \in BoundNames(introspection[o])
      BY <2>1, <2>2 DEF Inv, OwnedNames
    <3>2. introspection[o] /\ ~capability[o] /\ n \in Introspection
      BY <1>3, <2>1, <3>1 DEF BoundNames, Unbound
    <3>3. QED
      BY <1>1, <1>3, <2>2, <3>2
  <2>3. CASE p # o
    <3>1. p # App
      BY OwnersAssumption
    <3>2. QED
      BY <1>1, <1>3, <2>1, <2>3, <3>1 DEF Inv, NoDanglingMethod
  <2>4. QED
    BY <2>2, <2>3
<1>7. QED
  BY <1>4, <1>5, <1>6 DEF Inv

\* Capabilities come and go while their object is alive.
LEMMA CapabilityInv ==
  ASSUME Inv, NEW o \in Objects, AddCapability(o) \/ RemoveCapability(o)
  PROVE  Inv'
<1>1. /\ object[o] = "alive"
      /\ UNCHANGED <<myMethods, object, introspection, batch>>
      /\ \E b \in BOOLEAN : capability' = [capability EXCEPT ![o] = b]
  BY DEF AddCapability, RemoveCapability
<1>2. /\ capability' \in [Objects -> BOOLEAN]
      /\ \A p \in Objects \ {o} : capability'[p] = capability[p]
  BY <1>1 DEF Inv, TypeOK
<1>3. TypeOK' /\ IsBatch(batch)' /\ OwnedNames'
  BY <1>1, <1>2 DEF Inv, TypeOK, IsBatch, OwnedNames
<1>4. NoDanglingMethod'
  <2>1. \A n \in DOMAIN myMethods : myMethods[n].owner \in Objects \cup {App}
    BY DEF Inv, TypeOK, MethodWrapper
  <2>2. QED
    BY <1>1, <1>2, <2>1 DEF Inv, NoDanglingMethod
<1>5. QED
  BY <1>3, <1>4 DEF Inv

\* A list of calls is a sequence of calls.
LEMMA CallListsType == CallLists \subseteq Seq(Calls)
BY CallsAssumption DEF CallLists

LEMMA MulticallInv ==
  ASSUME Inv,
         (\E calls \in CallLists : BeginMulticall(calls)) \/ CallNext \/ EndMulticall
  PROVE  Inv'
<1>1. IsRegistry(myMethods)
  BY DEF Inv, TypeOK, IsRegistry
<1>2. Derived(myMethods, myMethods)
  BY <1>1 DEF Derived
<1>3. ASSUME Derived(myMethods, myMethods'),
             UNCHANGED <<object, introspection, capability>>,
             IsBatch(batch'), batch'.active \in BOOLEAN,
             batch'.calls \in Seq(Calls), batch'.results \in Seq(Entry)
      PROVE  Inv'
  BY <1>3, DerivedInv DEF Inv, TypeOK, IsRegistry
<1>4. ASSUME NEW calls \in CallLists, BeginMulticall(calls) PROVE Inv'
  <2>1. calls \in Seq(Calls) /\ << >> \in Seq(Entry)
    BY CallListsType
  <2>2. QED
    BY <1>2, <1>3, <1>4, <2>1 DEF BeginMulticall, IsBatch
<1>5. CASE CallNext
  <2> DEFINE served == ServeCall(myMethods, batch.calls[Len(batch.results) + 1])
  <2>1. /\ batch' = [batch EXCEPT !.results = Append(@, served.entry)]
        /\ myMethods' = served.registry
        /\ UNCHANGED <<object, introspection, capability>>
    BY <1>5 DEF CallNext
  <2>2. Derived(myMethods, myMethods') /\ served.entry \in Entry
    BY <1>1, <2>1, ServeDerived, ServeType
  <2> HIDE DEF served
  <2>3. Append(batch.results, served.entry) \in Seq(Entry)
    BY <2>2 DEF Inv, TypeOK
  <2>4. batch = [active |-> batch.active, calls |-> batch.calls,
                 results |-> batch.results, before |-> batch.before]
    BY DEF Inv, IsBatch
  <2>5. batch' = [active |-> batch.active, calls |-> batch.calls,
                  results |-> Append(batch.results, served.entry),
                  before |-> batch.before]
    BY <2>1, <2>4
  <2>6. /\ IsBatch(batch') /\ batch'.active = batch.active
        /\ batch'.calls = batch.calls
        /\ batch'.results = Append(batch.results, served.entry)
    BY <2>5 DEF IsBatch
  <2>7. QED
    BY <1>3, <2>1, <2>2, <2>3, <2>6 DEF Inv, TypeOK
<1>6. CASE EndMulticall
  BY <1>2, <1>3, <1>6 DEF EndMulticall, NoBatch, IsBatch
<1>7. QED
  BY <1>4, <1>5, <1>6

LEMMA NextInv == Inv /\ [Next]_vars => Inv'
<1> SUFFICES ASSUME Inv, [Next]_vars PROVE Inv'
  OBVIOUS
<1>1. ASSUME NEW o \in Objects, NEW b \in BOOLEAN, Construct(o, b) PROVE Inv'
  BY <1>1, ConstructInv
<1>2. ASSUME NEW o \in Objects, Destruct(o) PROVE Inv'
  BY <1>2, DestructInv
<1>3. ASSUME NEW o \in Objects, AddCapability(o) \/ RemoveCapability(o) PROVE Inv'
  BY <1>3, CapabilityInv
<1>4. CASE UNCHANGED vars
  BY <1>4 DEF vars, Inv, TypeOK, IsBatch, OwnedNames, NoDanglingMethod
<1>5. QED
  BY <1>1, <1>2, <1>3, <1>4, AppInv, MulticallInv DEF Next, RegistryNext, MulticallNext

-----------------------------------------------------------------------------
\* Every registry, object and batch is what it should be.
THEOREM SpecTypeOK == Spec => []TypeOK
<1>1. Inv => TypeOK
  BY DEF Inv
<1>2. QED
  BY InitInv, NextInv, <1>1, PTL DEF Spec

\* No method outlives its object, apart from the two cases the code leaves: a
\* constructor that threw and a capability removed before the destructor ran
\* (xmlrpcsystemmethods.cpp:55-111).
THEOREM SpecNoDanglingMethod == Spec => []NoDanglingMethod
<1>1. Inv => NoDanglingMethod
  BY DEF Inv
<1>2. QED
  BY InitInv, NextInv, <1>1, PTL DEF Spec

-----------------------------------------------------------------------------
(***************************************************************************)
(* system.multicall is the calls made one at a time.  The state of the     *)
(* client that makes them so is a recursive function of their number, on   *)
(* the whole list, so that a step of the batch moves along it.             *)
(***************************************************************************)

\* One step of that function, and that f is it.
OneStep(f, registry, calls, i) ==
  IF i = 0 THEN [registry |-> registry, responses |-> << >>]
  ELSE Individually(f[i - 1], calls[i])

IsOne(f, registry, calls, n) == f = [i \in 0..n |-> OneStep(f, registry, calls, i)]

\* Every set of natural numbers that is not empty has a least one.
LEMMA LeastNat ==
  ASSUME NEW T \in SUBSET Nat, T # {}
  PROVE  \E k \in T : \A j \in T : k <= j
<1> DEFINE R == OpToRel(<, Nat)
<1>1. IsWellFoundedOn(R, Nat)
  BY ONLY NatLessThanWellFounded, Zenon
<1>2. R = {ss \in Nat \X Nat : ss[1] < ss[2]}
  BY ONLY Zenon DEF OpToRel
<1> HIDE DEF R
<1>3. PICK k \in T : \A j \in T : <<j, k>> \notin R
  BY <1>1, WFMin
<1>4. \A j \in T : ~(j < k)
  BY <1>2, <1>3
<1>5. QED
  BY <1>4

\* There is one, for every number of calls: were there none for some number,
\* then for a least one, and the function for one call less could be extended.
LEMMA OneExists ==
  ASSUME NEW registry, NEW calls, NEW n \in Nat
  PROVE  \E f : IsOne(f, registry, calls, n)
<1> DEFINE Bad == {k \in Nat : ~ \E f : IsOne(f, registry, calls, k)}
<1>1. ASSUME NEW k \in Bad, \A j \in 0..(k - 1) : j \notin Bad PROVE FALSE
  <2>1. k \in Nat /\ ~ \E f : IsOne(f, registry, calls, k)
    OBVIOUS
  <2>2. CASE k = 0
    <3> DEFINE f == [i \in 0..0 |-> [registry |-> registry, responses |-> << >>]]
    <3>1. IsOne(f, registry, calls, 0)
      BY DEF IsOne, OneStep
    <3>2. QED
      BY <2>1, <2>2, <3>1
  <2>3. CASE k # 0
    <3>1. k - 1 \in Nat /\ k - 1 \in 0..(k - 1)
      BY <2>1, <2>3
    <3>2. PICK f : IsOne(f, registry, calls, k - 1)
      BY <1>1, <3>1
    <3> DEFINE g == [i \in 0..k |-> IF i = k THEN Individually(f[k - 1], calls[k])
                                    ELSE f[i]]
    <3>3. \A i \in 0..(k - 1) : f[i] = OneStep(f, registry, calls, i)
      BY <3>2 DEF IsOne
    <3>4. \A i \in 0..k : g[i] = OneStep(g, registry, calls, i)
      <4> SUFFICES ASSUME NEW i \in 0..k PROVE g[i] = OneStep(g, registry, calls, i)
        OBVIOUS
      <4>1. CASE i = k
        <5>1. g[k] = Individually(f[k - 1], calls[k]) /\ g[k - 1] = f[k - 1]
          BY <2>1, <2>3
        <5>2. QED
          BY <2>1, <2>3, <4>1, <5>1 DEF OneStep
      <4>2. CASE i # k
        <5>1. i \in 0..(k - 1)
          BY <2>1, <4>2
        <5>2. g[i] = f[i] /\ (i # 0 => g[i - 1] = f[i - 1])
          BY <2>1, <5>1
        <5>3. QED
          BY <3>3, <5>1, <5>2 DEF OneStep
      <4>3. QED
        BY <4>1, <4>2
    <3>5. g = [i \in 0..k |-> g[i]]
      OBVIOUS
    <3> HIDE DEF g
    <3>6. IsOne(g, registry, calls, k)
      BY <3>4, <3>5 DEF IsOne
    <3>7. QED
      BY <2>1, <3>6
  <2>4. QED
    BY <2>2, <2>3
<1>2. Bad = {}
  <2> HIDE DEF Bad
  <2> SUFFICES ASSUME Bad # {} PROVE FALSE
    OBVIOUS
  <2>1. Bad \in SUBSET Nat
    BY DEF Bad
  <2>2. PICK k \in Bad : \A j \in Bad : k <= j
    BY <2>1, LeastNat
  <2>3. \A j \in 0..(k - 1) : j \notin Bad
    BY <2>1, <2>2
  <2>4. QED
    BY <1>1, <2>2, <2>3
<1>3. QED
  BY <1>2

\* The function of a whole list.
One(registry, calls) == CHOOSE f : IsOne(f, registry, calls, Len(calls))

LEMMA OneIs ==
  ASSUME NEW registry, NEW calls, Len(calls) \in Nat
  PROVE  /\ One(registry, calls)[0] = [registry |-> registry, responses |-> << >>]
         /\ \A i \in 1..Len(calls) :
              One(registry, calls)[i] = Individually(One(registry, calls)[i - 1], calls[i])
<1> DEFINE f == One(registry, calls)
<1>1. IsOne(f, registry, calls, Len(calls))
  BY OneExists DEF One
<1> HIDE DEF f
<1>2. \A i \in 0..Len(calls) : f[i] = OneStep(f, registry, calls, i)
  BY <1>1 DEF IsOne
<1>3. QED
  BY <1>2 DEF OneStep, f

LEMMA OneNext ==
  ASSUME NEW registry, NEW calls, Len(calls) \in Nat, NEW n \in Nat, n < Len(calls)
  PROVE  One(registry, calls)[n + 1] = Individually(One(registry, calls)[n], calls[n + 1])
<1> DEFINE f == One(registry, calls)
<1>1. \A i \in 1..Len(calls) : f[i] = Individually(f[i - 1], calls[i])
  BY OneIs
<1>2. n + 1 \in 1..Len(calls) /\ (n + 1) - 1 = n
  OBVIOUS
<1> HIDE DEF f
<1>3. f[n + 1] = Individually(f[n], calls[n + 1])
  BY <1>1, <1>2
<1>4. QED
  BY <1>3 DEF f

\* What an element of a batch's result and a response to a single call share.
Same(entry, response, call) ==
  /\ entry.isFault = response.isFault
  /\ entry.value = response.value
  /\ WellFormed(call) /\ call.name # SYSTEM_MULTICALL => entry.code = response.code

\* A response is a value or a fault.
IsShaped(r) == r = Ok(r.value) \/ r = FaultResponse(r.code)

LEMMA Shapes ==
  /\ \A v : IsShaped(Ok(v))
  /\ \A c : IsShaped(FaultResponse(c))
BY DEF IsShaped, Ok, FaultResponse

LEMMA InvokeShape ==
  ASSUME NEW m, NEW call
  PROVE  IsShaped(Invoke(m, call).response)
<1>1. SystemResponse(m, call.name, call.params, call.about) \in
        {Ok({}), Ok(ListMethods(m)), FaultResponse(0),
         FaultResponse(INVALID_PARAMETERS)}
  BY DEF SystemResponse
<1>2. ASSUME NEW n, NEW p
      PROVE  \/ InvokeMethod(m, n, p).response = Ok({})
             \/ \E c : InvokeMethod(m, n, p).response = FaultResponse(c)
  BY DEF InvokeMethod
<1>3. Invoke(m, call).response \in
        {SystemResponse(m, call.name, call.params, call.about),
         InvokeMethod(m, call.name, call.params).response}
  BY DEF Invoke
<1>4. IsShaped(SystemResponse(m, call.name, call.params, call.about))
  BY <1>1, Shapes
<1>5. IsShaped(InvokeMethod(m, call.name, call.params).response)
  BY <1>2, Shapes
<1>6. QED
  BY <1>3, <1>4, <1>5

\* A call in a batch does to the registry what it does alone, and gives the
\* same: every case of ServeCall is one of Individually.
LEMMA ServeSame ==
  ASSUME NEW m, IsRegistry(m), NEW call, NEW responses
  PROVE  \E r : /\ Individually([registry |-> m, responses |-> responses], call)
                     = [registry |-> ServeCall(m, call).registry,
                        responses |-> Append(responses, r)]
                /\ Same(ServeCall(m, call).entry, r, call)
<1> DEFINE acc == [registry |-> m, responses |-> responses]
           inv == Invoke(m, call)
           response == inv.response
           entry == ServeCall(m, call).entry
<1>1. CASE ~WellFormed(call) \/ call.name = SYSTEM_MULTICALL
  <2>1. /\ ServeCall(m, call).registry = m
        /\ \E c : ServeCall(m, call).entry = FaultEntry(c)
    <3>1. CASE ~call.isStruct \/ call.name = NotAString
      BY <3>1 DEF ServeCall, Missing, NotAString, SYSTEM_MULTICALL
    <3>2. CASE call.isStruct /\ call.name = Missing
      BY <3>2 DEF ServeCall, Missing, NotAString, SYSTEM_MULTICALL
    <3>3. CASE call.isStruct /\ call.name = SYSTEM_MULTICALL
      BY <3>3 DEF ServeCall, Missing, NotAString, SYSTEM_MULTICALL
    <3>4. CASE /\ call.isStruct
               /\ call.name \notin {Missing, NotAString, SYSTEM_MULTICALL}
               /\ call.params = NoParams
      BY <3>4 DEF ServeCall, NoParams, NotAnArray
    <3>5. CASE /\ call.isStruct
               /\ call.name \notin {Missing, NotAString, SYSTEM_MULTICALL}
               /\ call.params = NotAnArray
      BY <3>5 DEF ServeCall, NoParams, NotAnArray
    <3>6. QED
      BY <1>1, <3>1, <3>2, <3>3, <3>4, <3>5 DEF WellFormed
  <2>2. Individually(acc, call) =
          [registry |-> m, responses |-> Append(responses, FaultResponse(0))]
    BY <1>1 DEF Individually
  <2>3. Same(ServeCall(m, call).entry, FaultResponse(0), call)
    BY <1>1, <2>1 DEF Same, FaultEntry, FaultResponse
  <2>4. QED
    BY <2>1, <2>2, <2>3
<1>2. CASE WellFormed(call) /\ call.name # SYSTEM_MULTICALL
  <2>1. ServeCall(m, call) =
          [entry |-> IF response.isFault
                     THEN FaultEntry(ThrowIfFault(response.code).code)
                     ELSE ResultEntry(response.value),
           registry |-> inv.registry]
    BY <1>2 DEF ServeCall, WellFormed
  <2>2. Individually(acc, call) =
          [registry |-> ServeCall(m, call).registry,
           responses |-> Append(responses, response)]
    BY <1>2, <2>1 DEF Individually
  <2>3. response.code \in Int32
    BY InvokeType DEF IsResponse
  <2>4. ThrowIfFault(response.code).code = response.code
    BY <2>3, ThrowIfFaultKeepsCode
  <2>5. response = Ok(response.value) \/ response = FaultResponse(response.code)
    BY InvokeShape DEF IsShaped
  <2> HIDE DEF response, inv, entry
  <2>6. CASE response = Ok(response.value)
    <3>1. response.isFault = FALSE /\ response.code = 0
      BY <2>6 DEF Ok
    <3>2. entry = ResultEntry(response.value)
      BY <2>1, <3>1 DEF entry
    <3>3. /\ entry.isFault = response.isFault
          /\ entry.code = response.code
          /\ entry.value = response.value
      BY <2>6, <3>2 DEF Ok, ResultEntry
    <3>4. Same(entry, response, call)
      BY <3>3, Zenon DEF Same
    <3>5. QED
      BY <2>2, <3>4, Zenon DEF entry
  <2>7. CASE response = FaultResponse(response.code)
    <3>1. response.isFault = TRUE /\ response.value = {}
      BY <2>7 DEF FaultResponse
    <3>2. entry = FaultEntry(response.code)
      BY <2>1, <2>4, <3>1 DEF entry
    <3>3. /\ entry.isFault = response.isFault
          /\ entry.code = response.code
          /\ entry.value = response.value
      BY <2>7, <3>2 DEF FaultResponse, FaultEntry
    <3>4. Same(entry, response, call)
      BY <3>3, Zenon DEF Same
    <3>5. QED
      BY <2>2, <3>4, Zenon DEF entry
  <2>8. QED
    BY <2>5, <2>6, <2>7
<1>3. QED
  BY <1>1, <1>2

\* Append on a list of anything.
LEMMA AppendAny ==
  ASSUME NEW n \in Nat, NEW s, s = [i \in 1..n |-> s[i]], NEW x
  PROVE  Append(s, x) = [i \in 1..(n + 1) |-> IF i = n + 1 THEN x ELSE s[i]]
<1> DEFINE S == {s[i] : i \in 1..n} \cup {x}
<1>1. s \in Seq(S) /\ Len(s) = n
  <2>1. \A i \in 1..n : s[i] \in S
    OBVIOUS
  <2> HIDE DEF S
  <2>2. QED
    BY <2>1
<1>2. x \in S
  OBVIOUS
<1> HIDE DEF S
<1>3. QED
  BY <1>1, <1>2

\* How far the batch and the client are, and that they agree so far.
Abreast ==
  batch.active =>
    LET done == Len(batch.results)
        f == One(batch.before, batch.calls)
        responses == f[done].responses
    IN  /\ done <= Len(batch.calls)
        /\ f[done] = [registry |-> myMethods, responses |-> responses]
        /\ responses = [i \in 1..done |-> responses[i]]
        /\ \A i \in 1..done : Same(batch.results[i], responses[i], batch.calls[i])

LEMMA AbreastNext ==
  ASSUME Inv, Abreast, [Next]_vars
  PROVE  Abreast'
<1>1. CASE UNCHANGED <<myMethods, batch>>
  BY <1>1 DEF Abreast
<1>2. CASE Idle /\ UNCHANGED batch
  BY <1>2 DEF Abreast, Idle
<1>3. ASSUME NEW calls \in CallLists, BeginMulticall(calls) PROVE Abreast'
  <2>1. /\ batch' = [active |-> TRUE, calls |-> calls, results |-> << >>,
                     before |-> myMethods]
        /\ myMethods' = myMethods
    BY <1>3 DEF BeginMulticall
  <2>2. Len(calls) \in Nat
    BY CallListsType
  <2>3. One(myMethods, calls)[0] = [registry |-> myMethods, responses |-> << >>]
    BY <2>2, OneIs
  <2>4. /\ Len(batch'.results) = 0
        /\ << >> = [i \in 1..0 |-> << >>[i]]
    BY <2>1
  <2>5. QED
    BY <2>1, <2>2, <2>3, <2>4 DEF Abreast
<1>4. CASE CallNext
  <2> DEFINE done == Len(batch.results)
             call == batch.calls[done + 1]
             served == ServeCall(myMethods, call)
             f == One(batch.before, batch.calls)
             responses == f[done].responses
  <2>1. /\ batch.active /\ done < Len(batch.calls)
        /\ batch' = [batch EXCEPT !.results = Append(@, served.entry)]
        /\ myMethods' = served.registry
    BY <1>4 DEF CallNext
  <2>2. /\ done \in Nat /\ Len(batch.calls) \in Nat
        /\ batch.results \in Seq(Entry)
        /\ IsRegistry(myMethods)
        /\ batch = [active |-> batch.active, calls |-> batch.calls,
                    results |-> batch.results, before |-> batch.before]
    BY DEF Inv, TypeOK, IsBatch, IsRegistry
  <2>3. /\ f[done] = [registry |-> myMethods, responses |-> responses]
        /\ responses = [i \in 1..done |-> responses[i]]
        /\ \A i \in 1..done : Same(batch.results[i], responses[i], batch.calls[i])
    BY <2>1 DEF Abreast
  <2>4. f[done + 1] = Individually(f[done], call)
    BY <2>1, <2>2, OneNext
  <2>5. PICK r : /\ Individually([registry |-> myMethods, responses |-> responses], call)
                      = [registry |-> served.registry,
                         responses |-> Append(responses, r)]
                 /\ Same(served.entry, r, call)
    BY <2>2, ServeSame
  <2>6. served.entry \in Entry
    BY <2>2, ServeType
  <2>7. /\ batch'.active = batch.active /\ batch'.calls = batch.calls
        /\ batch'.results = Append(batch.results, served.entry)
        /\ batch'.before = batch.before
    BY <2>1, <2>2
  <2> DEFINE results2 == Append(batch.results, served.entry)
             responses2 == Append(responses, r)
  <2>8. /\ Len(results2) = done + 1
        /\ results2[done + 1] = served.entry
        /\ \A i \in 1..done : results2[i] = batch.results[i]
    BY <2>2, <2>6
  <2> HIDE DEF results2, served, call, f, responses, done
  <2>9. /\ responses2 = [i \in 1..(done + 1) |-> responses2[i]]
        /\ responses2[done + 1] = r
        /\ \A i \in 1..done : responses2[i] = responses[i]
    BY <2>2, <2>3, AppendAny
  <2> HIDE DEF responses2
  <2>10. f[done + 1] = [registry |-> myMethods', responses |-> responses2]
    BY <2>1, <2>3, <2>4, <2>5 DEF responses2
  <2>11. \A i \in 1..(done + 1) : Same(results2[i], responses2[i], batch.calls[i])
    <3> SUFFICES ASSUME NEW i \in 1..(done + 1)
                 PROVE  Same(results2[i], responses2[i], batch.calls[i])
      OBVIOUS
    <3>1. CASE i = done + 1
      BY <2>5, <2>8, <2>9, <3>1 DEF call
    <3>2. CASE i # done + 1
      <4>1. i \in 1..done
        BY <2>2, <3>2
      <4>2. QED
        BY <2>3, <2>8, <2>9, <4>1
    <3>3. QED
      BY <3>1, <3>2
  <2>12. f[done + 1].responses = responses2
    BY <2>10
  <2>13. /\ batch'.results = results2 /\ Len(batch'.results) = done + 1
         /\ done + 1 <= Len(batch.calls)
         /\ One(batch'.before, batch'.calls) = f
    BY <2>1, <2>2, <2>7, <2>8 DEF results2, f
  <2>14. QED
    BY <2>7, <2>9, <2>10, <2>11, <2>12, <2>13 DEF Abreast
<1>5. CASE EndMulticall
  BY <1>5 DEF EndMulticall, NoBatch, Abreast
<1>6. CASE RegistryNext
  <2>1. Idle /\ UNCHANGED batch
    BY <1>6 DEF RegistryNext, AppAdds, AppRemoves, SetHidden, Construct, Destruct,
                AddCapability, RemoveCapability
  <2>2. QED
    BY <1>2, <2>1
<1>7. QED
  BY <1>1, <1>3, <1>4, <1>5, <1>6 DEF Next, MulticallNext, vars

\* A batch is the calls made one at a time, whatever the calls do to the
\* registry and whatever was malformed before (xmlrpcsystemmethods.cpp:133-167).
THEOREM SpecMulticallEquivalent == Spec => []MulticallEquivalent
<1>1. Init => Abreast
  BY DEF Init, NoBatch, Abreast
<1>2. Inv /\ Abreast /\ [Next]_vars => Abreast'
  BY AbreastNext
<1>3. Inv /\ Abreast => MulticallEquivalent
  <2> SUFFICES ASSUME Inv, Abreast, batch.active
               PROVE  MulticallEquivalent
    BY DEF MulticallEquivalent
  <2> DEFINE f == One(batch.before, batch.calls)
             done == Len(batch.results)
  <2>1. f = CHOOSE one : one = [i \in 0..Len(batch.calls) |->
              IF i = 0 THEN [registry |-> batch.before, responses |-> << >>]
              ELSE Individually(one[i - 1], batch.calls[i])]
    BY DEF One, IsOne, OneStep
  <2>2. /\ myMethods = f[done].registry
        /\ \A i \in 1..done :
             Same(batch.results[i], f[done].responses[i], batch.calls[i])
    BY DEF Abreast
  <2>3. QED
    BY <2>1, <2>2 DEF MulticallEquivalent, Same
<1>4. QED
  BY InitInv, NextInv, <1>1, <1>2, <1>3, PTL DEF Spec

-----------------------------------------------------------------------------
(***************************************************************************)
(* A live object keeps its names.  That takes an application that removes  *)
(* only names of its own, and leaves one of system.multicall and           *)
(* system.getCapabilities alone: every constructor binds both, so that one *)
(* keeps a second object from being born while the first is alive.         *)
(***************************************************************************)

Apart ==
  /\ ~({SYSTEM_MULTICALL, SYSTEM_GETCAPABILITIES} \subseteq AppNames)
  /\ \A n \in Names : Behaviour[n].removes \subseteq AppNames

\* A change of the registry that leaves every other name with its owner.
Kept(m, m2) ==
  \A n \in DOMAIN m \ AppNames : n \in DOMAIN m2 /\ m2[n].owner = m[n].owner

\* No call changes more than that.
LEMMA ServeKept ==
  ASSUME Apart, NEW m, IsRegistry(m), NEW call
  PROVE  Kept(m, ServeCall(m, call).registry)
<1>1. Kept(m, m)
  BY DEF Kept
<1>2. ASSUME NEW n \in Names PROVE Kept(m, RunMethod(m, n).registry)
  <2> DEFINE removed == Without(m, Behaviour[n].removes)
             grown == [x \in DOMAIN removed \cup Behaviour[n].adds |->
                         IF x \in Behaviour[n].adds
                         THEN [owner |-> App, hidden |-> FALSE]
                         ELSE removed[x]]
  <2>1. Behaviour[n].removes \subseteq AppNames
    BY DEF Apart
  <2>2. Kept(m, removed)
    BY <2>1 DEF Kept, Without
  <2>3. CASE Behaviour[n].adds \cap DOMAIN removed # {}
    <3>1. RunMethod(m, n).registry = removed
      BY <2>3 DEF RunMethod
    <3>2. QED
      BY <2>2, <3>1
  <2>4. CASE Behaviour[n].adds \cap DOMAIN removed = {}
    <3>1. RunMethod(m, n).registry = grown
      BY <2>4 DEF RunMethod
    <3>2. \A x \in DOMAIN removed : x \in DOMAIN grown /\ grown[x] = removed[x]
      BY <2>4
    <3> HIDE DEF grown, removed
    <3>3. Kept(m, grown)
      BY <2>2, <3>2 DEF Kept
    <3>4. QED
      BY <3>1, <3>3
  <2>5. QED
    BY <2>3, <2>4
<1>3. ASSUME NEW n, NEW p PROVE Kept(m, InvokeMethod(m, n, p).registry)
  <2>1. CASE n \in DOMAIN m
    <3>1. n \in Names
      BY <2>1 DEF IsRegistry
    <3>2. InvokeMethod(m, n, p).registry \in {m, RunMethod(m, n).registry}
      BY DEF InvokeMethod
    <3>3. QED
      BY <1>1, <1>2, <3>1, <3>2
  <2>2. CASE n \notin DOMAIN m
    BY <1>1, <2>2 DEF InvokeMethod
  <2>3. QED
    BY <2>1, <2>2
<1>4. Kept(m, Invoke(m, call).registry)
  <2>1. Invoke(m, call).registry
          \in {m, InvokeMethod(m, call.name, call.params).registry}
    BY DEF Invoke
  <2>2. QED
    BY <1>1, <1>3, <2>1
<1>5. ServeCall(m, call).registry \in {m, Invoke(m, call).registry}
  BY DEF ServeCall
<1>6. QED
  BY <1>1, <1>4, <1>5

\* At most one object is alive: each owns the name the application leaves.
LEMMA OneAlive ==
  ASSUME Apart, Inv, LiveObjectServes, NEW o \in Objects, object[o] = "alive"
  PROVE  /\ \A p \in Objects : object[p] = "alive" => p = o
         /\ \E n \in {SYSTEM_MULTICALL, SYSTEM_GETCAPABILITIES} : n \in DOMAIN myMethods
<1>1. PICK n \in {SYSTEM_MULTICALL, SYSTEM_GETCAPABILITIES} : n \notin AppNames
  BY DEF Apart
<1>2. ASSUME NEW p \in Objects, object[p] = "alive"
      PROVE  n \in DOMAIN myMethods /\ myMethods[n].owner = p
  <2>1. introspection[p] \in BOOLEAN
    BY DEF Inv, TypeOK
  <2>2. n \in ToSet(Bound(introspection[p])) \ AppNames
    BY <1>1, <2>1, BoundSet DEF BoundNames
  <2>3. QED
    BY <1>2, <2>2 DEF LiveObjectServes
<1>3. QED
  BY <1>2

\* A step of the application or of a batch preserves the property, ...
LEMMA KeptLive ==
  ASSUME LiveObjectServes, Kept(myMethods, myMethods'),
         UNCHANGED <<object, introspection>>
  PROVE  LiveObjectServes'
BY DEF LiveObjectServes, Kept

\* ... and so does every other.
LEMMA NextLive ==
  ASSUME Apart, Inv, LiveObjectServes, [Next]_vars
  PROVE  LiveObjectServes'
<1> USE DEF Idle
<1>1. Kept(myMethods, myMethods)
  BY DEF Kept
<1>2. ASSUME NEW n \in AppNames, AppAdds(n) \/ AppRemoves(n) PROVE LiveObjectServes'
  <2>1. Kept(myMethods, myMethods')
    BY <1>2 DEF AppAdds, AppRemoves, Kept, AddMethod, RemoveMethod, With, Without
  <2>2. QED
    BY <1>2, <2>1, KeptLive DEF AppAdds, AppRemoves
<1>3. ASSUME NEW n \in MayHide, NEW h \in BOOLEAN, SetHidden(n, h)
      PROVE  LiveObjectServes'
  <2>1. Kept(myMethods, myMethods')
    BY <1>3 DEF SetHidden, Kept, Inv, TypeOK, MethodWrapper
  <2>2. QED
    BY <1>3, <2>1, KeptLive DEF SetHidden
<1>4. ASSUME NEW o \in Objects, NEW b \in BOOLEAN, Construct(o, b)
      PROVE  LiveObjectServes'
  <2> DEFINE names == Bound(b)
             taken == {i \in DOMAIN names : names[i] \in DOMAIN myMethods}
  <2>1. /\ object[o] = "unborn"
        /\ introspection' = [introspection EXCEPT ![o] = b]
        /\ introspection \in [Objects -> BOOLEAN] /\ object \in [Objects -> Lives]
    BY <1>4 DEF Construct, Inv, TypeOK
  <2>2. CASE /\ taken = {}
             /\ myMethods' = BindAll(myMethods, names, o)
             /\ object' = [object EXCEPT ![o] = "alive"]
    <3>1. \A p \in Objects : object[p] # "alive"
      <4> SUFFICES ASSUME NEW p \in Objects, object[p] = "alive" PROVE FALSE
        OBVIOUS
      <4>1. PICK n \in {SYSTEM_MULTICALL, SYSTEM_GETCAPABILITIES} :
              n \in DOMAIN myMethods
        BY OneAlive
      <4>2. {1, 2} \subseteq DOMAIN names
        BY BoundSet
      <4>3. names[1] = SYSTEM_MULTICALL /\ names[2] = SYSTEM_GETCAPABILITIES
        BY DEF Bound
      <4>4. QED
        BY <2>2, <4>1, <4>2, <4>3
    <3>2. \A p \in Objects : object'[p] = "alive" => p = o
      BY <2>1, <2>2, <3>1
    <3>3. ASSUME NEW n \in ToSet(names)
          PROVE  n \in DOMAIN myMethods' /\ myMethods'[n].owner = o
      <4>1. n \notin DOMAIN myMethods
        BY <2>2, <3>3 DEF ToSet
      <4>2. QED
        BY <2>2, <3>3, <4>1 DEF BindAll
    <3>4. introspection'[o] = b
      BY <2>1
    <3>5. QED
      BY <3>2, <3>3, <3>4 DEF LiveObjectServes
  <2>3. ASSUME NEW i \in taken,
               myMethods' = BindAll(myMethods, SubSeq(names, 1, i - 1), o),
               object' = [object EXCEPT ![o] = "failed"]
        PROVE  LiveObjectServes'
    <3>1. \A p \in Objects : object'[p] = "alive" =>
            object[p] = "alive" /\ introspection'[p] = introspection[p]
      BY <2>1, <2>3
    <3>2. \A n \in DOMAIN myMethods : n \in DOMAIN myMethods' /\ myMethods'[n] = myMethods[n]
      BY <2>3 DEF BindAll
    <3>3. QED
      BY <3>1, <3>2 DEF LiveObjectServes
  <2>4. QED
    BY <1>4, <2>2, <2>3 DEF Construct
<1>5. ASSUME NEW o \in Objects, Destruct(o) PROVE LiveObjectServes'
  <2>1. /\ object[o] = "alive" /\ object' = [object EXCEPT ![o] = "destroyed"]
        /\ object \in [Objects -> Lives]
    BY <1>5 DEF Destruct, Inv, TypeOK
  <2>2. \A p \in Objects : object'[p] # "alive"
    BY <2>1, OneAlive
  <2>3. QED
    BY <2>2 DEF LiveObjectServes
<1>6. ASSUME NEW o \in Objects, AddCapability(o) \/ RemoveCapability(o)
      PROVE  LiveObjectServes'
  BY <1>1, <1>6, KeptLive DEF AddCapability, RemoveCapability
<1>7. CASE MulticallNext
  <2>1. CASE CallNext
    <3> DEFINE served == ServeCall(myMethods, batch.calls[Len(batch.results) + 1])
    <3>1. myMethods' = served.registry /\ UNCHANGED <<object, introspection>>
      BY <2>1 DEF CallNext
    <3>2. IsRegistry(myMethods)
      BY DEF Inv, TypeOK, IsRegistry
    <3>3. Kept(myMethods, served.registry)
      BY <3>2, ServeKept
    <3> HIDE DEF served
    <3>4. QED
      BY <3>1, <3>3, KeptLive
  <2>2. CASE UNCHANGED <<myMethods, object, introspection>>
    BY <1>1, <2>2, KeptLive
  <2>3. QED
    BY <1>7, <2>1, <2>2 DEF MulticallNext, BeginMulticall, EndMulticall
<1>8. CASE UNCHANGED vars
  BY <1>1, <1>8, KeptLive DEF vars
<1>9. QED
  BY <1>2, <1>3, <1>4, <1>5, <1>6, <1>7, <1>8 DEF Next, RegistryNext

\* A live object answers to the names it bound, for any number of objects and
\* whatever the application's methods do, if they remove only names of its own
\* (xmlrpcsystemmethods.cpp:57-107).
THEOREM SpecLiveObjectServes ==
  ASSUME Apart
  PROVE  Spec => []LiveObjectServes
<1>1. Init => Inv /\ LiveObjectServes
  BY InitInv DEF Init, LiveObjectServes
<1>2. Inv /\ LiveObjectServes /\ [Next]_vars => (Inv /\ LiveObjectServes)'
  BY NextInv, NextLive
<1>3. QED
  BY <1>1, <1>2, PTL DEF Spec
=============================================================================
