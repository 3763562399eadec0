--------------------------- MODULE SystemMethods ---------------------------
(***************************************************************************)
(* XmlRpcSystemMethods (src/xmlrpcsystemmethods.cpp) on a Dispatcher.  An  *)
(* object of this class binds its member functions to the system.* names   *)
(* when it is constructed and removes them when it is destroyed; which     *)
(* ones it removes depends on a capability that the application can add    *)
(* and remove.  system.multicall runs a list of calls, any of which may    *)
(* change the registry that the later ones are looked up in.               *)
(***************************************************************************)
EXTENDS Dispatcher, SequencesExt

CONSTANTS
  AppNames,    \* the names the application registers itself
  MayHide,     \* bound: the names it hides and shows
  Calls,       \* the elements clients put in the list of a system.multicall
  MaxCalls     \* bound: length of that list

ASSUME CallsAssumption ==
  /\ AppNames \subseteq Names
  /\ MayHide \subseteq Names
  /\ MaxCalls \in Nat

SYSTEM_MULTICALL == "system.multicall"
SYSTEM_GETCAPABILITIES == "system.getCapabilities"
SYSTEM_LISTMETHODS == "system.listMethods"
SYSTEM_METHODSIGNATURE == "system.methodSignature"
SYSTEM_METHODHELP == "system.methodHelp"

Introspection ==
  {SYSTEM_LISTMETHODS, SYSTEM_METHODSIGNATURE, SYSTEM_METHODHELP}

ASSUME SystemNamesAssumption ==
  Introspection \cup {SYSTEM_MULTICALL, SYSTEM_GETCAPABILITIES} \subseteq Names

VARIABLES
  object,        \* the life of each XmlRpcSystemMethods object
  introspection, \* the constructor's argument
  capability,    \* is "introspect" in its myCapabilities?
  batch          \* the system.multicall being served, or the last one

vars == <<myMethods, object, introspection, capability, batch>>

Lives == {"unborn", "alive", "failed", "destroyed"}

\* An element of a multicall's result: an array with the value, or a fault.
Entry == [isFault : BOOLEAN, code : Int32, value : SUBSET Names]
ResultEntry(value) == [isFault |-> FALSE, code |-> 0, value |-> value]
FaultEntry(code) == [isFault |-> TRUE, code |-> code, value |-> {}]

NoBatch == [active |-> FALSE, calls |-> << >>, results |-> << >>,
            before |-> << >>]

Idle == ~batch.active

TypeOK ==
  /\ DOMAIN myMethods \subseteq Names
  /\ \A n \in DOMAIN myMethods : myMethods[n] \in MethodWrapper
  /\ object \in [Objects -> Lives]
  /\ introspection \in [Objects -> BOOLEAN]
  /\ capability \in [Objects -> BOOLEAN]
  /\ batch.active \in BOOLEAN
  /\ batch.calls \in Seq(Calls)
  /\ batch.results \in Seq(Entry)

Init ==
  /\ myMethods = << >>
  /\ object = [o \in Objects |-> "unborn"]
  /\ introspection = [o \in Objects |-> FALSE]
  /\ capability = [o \in Objects |-> FALSE]
  /\ batch = NoBatch

-----------------------------------------------------------------------------
(***************************************************************************)
(* The application's own use of the registry, between two requests.        *)
(***************************************************************************)

AppAdds(n) ==
  /\ Idle
  /\ n \notin DOMAIN myMethods
  /\ myMethods' = AddMethod(myMethods, n, App)
  /\ UNCHANGED <<object, introspection, capability, batch>>

AppRemoves(n) ==
  /\ Idle
  /\ n \in DOMAIN myMethods
  /\ myMethods' = RemoveMethod(myMethods, n)
  /\ UNCHANGED <<object, introspection, capability, batch>>

SetHidden(n, hidden) ==
  /\ Idle
  /\ n \in DOMAIN myMethods
  /\ myMethods[n].hidden # hidden
  /\ myMethods' = [myMethods EXCEPT ![n].hidden = hidden]
  /\ UNCHANGED <<object, introspection, capability, batch>>

-----------------------------------------------------------------------------
(***************************************************************************)
(* Construction and destruction.                                           *)
(***************************************************************************)

\* The names the constructor binds, in its order.
Bound(withIntrospection) ==
  IF withIntrospection
  THEN <<SYSTEM_MULTICALL, SYSTEM_GETCAPABILITIES, SYSTEM_LISTMETHODS,
         SYSTEM_METHODSIGNATURE, SYSTEM_METHODHELP>>
  ELSE <<SYSTEM_MULTICALL, SYSTEM_GETCAPABILITIES>>

BindAll(m, names, o) ==
  [n \in DOMAIN m \cup ToSet(names) |->
     IF n \in DOMAIN m THEN m[n] ELSE [owner |-> o, hidden |-> FALSE]]

\* Variant: a constructor that fails undoes what its destructor would undo.
ConstructUndoes(o, withIntrospection) ==
  /\ Idle
  /\ object[o] = "unborn"
  /\ introspection' = [introspection EXCEPT ![o] = withIntrospection]
  /\ LET names == Bound(withIntrospection)
         taken == {i \in DOMAIN names : names[i] \in DOMAIN myMethods}
     IN  \/ /\ taken = {}
            /\ myMethods' = BindAll(myMethods, names, o)
            /\ object' = [object EXCEPT ![o] = "alive"]
            /\ capability' = [capability EXCEPT ![o] = withIntrospection]
         \/ /\ taken # {}
            /\ myMethods' = Without(myMethods, ToSet(names))
            /\ object' = [object EXCEPT ![o] = "failed"]
            /\ UNCHANGED capability
  /\ UNCHANGED batch

\* XmlRpcSystemMethods::XmlRpcSystemMethods.  When a name is taken, AddMethod
\* throws: there is no object, its destructor does not run, and the names
\* bound before stay bound to it.
Construct(o, withIntrospection) ==
  /\ Idle
  /\ object[o] = "unborn"
  /\ introspection' = [introspection EXCEPT ![o] = withIntrospection]
  /\ LET names == Bound(withIntrospection)
         taken == {i \in DOMAIN names : names[i] \in DOMAIN myMethods}
     IN  \/ /\ taken = {}
            /\ myMethods' = BindAll(myMethods, names, o)
            /\ object' = [object EXCEPT ![o] = "alive"]
            /\ capability' = [capability EXCEPT ![o] = withIntrospection]
         \/ \E i \in taken :
              /\ \A j \in taken : i <= j
              /\ myMethods' = BindAll(myMethods, SubSeq(names, 1, i - 1), o)
              /\ object' = [object EXCEPT ![o] = "failed"]
              /\ UNCHANGED capability
  /\ UNCHANGED batch

\* Variant: the destructor forgets what it bound last.
UnboundFirst(o) ==
  {SYSTEM_MULTICALL, SYSTEM_GETCAPABILITIES} \cup
  IF capability[o] THEN Introspection \ {SYSTEM_METHODHELP} ELSE {}

\* The names the destructor removes, whoever owns them by then.
Unbound(o) ==
  {SYSTEM_MULTICALL, SYSTEM_GETCAPABILITIES} \cup
  IF capability[o] THEN Introspection ELSE {}

\* XmlRpcSystemMethods::~XmlRpcSystemMethods
Destruct(o) ==
  /\ Idle
  /\ object[o] = "alive"
  /\ myMethods' = Without(myMethods, Unbound(o))
  /\ object' = [object EXCEPT ![o] = "destroyed"]
  /\ UNCHANGED <<introspection, capability, batch>>

\* AddCapability (which throws when it is there) and RemoveCapability, of
\* "introspect": the other capabilities are only reported.
AddCapability(o) ==
  /\ Idle
  /\ object[o] = "alive"
  /\ ~capability[o]
  /\ capability' = [capability EXCEPT ![o] = TRUE]
  /\ UNCHANGED <<myMethods, object, introspection, batch>>

RemoveCapability(o) ==
  /\ Idle
  /\ object[o] = "alive"
  /\ capability[o]
  /\ capability' = [capability EXCEPT ![o] = FALSE]
  /\ UNCHANGED <<myMethods, object, introspection, batch>>

-----------------------------------------------------------------------------
(***************************************************************************)
(* system.multicall.                                                       *)
(***************************************************************************)

\* A call is well formed when it is a struct with a name that is a string and
\* parameters that are an array: params is their number.  What is not so is
\* written as one of these.
Missing == "missing"
NotAString == "not a string"
NoParams == -1
NotAnArray == -2
WellFormed(call) ==
  /\ call.isStruct
  /\ call.name \notin {Missing, NotAString}
  /\ call.params \notin {NoParams, NotAnArray}

\* system.listMethods
ListMethods(m) == GetMethodNames(m, FALSE)

\* system.methodSignature and system.methodHelp answer for these names, and
\* throw Fault("No method ...") for the others.
HasSignature(m, n) == n \in DOMAIN m /\ ~m[n].hidden
HasHelp(m, n) == n \in DOMAIN m /\ ~m[n].hidden

\* A system method, called with this many parameters, the first of which is
\* the name of a method.  None of them changes the registry.
SystemResponse(m, n, params, about) ==
  IF params # (IF n \in {SYSTEM_METHODSIGNATURE, SYSTEM_METHODHELP} THEN 1 ELSE 0)
  THEN FaultResponse(INVALID_PARAMETERS)
  ELSE CASE n = SYSTEM_LISTMETHODS -> Ok(ListMethods(m))
         [] n = SYSTEM_METHODSIGNATURE ->
              IF HasSignature(m, about) THEN Ok({}) ELSE FaultResponse(0)
         [] n = SYSTEM_METHODHELP ->
              IF HasHelp(m, about) THEN Ok({}) ELSE FaultResponse(0)
         [] OTHER -> Ok({})

\* Dispatcher::Invoke of a call in a list.  (A system method whose object is
\* gone is undefined behaviour; with a single object, alive to serve the list,
\* there is none.)
Invoke(m, call) ==
  IF call.name \in DOMAIN m /\ m[call.name].owner # App
  THEN [response |-> SystemResponse(m, call.name, call.params, call.about),
        registry |-> m]
  ELSE InvokeMethod(m, call.name, call.params)

\* The body of the loop in SystemMulticall: the element the call adds to the
\* result, and the registry it leaves.  AsStruct, AsString and AsArray throw an
\* InvalidParametersFault, at() throws std::out_of_range.
ServeCall(m, call) ==
  LET fails(code) == [entry |-> FaultEntry(code), registry |-> m]
  IN  CASE ~call.isStruct \/ call.name = NotAString -> fails(INVALID_PARAMETERS)
        [] call.isStruct /\ call.name = Missing -> fails(0)
        [] call.isStruct /\ call.name = SYSTEM_MULTICALL -> fails(INTERNAL_ERROR)
        [] /\ call.isStruct
           /\ call.name \notin {Missing, NotAString, SYSTEM_MULTICALL}
           /\ call.params = NoParams -> fails(0)
        [] /\ call.isStruct
           /\ call.name \notin {Missing, NotAString, SYSTEM_MULTICALL}
           /\ call.params = NotAnArray -> fails(INVALID_PARAMETERS)
        [] OTHER ->
             LET r == Invoke(m, call)
             IN  [entry |-> IF r.response.isFault
                            THEN FaultEntry(ThrowIfFault(r.response.code).code)
                            ELSE ResultEntry(r.response.value),
                  registry |-> r.registry]

\* A client calls system.multicall, and its object is there to serve it.
BeginMulticall(calls) ==
  /\ Idle
  /\ SYSTEM_MULTICALL \in DOMAIN myMethods
  /\ \E o \in Objects : /\ myMethods[SYSTEM_MULTICALL].owner = o
                        /\ object[o] = "alive"
  /\ batch' = [active |-> TRUE, calls |-> calls, results |-> << >>,
               before |-> myMethods]
  /\ UNCHANGED <<myMethods, object, introspection, capability>>

\* Variant: every call is looked up in the registry the batch started with.
CallNextStale ==
  /\ batch.active
  /\ Len(batch.results) < Len(batch.calls)
  /\ LET served == ServeCall(batch.before, batch.calls[Len(batch.results) + 1])
     IN  /\ batch' = [batch EXCEPT !.results = Append(@, served.entry)]
         /\ myMethods' = served.registry
  /\ UNCHANGED <<object, introspection, capability>>

CallNext ==
  /\ batch.active
  /\ Len(batch.results) < Len(batch.calls)
  /\ LET served == ServeCall(myMethods, batch.calls[Len(batch.results) + 1])
     IN  /\ batch' = [batch EXCEPT !.results = Append(@, served.entry)]
         /\ myMethods' = served.registry
  /\ UNCHANGED <<object, introspection, capability>>

EndMulticall ==
  /\ batch.active
  /\ Len(batch.results) = Len(batch.calls)
  /\ batch' = NoBatch
  /\ UNCHANGED <<myMethods, object, introspection, capability>>

-----------------------------------------------------------------------------
CallLists == UNION {[1..k -> Calls] : k \in 0..MaxCalls}

RegistryNext ==
  \/ \E n \in AppNames : AppAdds(n)
  \/ \E n \in AppNames : AppRemoves(n)
  \/ \E n \in MayHide, hidden \in BOOLEAN : SetHidden(n, hidden)
  \/ \E o \in Objects :
       \/ \E withIntrospection \in BOOLEAN : Construct(o, withIntrospection)
       \/ Destruct(o)
       \/ AddCapability(o)
       \/ RemoveCapability(o)

MulticallNext ==
  \/ \E calls \in CallLists : BeginMulticall(calls)
  \/ CallNext
  \/ EndMulticall

Next == RegistryNext \/ MulticallNext

Spec == Init /\ [][Next]_vars

-----------------------------------------------------------------------------
(***************************************************************************)
(* Properties.                                                             *)
(***************************************************************************)

\* A registered method is never bound to an object that is gone, with two
\* exceptions the code has: a constructor that threw half way, and the
\* introspection methods of an object whose "introspect" capability had been
\* removed when it was destroyed (xmlrpcsystemmethods.cpp:67-93, 103-107).
NoDanglingMethod ==
  \A n \in DOMAIN myMethods : LET o == myMethods[n].owner IN
    o # App /\ object[o] # "alive" =>
      \/ object[o] = "failed"
      \/ /\ object[o] = "destroyed"
         /\ introspection[o] /\ ~capability[o]
         /\ n \in Introspection

\* While an object is alive its methods answer for it: no other object's
\* construction, failure or destruction, no hiding, and no method the
\* application adds or removes, takes a name away from it, except a name the
\* application uses itself (xmlrpcsystemmethods.cpp:57-107).
LiveObjectServes ==
  \A o \in Objects : object[o] = "alive" =>
    \A n \in ToSet(Bound(introspection[o])) \ AppNames :
      n \in DOMAIN myMethods /\ myMethods[n].owner = o

\* What a client that makes the calls one at a time would get: the responses,
\* and the registry at the end.
Individually(acc, call) ==
  IF ~WellFormed(call) \/ call.name = SYSTEM_MULTICALL
  THEN [acc EXCEPT !.responses = Append(@, FaultResponse(0))]
  ELSE LET r == Invoke(acc.registry, call)
       IN  [registry |-> r.registry,
            responses |-> Append(acc.responses, r.response)]

\* system.multicall is the calls made one at a time: the i-th element is the
\* outcome of the i-th call on the registry the earlier ones left, fault code
\* and listing included; a malformed call or a nested multicall is a fault and has no
\* effect (xmlrpcsystemmethods.cpp:133-167).
MulticallEquivalent ==
  batch.active =>
    LET one[i \in 0..Len(batch.calls)] ==
          IF i = 0 THEN [registry |-> batch.before, responses |-> << >>]
          ELSE Individually(one[i - 1], batch.calls[i])
        done == Len(batch.results)
    IN  /\ myMethods = one[done].registry
        /\ \A i \in 1..done : LET call == batch.calls[i]
                                  response == one[done].responses[i]
                              IN
             /\ batch.results[i].isFault = response.isFault
             /\ batch.results[i].value = response.value
             /\ WellFormed(call) /\ call.name # SYSTEM_MULTICALL =>
                  batch.results[i].code = response.code
=============================================================================
