----------------------------- MODULE Dispatcher -----------------------------
(***************************************************************************)
(* The method registry (src/dispatcher.cpp): AddMethod, RemoveMethod,      *)
(* SetHidden, GetMethodNames and Invoke.  The registry is a function from  *)
(* the registered names; an entry says who bound the method (the           *)
(* application, or the object whose member function it is) and whether it  *)
(* is hidden.  What an application method does when it runs is the         *)
(* application's: Behaviour gives, for each name, the parameters it takes  *)
(* and its effect, which may be to change the registry itself.  It may not *)
(* remove itself: that would destroy the std::function that is running.    *)
(***************************************************************************)
EXTENDS Faults, Sequences, FiniteSets

CONSTANTS
  Names,      \* all the method names in use
  App,        \* the owner of the application's own methods
  Objects,    \* the objects that bind member functions of theirs
  Behaviour   \* what the application's method of each name does

VARIABLE myMethods

ASSUME OwnersAssumption == App \notin Objects
ASSUME BehaviourAssumption ==
  \A n \in Names :
    /\ Behaviour[n].arity \in Nat
    /\ Behaviour[n].removes \subseteq Names \ {n}
    /\ Behaviour[n].adds \subseteq Names
    /\ Cardinality(Behaviour[n].adds) <= 1
    /\ Behaviour[n].throws \in {"nothing"} \cup Exceptions
    /\ Behaviour[n].code \in Int32
    /\ Behaviour[n].throws = "server_error" =>
         Behaviour[n].code \in SERVER_ERROR_CODE_MIN..SERVER_ERROR_CODE_MAX

MethodWrapper == [owner : Objects \cup {App}, hidden : BOOLEAN]

-----------------------------------------------------------------------------
(***************************************************************************)
(* Operations, on a registry m.                                            *)
(***************************************************************************)

With(m, n, w) == [x \in DOMAIN m \cup {n} |-> IF x = n THEN w ELSE m[x]]
Without(m, N) == [x \in DOMAIN m \ N |-> m[x]]

\* Variant: the name is read after it was moved from.
AddMethodMovedName(m, n, owner) ==
  With(m, "", [owner |-> owner, hidden |-> FALSE])

\* AddMethod throws, and changes nothing, when the name is taken.
AddMethod(m, n, owner) ==
  IF n \in DOMAIN m THEN m
  ELSE With(m, n, [owner |-> owner, hidden |-> FALSE])

RemoveMethod(m, n) == Without(m, {n})

GetMethodNames(m, includeHidden) ==
  {n \in DOMAIN m : includeHidden \/ ~m[n].hidden}

\* A Response: a value, or a fault code.  Of the values only lists of method
\* names matter; every other is {}.
Ok(value) == [isFault |-> FALSE, code |-> 0, value |-> value]
FaultResponse(code) == [isFault |-> TRUE, code |-> code, value |-> {}]

\* The body of an application method, run on a registry: it removes some
\* methods, adds one, and returns or throws.  Adding a taken name throws.
RunMethod(m, n) ==
  LET b == Behaviour[n]
      removed == Without(m, b.removes)
  IN  IF b.adds \cap DOMAIN removed # {}
      THEN [registry |-> removed, throws |-> "exception", code |-> 0]
      ELSE [registry |-> [x \in DOMAIN removed \cup b.adds |->
                            IF x \in b.adds
                            THEN [owner |-> App, hidden |-> FALSE]
                            ELSE removed[x]],
            throws |-> b.throws, code |-> ThrownCode(b.throws, b.code)]

\* Dispatcher::Invoke of an application method, or of a name nobody registered:
\* the response and the registry afterwards.  Every exception becomes a fault.
InvokeMethod(m, n, params) ==
  IF n \notin DOMAIN m
  THEN [response |-> FaultResponse(METHOD_NOT_FOUND), registry |-> m]
  ELSE IF params # Behaviour[n].arity
  THEN [response |-> FaultResponse(INVALID_PARAMETERS), registry |-> m]
  ELSE LET r == RunMethod(m, n)
       IN  [response |-> IF r.throws = "nothing" THEN Ok({})
                         ELSE FaultResponse(InvokeCode(r.throws, r.code)),
            registry |-> r.registry]
=============================================================================
