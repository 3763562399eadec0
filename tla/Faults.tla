------------------------------- MODULE Faults -------------------------------
(***************************************************************************)
(* Fault codes (include/xsonrpc/fault.h) and their two crossings: from an  *)
(* exception a method threw to the code of a Response (dispatcher.cpp),    *)
(* and from that code to the exception the caller of ThrowIfFault catches  *)
(* (response.cpp).                                                         *)
(***************************************************************************)
EXTENDS Integers

RESERVED_CODE_MIN == -32768
RESERVED_CODE_MAX == -32000
SERVER_ERROR_CODE_MIN == -32099
SERVER_ERROR_CODE_MAX == -32000
PARSE_ERROR == -32700
INVALID_REQUEST == -32600
METHOD_NOT_FOUND == -32601
INVALID_PARAMETERS == -32602
INTERNAL_ERROR == -32603

INT32_MIN == -2147483647 - 1
INT32_MAX == 2147483647
Int32 == INT32_MIN..INT32_MAX

IsReserved(code) == code \in RESERVED_CODE_MIN..RESERVED_CODE_MAX

\* The constructor applications use: a reserved code becomes 0 (the assertion
\* before that is not compiled into a release build).
FaultCode(code) == IF IsReserved(code) THEN 0 ELSE code

\* Response::ThrowIfFault on a fault with this code: the class of the exception
\* and the code its constructor leaves in it.
Thrown(class, code) == [class |-> class, code |-> code]

\* Variant: the server range is not told from the application's codes.
ThrowAllAsFault(code) ==
  CASE code = PARSE_ERROR        -> Thrown("ParseErrorFault", PARSE_ERROR)
    [] code = INVALID_REQUEST    -> Thrown("InvalidRequestFault", INVALID_REQUEST)
    [] code = METHOD_NOT_FOUND   -> Thrown("MethodNotFoundFault", METHOD_NOT_FOUND)
    [] code = INVALID_PARAMETERS ->
         Thrown("InvalidParametersFault", INVALID_PARAMETERS)
    [] code = INTERNAL_ERROR     -> Thrown("InternalErrorFault", INTERNAL_ERROR)
    [] OTHER -> Thrown("Fault", FaultCode(code))

ThrowIfFault(code) ==
  CASE code = PARSE_ERROR        -> Thrown("ParseErrorFault", PARSE_ERROR)
    [] code = INVALID_REQUEST    -> Thrown("InvalidRequestFault", INVALID_REQUEST)
    [] code = METHOD_NOT_FOUND   -> Thrown("MethodNotFoundFault", METHOD_NOT_FOUND)
    [] code = INVALID_PARAMETERS ->
         Thrown("InvalidParametersFault", INVALID_PARAMETERS)
    [] code = INTERNAL_ERROR     -> Thrown("InternalErrorFault", INTERNAL_ERROR)
    [] code \in SERVER_ERROR_CODE_MIN..SERVER_ERROR_CODE_MAX ->
         Thrown("ServerErrorFault", code)
    [] /\ IsReserved(code)
       /\ code \notin SERVER_ERROR_CODE_MIN..SERVER_ERROR_CODE_MAX
       /\ code \notin {PARSE_ERROR, INVALID_REQUEST, METHOD_NOT_FOUND,
                       INVALID_PARAMETERS, INTERNAL_ERROR} ->
         Thrown("PreDefinedFault", code)
    [] OTHER -> Thrown("Fault", FaultCode(code))

-----------------------------------------------------------------------------
\* What a method can throw: a Fault, a ServerErrorFault (the one subclass whose
\* code the application chooses), std::out_of_range, another std::exception, or
\* anything else.
Exceptions == {"fault", "server_error", "out_of_range", "exception", "other"}

\* The code in an exception that was constructed with this one.
ThrownCode(exception, code) ==
  IF exception = "fault" THEN FaultCode(code) ELSE code

\* The handlers of Dispatcher::Invoke.
InvokeCode(exception, code) ==
  CASE exception \in {"fault", "server_error"} -> code
    [] exception = "out_of_range"               -> INVALID_PARAMETERS
    [] OTHER                                    -> 0
=============================================================================
