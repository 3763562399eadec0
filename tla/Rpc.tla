-------------------------------- MODULE Rpc --------------------------------
(***************************************************************************)
(* Clients (src/client.cpp) that call methods of one server over HTTP.  A  *)
(* client is synchronous; its transfer, by libcurl, is an exchange: a      *)
(* request document, and a status and a document in reply.  A transfer can *)
(* fail at any time while its request is still on its way to the server,   *)
(* and libcurl sends a request again when a kept connection dies.  The     *)
(* formats and the methods are parameters (see JsonFormat, XmlFormat and   *)
(* Dispatcher).                                                            *)
(***************************************************************************)
EXTENDS Faults, Values

CONSTANTS
  Clients,
  FormatOf,              \* the format each client uses
  Calls,                 \* the calls clients make: a method name, parameters
  Apps, InitialApp,      \* the states of the server's application
  Responses,             \* what Dispatcher::Invoke returns
  MaxId,                 \* 2^31 - 1 in the code
  MaxExchanges,          \* bound on the number of transfers
  UsesId(_),             \* FormatHandler::UsesId
  WriteRequest(_, _, _), \* a call with an id, in a format, as a document
  ReadRequest(_, _),     \* Reader::GetRequest, or Invalid when it throws
  WriteResponse(_, _, _),
  ReadResponse(_, _),
  Invoke(_, _)           \* Dispatcher::Invoke of a request

VARIABLES
  myId,      \* of each client: the id of its next request
  made,      \* the number of transfers so far
  exchange,  \* each of them
  current,   \* the transfer each client waits for, or None
  outcome,   \* of each client's last call
  app,       \* the state of the server's application
  effects,   \* history: the exchanges whose call was invoked, in order
  abandoned  \* history: those no client waited for to the end

vars == <<myId, made, exchange, current, outcome, app, effects, abandoned>>

Ids == -(MaxId + 1)..MaxId
Exchanges == 1..MaxExchanges
None == 0

NoId == Boolean(FALSE)
IdIn(f, id) == IF UsesId(f) THEN Integer32(id) ELSE NoId

\* The Response of Server::HandleRequest when the reader throws.
Refusal == [isFault |-> TRUE, code |-> INVALID_REQUEST, value |-> Nil]

\* What is carried from one end to the other, whatever the id.
CarriedRequest(f, call) == ReadRequest(f, WriteRequest(f, call, Integer32(0)))
CarriedResponse(f, r) == ReadResponse(f, WriteResponse(f, r, IdIn(f, 0)))

ASSUME RpcAssumption ==
  /\ MaxId \in Nat
  /\ MaxExchanges \in Nat
  /\ InitialApp \in Apps

\* An id arrives as it was sent and changes nothing else.
ASSUME RequestAssumption ==
  \A c \in Clients, call \in Calls, id \in Ids :
    LET sent == CarriedRequest(FormatOf[c], call)
        read == ReadRequest(FormatOf[c],
                            WriteRequest(FormatOf[c], call, Integer32(id)))
    IN  IF sent = Invalid
        THEN read = Invalid
        ELSE /\ read # Invalid
             /\ read.call = sent.call
             /\ read.id = IdIn(FormatOf[c], id)

ASSUME ResponseAssumption ==
  \A c \in Clients, r \in Responses, id \in Ids :
    LET sent == CarriedResponse(FormatOf[c], r)
        read == ReadResponse(FormatOf[c],
                  WriteResponse(FormatOf[c], r, IdIn(FormatOf[c], id)))
    IN  IF sent = Invalid
        THEN read = Invalid
        ELSE /\ read # Invalid
             /\ read.isFault = sent.isFault
             /\ read.code = sent.code
             /\ read.value = sent.value
             /\ UsesId(FormatOf[c]) => read.id = Integer32(id)

\* A refusal has a null id; the client of a format without ids reads its code.
ASSUME RefusalAssumption ==
  \A c \in Clients :
    LET read == ReadResponse(FormatOf[c], WriteResponse(FormatOf[c], Refusal, Nil))
    IN  /\ read # Invalid
        /\ read.isFault
        /\ read.code = INVALID_REQUEST
        /\ UsesId(FormatOf[c]) => read.id = Nil

ASSUME InvokeAssumption ==
  \A c \in Clients, call \in Calls, a \in Apps :
    LET sent == CarriedRequest(FormatOf[c], call)
    IN  sent # Invalid => /\ Invoke(a, sent.call).response \in Responses
                          /\ Invoke(a, sent.call).app \in Apps

-----------------------------------------------------------------------------
(***************************************************************************)
(* Outcomes of a call.                                                     *)
(***************************************************************************)

Nothing == [kind |-> "nothing"]
Returned(v) == [kind |-> "value", value |-> v]
Threw(fault) == [kind |-> "fault", fault |-> fault]
\* std::runtime_error, which carries nothing but its text.
RuntimeError == [kind |-> "runtime_error"]

InvalidRequestFault == Threw(ThrowIfFault(INVALID_REQUEST))

Result(r) == IF r.isFault THEN Threw(ThrowIfFault(r.code)) ELSE Returned(r.value)

\* Variant: myId, already incremented, in the place of id.
ReceiveNextId(f, status, document, id) ==
  LET r == ReadResponse(f, document) IN
    IF status # 200 THEN RuntimeError
    ELSE IF r = Invalid \/ (UsesId(f) /\ r.id # Integer32(id + 1))
    THEN InvalidRequestFault
    ELSE Result(r)

\* Client::CallInternal, from the end of the transfer on.
Receive(f, status, document, id) ==
  LET r == ReadResponse(f, document) IN
    IF status # 200 THEN RuntimeError
    ELSE IF r = Invalid \/ (UsesId(f) /\ r.id # Integer32(id))
    THEN InvalidRequestFault
    ELSE Result(r)

\* Variant: the number is not bounded.
NextIdUnbounded(id) == id + 1

\* myId++, an int32_t that wraps around when it overflows.
NextId(id) == IF id = MaxId THEN -(MaxId + 1) ELSE id + 1

-----------------------------------------------------------------------------
Unused == [stage |-> "unused"]
Sent(c, call, id) ==
  [stage |-> "sent", client |-> c, call |-> call, id |-> id, status |-> 0,
   document |-> WriteRequest(FormatOf[c], call, Integer32(id))]

Init ==
  /\ myId = [c \in Clients |-> 0]
  /\ made = 0
  /\ exchange = [e \in Exchanges |-> Unused]
  /\ current = [c \in Clients |-> None]
  /\ outcome = [c \in Clients |-> Nothing]
  /\ app = InitialApp
  /\ effects = << >>
  /\ abandoned = {}

Transfer(c, call, id) ==
  /\ made < MaxExchanges
  /\ made' = made + 1
  /\ exchange' = [exchange EXCEPT ![made + 1] = Sent(c, call, id)]
  /\ current' = [current EXCEPT ![c] = made + 1]

\* Variant: a call does not wait for the one before it.
CallAtOnce(c, call) ==
  /\ Transfer(c, call, myId[c])
  /\ myId' = [myId EXCEPT ![c] = NextId(@)]
  /\ UNCHANGED <<outcome, app, effects, abandoned>>

\* Client::CallInternal, up to the transfer.
Call(c, call) ==
  /\ current[c] = None
  /\ Transfer(c, call, myId[c])
  /\ myId' = [myId EXCEPT ![c] = NextId(@)]
  /\ UNCHANGED <<outcome, app, effects, abandoned>>

\* libcurl repeats the request on a new connection.
Resend(c) ==
  /\ current[c] # None
  /\ Transfer(c, exchange[current[c]].call, exchange[current[c]].id)
  /\ abandoned' = abandoned \cup {current[c]}
  /\ UNCHANGED <<myId, outcome, app, effects>>

Answered(x, status, document) ==
  [stage |-> "answered", client |-> x.client, call |-> x.call, id |-> x.id,
   status |-> status, document |-> document]

Reply(e, status, document) ==
  /\ exchange' = [exchange EXCEPT ![e] = Answered(@, status, document)]
  /\ UNCHANGED <<myId, made, current, outcome, abandoned>>

FormatAt(e) == FormatOf[exchange[e].client]
RequestAt(e) == ReadRequest(FormatAt(e), exchange[e].document)

\* Server::HandleRequest of an exchange, whether or not its client still waits.
ServeRefused(e) ==
  /\ exchange[e].stage = "sent"
  /\ RequestAt(e) = Invalid
  /\ Reply(e, 200, WriteResponse(FormatAt(e), Refusal, Nil))
  /\ UNCHANGED <<app, effects>>

Run(e) ==
  /\ app' = Invoke(app, RequestAt(e).call).app
  /\ effects' = Append(effects, e)

Serve(e) ==
  /\ exchange[e].stage = "sent"
  /\ RequestAt(e) # Invalid
  /\ Reply(e, 200, WriteResponse(FormatAt(e),
                                 Invoke(app, RequestAt(e).call).response,
                                 RequestAt(e).id))
  /\ Run(e)

\* The answers without a document: 400 and 404 without the method being run, a
\* 500 before or after.
NoDocument == << >>
ServeFails(e) ==
  /\ exchange[e].stage = "sent"
  /\ \/ /\ \E status \in {400, 404, 500} : Reply(e, status, NoDocument)
        /\ UNCHANGED <<app, effects>>
     \/ /\ RequestAt(e) # Invalid
        /\ Reply(e, 500, NoDocument)
        /\ Run(e)

\* The transfer is over: the rest of CallInternal.
Return(c) ==
  /\ current[c] # None
  /\ exchange[current[c]].stage = "answered"
  /\ LET x == exchange[current[c]]
     IN  outcome' = [outcome EXCEPT ![c] =
                       Receive(FormatOf[c], x.status, x.document, x.id)]
  /\ current' = [current EXCEPT ![c] = None]
  /\ UNCHANGED <<myId, made, exchange, app, effects, abandoned>>

\* curl_easy_perform fails.
Lose(c) ==
  /\ current[c] # None
  /\ outcome' = [outcome EXCEPT ![c] = RuntimeError]
  /\ current' = [current EXCEPT ![c] = None]
  /\ abandoned' = abandoned \cup {current[c]}
  /\ UNCHANGED <<myId, made, exchange, app, effects>>

Next ==
  \/ \E c \in Clients : \/ \E call \in Calls : Call(c, call)
                        \/ Resend(c) \/ Return(c) \/ Lose(c)
  \/ \E e \in Exchanges : ServeRefused(e) \/ Serve(e) \/ ServeFails(e)

Spec == Init /\ [][Next]_vars

-----------------------------------------------------------------------------
(***************************************************************************)
(* Properties.                                                             *)
(***************************************************************************)

ExchangeOK(x) ==
  \/ x = Unused
  \/ /\ DOMAIN x = {"stage", "client", "call", "id", "status", "document"}
     /\ x.stage \in {"sent", "answered"}
     /\ x.client \in Clients
     /\ x.call \in Calls
     /\ x.id \in Ids
     /\ x.status \in {0, 200, 400, 404, 500}

\* The types of the variables; in particular myId stays an int32_t.
TypeOK ==
  /\ myId \in [Clients -> Ids]
  /\ made \in 0..MaxExchanges
  /\ DOMAIN exchange = Exchanges
  /\ \A e \in Exchanges : /\ ExchangeOK(exchange[e])
                          /\ exchange[e] = Unused <=> e > made
  /\ current \in [Clients -> 0..made]
  /\ DOMAIN outcome = Clients
  /\ app \in Apps
  /\ effects \in Seq(Exchanges)
  /\ abandoned \in SUBSET Exchanges

\* The calls of one client take effect in the order they were made, unless the
\* earlier one was abandoned: its transfer failed, with a runtime_error, or was
\* repeated.  Such a call can still take effect after later ones
\* (client.cpp:95-105).
LateIfAbandoned ==
  \A i, j \in DOMAIN effects :
    /\ i < j
    /\ exchange[effects[i]].client = exchange[effects[j]].client
    /\ effects[j] < effects[i]
    => effects[j] \in abandoned

\* The outcome of a call, and its effect, when client and application are in
\* one process: what the formats carry of the parameters, invoked, and what
\* they carry of the response.  A format that cannot carry one of the two makes
\* it an InvalidRequestFault.
LocalOutcome(c, call, a) ==
  LET sent == CarriedRequest(FormatOf[c], call)
      got == CarriedResponse(FormatOf[c], Invoke(a, sent.call).response)
  IN  IF sent = Invalid \/ got = Invalid
      THEN InvalidRequestFault
      ELSE Result(got)

LocalEffect(c, call, a) ==
  LET sent == CarriedRequest(FormatOf[c], call)
  IN  IF sent = Invalid THEN a ELSE Invoke(a, sent.call).app

NoAnswer == [kind |-> "no_answer"]

AttemptOf(x) ==
  IF x = Unused THEN [stage |-> "unused"]
  ELSE [stage |-> x.stage, client |-> x.client, call |-> x.call,
        answer |-> IF x.stage = "sent" THEN NoAnswer
                   ELSE Receive(FormatOf[x.client], x.status, x.document, x.id)]

Remote == INSTANCE RemoteCalls WITH
  attempt <- [e \in Exchanges |-> AttemptOf(exchange[e])],
  Failure <- RuntimeError,
  Outcome <- LocalOutcome,
  Effect <- LocalEffect

\* A remote call has the outcome of a local one, or is a runtime_error: neither
\* the id check, its overflow and the null id of a refusal, nor the answer to an
\* abandoned transfer, nor another client gets in the way (client.cpp:76-116,
\* server.cpp:105-127).
ImplementsRemoteCalls == Remote!ASpec
=============================================================================
