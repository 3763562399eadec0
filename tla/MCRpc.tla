------------------------------- MODULE MCRpc -------------------------------
(***************************************************************************)
(* Small instances of Rpc: one client that speaks JSON, one that speaks    *)
(* XML, and an application that counts.  "add" returns the count, "fail"   *)
(* counts and throws a ServerErrorFault, "empty" returns an empty binary,  *)
(* which XML cannot carry, and "echo" takes one.                           *)
(***************************************************************************)
EXTENDS Rpc, JsonFormat, XmlFormat

CONSTANTS c1, c2

MCDates == {200}
MCDoubles == {}
MCStrtod == << >>
MCClients == {c1, c2}
MCFormatOf == c1 :> "json" @@ c2 :> "xml"
MCUsesId(f) == f = "json"

Add == <<97>>
Fail == <<98>>
Empty == <<99>>
Echo == <<100>>
MCCalls ==
  {[method |-> m, params |-> << >>] : m \in {Add, Fail, Empty}}
  \cup {[method |-> Echo, params |-> <<Binary(<< >>)>>]}

MCApps == 0..MaxExchanges
MCNext(a) == (a + 1) % (MaxExchanges + 1)
Success(v) == [isFault |-> FALSE, code |-> 0, value |-> v]
MCInvoke(a, call) ==
  CASE call.method = Add   -> [response |-> Success(Integer32(a)), app |-> MCNext(a)]
    [] call.method = Fail  -> [response |-> [isFault |-> TRUE, code |-> -32050,
                                             value |-> Nil],
                               app |-> MCNext(a)]
    [] call.method = Empty -> [response |-> Success(Binary(<< >>)), app |-> a]
    [] OTHER               -> [response |-> Success(call.params[1]), app |-> a]
MCResponses ==
  UNION {{MCInvoke(a, call).response : call \in MCCalls} : a \in MCApps}
  \cup {Success(String(<< >>))}

WithId(call, id) == [method |-> call.method, params |-> call.params, id |-> id]
MCWriteRequest(f, call, id) ==
  IF f = "json" THEN WriteJsonRequest(WithId(call, id))
                ELSE WriteXmlRequest(WithId(call, id))
MCReadRequest(f, document) ==
  LET r == IF f = "json" THEN ReadJsonRequest(document)
                         ELSE ReadXmlRequest(document)
  IN  IF r = Invalid THEN Invalid
      ELSE [call |-> [method |-> r.method, params |-> r.params], id |-> r.id]

Response(r, id) == [isFault |-> r.isFault, code |-> r.code, value |-> r.value,
                    string |-> << >>, id |-> id]
MCWriteResponse(f, r, id) ==
  IF f = "json" THEN WriteJsonResponse(Response(r, id))
                ELSE WriteXmlResponse(Response(r, id))
MCReadResponse(f, document) ==
  IF f = "json" THEN ReadJsonResponse(document) ELSE ReadXmlResponse(document)
=============================================================================
