----------------------------- MODULE RpcProofs -----------------------------
(***************************************************************************)
(* Proofs about Rpc, for any number of clients, calls and transfers, any   *)
(* formats and methods that satisfy the assumptions of Rpc.  That a remote *)
(* call is a local one takes an invariant: a request on its way is the one *)
(* its client wrote, with its id.  That calls are not reordered takes      *)
(* another: a request nobody waits for has been abandoned.                 *)
(***************************************************************************)
EXTENDS Rpc, TLAPS

Record(x) ==
  x = [stage |-> x.stage, client |-> x.client, call |-> x.call, id |-> x.id,
       status |-> x.status, document |-> x.document]

IsExchange(x) ==
  /\ Record(x)
  /\ x.stage \in {"sent", "answered"}
  /\ x.client \in Clients
  /\ x.call \in Calls
  /\ x.id \in Ids
  /\ x.status \in {0, 200, 400, 404, 500}
  /\ x.stage = "sent" => x = Sent(x.client, x.call, x.id)

\* The exchanges.
ExchangeInv ==
  /\ \A e \in 1..made : IsExchange(exchange[e])
  /\ \A e \in Exchanges \ 1..made : exchange[e] = Unused

\* A client waits for its last exchange.
CurrentInv ==
  \A c \in Clients : current[c] # None =>
    /\ exchange[current[c]].client = c
    /\ \A e \in 1..made : exchange[e].client = c => e <= current[c]

\* Requests on their way that are not waited for have been abandoned.
WaitingInv ==
  \A e \in 1..made :
    exchange[e].stage = "sent" /\ e \notin abandoned
      => current[exchange[e].client] = e

EffectsInv == \A i \in DOMAIN effects : effects[i] \in 1..made

Types ==
  /\ myId \in [Clients -> Ids]
  /\ made \in 0..MaxExchanges
  /\ DOMAIN exchange = Exchanges
  /\ current \in [Clients -> 0..made]
  /\ DOMAIN outcome = Clients
  /\ app \in Apps
  /\ effects \in Seq(Exchanges)
  /\ abandoned \in SUBSET Exchanges

Inv ==
  Types /\ ExchangeInv /\ CurrentInv /\ WaitingInv /\ EffectsInv
  /\ LateIfAbandoned

-----------------------------------------------------------------------------
\* What a client receives.

\* An invoked call has the outcome and the effect of a local one.
LEMMA ServedOutcome ==
  ASSUME NEW c \in Clients, NEW call \in Calls, NEW id \in Ids, NEW a \in Apps,
         NEW r,
         r = ReadRequest(FormatOf[c], WriteRequest(FormatOf[c], call, Integer32(id))),
         r # Invalid
  PROVE  /\ Receive(FormatOf[c], 200,
                    WriteResponse(FormatOf[c], Invoke(a, r.call).response, r.id), id)
              = LocalOutcome(c, call, a)
         /\ Invoke(a, r.call).app = LocalEffect(c, call, a)
         /\ Invoke(a, r.call).app \in Apps
<1> DEFINE f == FormatOf[c]
           sent == CarriedRequest(f, call)
           response == Invoke(a, sent.call).response
           got == CarriedResponse(f, response)
           read == ReadResponse(f, WriteResponse(f, response, IdIn(f, id)))
<1>1. sent # Invalid /\ r.call = sent.call /\ r.id = IdIn(f, id)
  BY RequestAssumption
<1>2. response \in Responses /\ Invoke(a, sent.call).app \in Apps
  BY <1>1, InvokeAssumption
<1>3. IF got = Invalid
      THEN read = Invalid
      ELSE /\ read # Invalid
           /\ read.isFault = got.isFault
           /\ read.code = got.code
           /\ read.value = got.value
           /\ UsesId(f) => read.id = Integer32(id)
  BY <1>2, ResponseAssumption
<1> HIDE DEF sent, response, got, read
<1>4. Receive(f, 200, WriteResponse(f, response, IdIn(f, id)), id)
        = IF got = Invalid THEN InvalidRequestFault ELSE Result(got)
  BY <1>3 DEF Receive, Result, read
<1>5. QED
  BY <1>1, <1>2, <1>4 DEF LocalOutcome, LocalEffect, sent, response, got

\* A request the server cannot read gives the outcome of a local call too,
\* whether its null id is checked or not.
LEMMA RefusedOutcome ==
  ASSUME NEW c \in Clients, NEW call \in Calls, NEW id \in Ids, NEW a \in Apps,
         ReadRequest(FormatOf[c], WriteRequest(FormatOf[c], call, Integer32(id)))
           = Invalid
  PROVE  /\ Receive(FormatOf[c], 200, WriteResponse(FormatOf[c], Refusal, Nil), id)
              = LocalOutcome(c, call, a)
         /\ LocalEffect(c, call, a) = a
<1>1. CarriedRequest(FormatOf[c], call) = Invalid
  BY RequestAssumption
<1>2. Nil # Integer32(id)
  BY DEF Nil, Integer32
<1>3. QED
  BY <1>1, <1>2, RefusalAssumption
     DEF Receive, Result, InvalidRequestFault, LocalOutcome, LocalEffect
-----------------------------------------------------------------------------
\* The invariant.

LEMMA SentIsExchange ==
  ASSUME NEW c \in Clients, NEW call \in Calls, NEW id \in Ids
  PROVE  /\ IsExchange(Sent(c, call, id))
         /\ Sent(c, call, id).client = c
         /\ Sent(c, call, id) # Unused
BY DEF IsExchange, Record, Sent, Unused

LEMMA InitInv == Init => Inv
<1> SUFFICES ASSUME Init PROVE Inv
  OBVIOUS
<1>1. 0 \in Ids
  BY RpcAssumption DEF Ids
<1>2. 1..made = {}
  BY DEF Init
<1>3. Types
  BY <1>1, RpcAssumption DEF Types, Init, None
<1>4. QED
  BY <1>2, <1>3 DEF Inv, ExchangeInv, CurrentInv, WaitingInv, EffectsInv,
                    LateIfAbandoned, Init, Exchanges

LEMMA NextIdType == \A id \in Ids : NextId(id) \in Ids
BY RpcAssumption DEF NextId, Ids

\* A new transfer of a client whose last one, if it is not over, is abandoned.
LEMMA TransferInv ==
  ASSUME Inv, NEW c \in Clients, NEW call \in Calls, NEW id \in Ids,
         Transfer(c, call, id), UNCHANGED <<outcome, app, effects>>,
         myId' \in [Clients -> Ids],
         abandoned \subseteq abandoned', abandoned' \subseteq Exchanges,
         current[c] # None => current[c] \in abandoned'
  PROVE  Inv'
<1> DEFINE n == made + 1
<1> USE DEF Inv, Exchanges
<1>1. /\ made \in Nat /\ MaxExchanges \in Nat /\ n \in Exchanges
      /\ made' = n /\ 1..made' = 1..made \cup {n} /\ n \notin 1..made
  BY RpcAssumption DEF Transfer, Types
<1>2. /\ DOMAIN exchange' = Exchanges
      /\ exchange'[n] = Sent(c, call, id)
      /\ \A e \in Exchanges \ {n} : exchange'[e] = exchange[e]
  BY <1>1 DEF Transfer, Types
<1>3. /\ current' \in [Clients -> 0..made']
      /\ current'[c] = n
      /\ \A d \in Clients \ {c} : current'[d] = current[d]
  BY <1>1 DEF Transfer, Types
<1>4. Types'
  BY <1>1, <1>2, <1>3 DEF Types
<1>5. ExchangeInv'
  BY <1>1, <1>2, SentIsExchange DEF ExchangeInv
<1>6. CurrentInv'
  BY <1>1, <1>2, <1>3, SentIsExchange DEF CurrentInv, Types, None
<1>7. WaitingInv'
  <2> SUFFICES ASSUME NEW e \in 1..made', exchange'[e].stage = "sent",
                      e \notin abandoned'
               PROVE  current'[exchange'[e].client] = e
    BY DEF WaitingInv
  <2>1. CASE e = n
    BY <2>1, <1>2, <1>3, SentIsExchange
  <2>2. CASE e # n
    <3>1. /\ e \in 1..made /\ exchange'[e] = exchange[e]
          /\ exchange[e].client \in Clients
      BY <2>2, <1>1, <1>2 DEF ExchangeInv, IsExchange
    <3>2. current[exchange[e].client] = e /\ e # None
      BY <3>1 DEF WaitingInv, None
    <3>3. exchange[e].client # c
      BY <3>2
    <3>4. QED
      BY <3>1, <3>2, <3>3, <1>3
  <2>3. QED
    BY <2>1, <2>2
<1>8. EffectsInv'
  BY <1>1 DEF EffectsInv
<1>9. LateIfAbandoned'
  BY <1>1, <1>2 DEF LateIfAbandoned, EffectsInv
<1>10. QED
  BY <1>4, <1>5, <1>6, <1>7, <1>8, <1>9

\* An answer to an exchange, with the call invoked or not.
LEMMA ReplyInv ==
  ASSUME Inv, NEW e \in Exchanges, exchange[e].stage = "sent",
         NEW status \in {200, 400, 404, 500}, NEW document,
         Reply(e, status, document), app' \in Apps,
         effects' = effects \/ effects' = Append(effects, e)
  PROVE  Inv'
<1> USE DEF Inv, Exchanges
<1>1. e \in 1..made
  BY DEF ExchangeInv, Unused
<1>2. IsExchange(exchange[e])
  BY <1>1 DEF ExchangeInv
<1>3. /\ DOMAIN exchange' = Exchanges
      /\ exchange'[e] = Answered(exchange[e], status, document)
      /\ \A d \in Exchanges \ {e} : exchange'[d] = exchange[d]
  BY DEF Reply, Types
<1>4. /\ IsExchange(exchange'[e])
      /\ exchange'[e].stage = "answered"
      /\ exchange'[e].client = exchange[e].client
  BY <1>2, <1>3 DEF IsExchange, Record, Answered
<1>5. UNCHANGED <<myId, made, current, outcome, abandoned>>
  BY DEF Reply
<1>6. Types'
  <2>1. effects' \in Seq(Exchanges)
    <3>1. effects \in Seq(Exchanges)
      BY DEF Types
    <3>2. Append(effects, e) \in Seq(Exchanges)
      BY <3>1
    <3>3. QED
      BY <3>1, <3>2
  <2>2. QED
    BY <2>1, <1>3, <1>5 DEF Types
<1>7. \A d \in 1..made : exchange'[d].client = exchange[d].client
  BY <1>3, <1>4, RpcAssumption DEF Types
<1>8. ExchangeInv' /\ CurrentInv' /\ WaitingInv'
  <2>1. made \in Nat /\ 1..made \subseteq Exchanges
    BY RpcAssumption DEF Types
  <2>2. ExchangeInv'
    BY <1>1, <1>3, <1>4, <1>5, <2>1 DEF ExchangeInv
  <2>3. CurrentInv'
    <3>1. \A c \in Clients : current[c] # None => current[c] \in 1..made
      BY <2>1 DEF Types, None
    <3>2. QED
      BY <3>1, <1>5, <1>7 DEF CurrentInv
  <2>4. WaitingInv'
    BY <1>3, <1>4, <1>5, <2>1 DEF WaitingInv
  <2>5. QED
    BY <2>2, <2>3, <2>4
<1>9. EffectsInv' /\ LateIfAbandoned'
  <2>1. CASE effects' = effects
    BY <2>1, <1>5, <1>7 DEF EffectsInv, LateIfAbandoned
  <2>2. CASE effects' = Append(effects, e)
    <3>1. /\ effects \in Seq(Exchanges) /\ Len(effects) \in Nat
          /\ DOMAIN effects = 1..Len(effects)
          /\ DOMAIN effects' = 1..(Len(effects) + 1)
          /\ effects'[Len(effects) + 1] = e
          /\ \A i \in DOMAIN effects : effects'[i] = effects[i]
      BY <2>2 DEF Types
    <3>2. EffectsInv'
      BY <3>1, <1>1, <1>5 DEF EffectsInv
    <3>3. ASSUME NEW i \in DOMAIN effects', NEW j \in DOMAIN effects', i < j,
                 exchange'[effects'[i]].client = exchange'[effects'[j]].client,
                 effects'[j] < effects'[i]
          PROVE  effects'[j] \in abandoned'
      <4>1. i \in DOMAIN effects
        BY <3>1, <3>3
      <4>2. CASE j \in DOMAIN effects
        BY <4>1, <4>2, <3>1, <3>3, <1>5, <1>7 DEF EffectsInv, LateIfAbandoned
      <4>3. CASE j = Len(effects) + 1
        \* The call of e is invoked after a later one of its client.
        <5>1. /\ effects[i] \in 1..made /\ e < effects[i]
              /\ exchange[effects[i]].client = exchange[e].client
          BY <4>1, <4>3, <3>1, <3>3, <1>1, <1>7 DEF EffectsInv
        <5>2. e \in abandoned
          <6> SUFFICES ASSUME e \notin abandoned PROVE FALSE
            OBVIOUS
          <6>1. current[exchange[e].client] = e /\ exchange[e].client \in Clients
            BY <1>1, <1>2 DEF WaitingInv, IsExchange
          <6>2. effects[i] <= e
            BY <5>1, <6>1, <1>1 DEF CurrentInv, None
          <6>3. QED
            BY <5>1, <6>2, <1>1, RpcAssumption DEF Types
        <5>3. QED
          BY <4>3, <5>2, <3>1, <1>5
      <4>4. QED
        BY <4>2, <4>3, <3>1, <3>3
    <3>4. QED
      BY <3>2, <3>3 DEF LateIfAbandoned
  <2>3. QED
    BY <2>1, <2>2
<1>10. QED
  BY <1>6, <1>8, <1>9

\* The client stops waiting: the exchange is answered, or is abandoned.
LEMMA DoneInv ==
  ASSUME Inv, NEW c \in Clients, NEW o, current[c] # None,
         outcome' = [outcome EXCEPT ![c] = o],
         current' = [current EXCEPT ![c] = None],
         abandoned \subseteq abandoned', abandoned' \subseteq Exchanges,
         exchange[current[c]].stage = "answered" \/ current[c] \in abandoned',
         UNCHANGED <<myId, made, exchange, app, effects>>
  PROVE  Inv'
<1> USE DEF Inv
<1>1. Types'
  BY DEF Types, None
<1>2. WaitingInv'
  BY DEF WaitingInv, ExchangeInv, IsExchange, Types
<1>3. QED
  BY <1>1, <1>2 DEF ExchangeInv, CurrentInv, EffectsInv, LateIfAbandoned, Types,
                    None
\* What a request on its way carries.
LEMMA SentRequest ==
  ASSUME Inv, NEW e \in Exchanges, exchange[e].stage = "sent"
  PROVE  /\ e \in 1..made
         /\ IsExchange(exchange[e])
         /\ exchange[e].document =
              WriteRequest(FormatAt(e), exchange[e].call, Integer32(exchange[e].id))
         /\ app \in Apps
<1>1. e \in 1..made /\ IsExchange(exchange[e]) /\ app \in Apps
  BY DEF Inv, ExchangeInv, Unused, Types
<1>2. exchange[e].document =
        Sent(exchange[e].client, exchange[e].call, exchange[e].id).document
  BY <1>1 DEF IsExchange
<1>3. QED
  BY <1>1, <1>2 DEF Sent, FormatAt

\* The exchange a client waits for.
LEMMA CurrentExchange ==
  ASSUME Inv, NEW c \in Clients, current[c] # None
  PROVE  /\ current[c] \in 1..made /\ current[c] \in Exchanges
         /\ IsExchange(exchange[current[c]])
         /\ exchange[current[c]].client = c
BY RpcAssumption DEF Inv, Types, ExchangeInv, CurrentInv, None, Exchanges

LEMMA NextInv == Inv /\ [Next]_vars => Inv'
<1> SUFFICES ASSUME Inv, [Next]_vars PROVE Inv'
  OBVIOUS
<1>1. ASSUME NEW c \in Clients, NEW call \in Calls, Call(c, call) PROVE Inv'
  <2>1. /\ myId \in [Clients -> Ids]
        /\ myId[c] \in Ids
        /\ abandoned \subseteq Exchanges
    BY DEF Inv, Types
  <2>2. myId' \in [Clients -> Ids]
    BY <1>1, <2>1, NextIdType DEF Call
  <2>3. QED
    BY <1>1, <2>1, <2>2, TransferInv DEF Call
<1>2. ASSUME NEW c \in Clients, Resend(c) PROVE Inv'
  <2> DEFINE x == exchange[current[c]]
  <2>1. /\ x.call \in Calls /\ x.id \in Ids
        /\ current[c] \in Exchanges
    BY <1>2, CurrentExchange DEF Resend, IsExchange
  <2>2. /\ myId' \in [Clients -> Ids]
        /\ abandoned' = abandoned \cup {current[c]}
        /\ abandoned' \subseteq Exchanges
    BY <1>2, <2>1 DEF Resend, Inv, Types
  <2>3. QED
    BY <1>2, <2>1, <2>2, TransferInv DEF Resend
<1>3. ASSUME NEW c \in Clients, Return(c) PROVE Inv'
  <2> DEFINE x == exchange[current[c]]
             o == Receive(FormatOf[c], x.status, x.document, x.id)
  <2>1. outcome' = [outcome EXCEPT ![c] = o]
    BY <1>3 DEF Return
  <2>2. /\ current[c] # None /\ current' = [current EXCEPT ![c] = None]
        /\ exchange[current[c]].stage = "answered"
        /\ abandoned' = abandoned /\ abandoned \subseteq Exchanges
        /\ UNCHANGED <<myId, made, exchange, app, effects>>
    BY <1>3 DEF Return, Inv, Types
  <2> HIDE DEF o
  <2>3. QED
    BY <2>1, <2>2, DoneInv
<1>4. ASSUME NEW c \in Clients, Lose(c) PROVE Inv'
  <2>1. /\ current[c] \in Exchanges
        /\ abandoned' \subseteq Exchanges
    BY <1>4, CurrentExchange DEF Lose, Inv, Types
  <2>2. QED
    BY <1>4, <2>1, DoneInv DEF Lose
<1>5. ASSUME NEW e \in Exchanges, ServeRefused(e) PROVE Inv'
  BY <1>5, SentRequest, ReplyInv DEF ServeRefused
<1>6. ASSUME NEW e \in Exchanges, Run(e), RequestAt(e) # Invalid,
             exchange[e].stage = "sent"
      PROVE  app' \in Apps
  <2>1. /\ exchange[e].client \in Clients /\ exchange[e].call \in Calls
        /\ exchange[e].id \in Ids /\ app \in Apps
    BY <1>6, SentRequest DEF IsExchange
  <2>2. RequestAt(e) =
          ReadRequest(FormatAt(e), WriteRequest(FormatAt(e), exchange[e].call,
                                                Integer32(exchange[e].id)))
    BY <1>6, SentRequest DEF RequestAt
  <2>3. QED
    BY <1>6, <2>1, <2>2, ServedOutcome DEF Run, FormatAt
<1>7. ASSUME NEW e \in Exchanges, Serve(e) PROVE Inv'
  <2>1. app' \in Apps
    BY <1>6, <1>7 DEF Serve
  <2>2. effects' = Append(effects, e)
    BY <1>7 DEF Serve, Run
  <2>3. QED
    BY <1>7, <2>1, <2>2, ReplyInv DEF Serve
<1>8. ASSUME NEW e \in Exchanges, ServeFails(e) PROVE Inv'
  <2>1. CASE (\E status \in {400, 404, 500} : Reply(e, status, NoDocument))
             /\ UNCHANGED <<app, effects>>
    <3>1. app' \in Apps
      BY <2>1 DEF Inv, Types
    <3>2. QED
      BY <1>8, <2>1, <3>1, ReplyInv DEF ServeFails
  <2>2. CASE RequestAt(e) # Invalid /\ Reply(e, 500, NoDocument) /\ Run(e)
    <3>1. app' \in Apps
      BY <1>6, <1>8, <2>2 DEF ServeFails
    <3>2. effects' = Append(effects, e)
      BY <2>2 DEF Run
    <3>3. QED
      BY <1>8, <2>2, <3>1, <3>2, ReplyInv DEF ServeFails
  <2>3. QED
    BY <1>8, <2>1, <2>2 DEF ServeFails
<1>9. CASE UNCHANGED vars
  BY <1>9 DEF vars, Inv, Types, ExchangeInv, CurrentInv, WaitingInv, EffectsInv,
              LateIfAbandoned
<1>10. QED
  BY <1>1, <1>2, <1>3, <1>4, <1>5, <1>7, <1>8, <1>9 DEF Next

LEMMA SpecInv == Spec => []Inv
BY InitInv, NextInv, PTL DEF Spec

LEMMA InvTypeOK == Inv => TypeOK
<1> SUFFICES ASSUME Inv PROVE TypeOK
  OBVIOUS
<1>1. made \in 0..MaxExchanges /\ Exchanges = 1..MaxExchanges /\ MaxExchanges \in Nat
  BY RpcAssumption DEF Inv, Types, Exchanges
<1>2. ASSUME NEW e \in Exchanges
      PROVE  ExchangeOK(exchange[e]) /\ (exchange[e] = Unused <=> e > made)
  <2>1. CASE e \in 1..made
    <3>1. IsExchange(exchange[e])
      BY <2>1 DEF Inv, ExchangeInv
    <3>2. DOMAIN exchange[e] =
            {"stage", "client", "call", "id", "status", "document"}
      BY <3>1 DEF IsExchange, Record
    <3>3. exchange[e] # Unused /\ ~(e > made)
      BY <2>1, <3>1, <1>1 DEF IsExchange, Unused
    <3>4. QED
      BY <3>1, <3>2, <3>3 DEF IsExchange, ExchangeOK
  <2>2. CASE e \notin 1..made
    BY <2>2, <1>1, <1>2 DEF Inv, ExchangeInv, ExchangeOK
  <2>3. QED
    BY <2>1, <2>2
<1>3. QED
  BY <1>2 DEF Inv, Types, TypeOK

-----------------------------------------------------------------------------
\* A step of Rpc is a step of RemoteCalls.

LEMMA RemoteInit == Init => Remote!AInit
BY DEF Init, Remote!AInit, Remote!Unmade, AttemptOf, Exchanges, None

\* A transfer is an attempt.
LEMMA RemoteAttempt ==
  ASSUME Inv, NEW c \in Clients, NEW call \in Calls, NEW id \in Ids,
         Transfer(c, call, id), UNCHANGED <<outcome, app>>
  PROVE  Remote!Attempt(c, call)
<1>1. /\ made + 1 \in Exchanges
      /\ \A e \in Exchanges :
           exchange'[e] = IF e = made + 1 THEN Sent(c, call, id) ELSE exchange[e]
  BY RpcAssumption DEF Transfer, Inv, Types, Exchanges
<1>2. AttemptOf(Sent(c, call, id)) = Remote!Made(c, call)
  BY DEF AttemptOf, Sent, Unused, Remote!Made
<1>3. [e \in Exchanges |-> AttemptOf(exchange[e])]' =
        [[e \in Exchanges |-> AttemptOf(exchange[e])]
           EXCEPT ![made + 1] = Remote!Made(c, call)]
  BY <1>1, <1>2
<1>4. QED
  BY <1>3 DEF Transfer, Remote!Attempt

\* What the answer to an exchange is to its attempt.
LEMMA RemoteAnswer ==
  ASSUME Inv, NEW e \in Exchanges, exchange[e].stage = "sent",
         NEW status, NEW document, Reply(e, status, document), NEW answer,
         answer = Receive(FormatAt(e), status, document, exchange[e].id)
  PROVE  Remote!Answer(e, answer)
<1> DEFINE x == exchange[e]
<1>1. IsExchange(x) /\ Exchanges = DOMAIN exchange
  BY SentRequest DEF Inv, Types
<1>2. \A d \in Exchanges :
        exchange'[d] = IF d = e THEN Answered(x, status, document) ELSE exchange[d]
  BY <1>1 DEF Reply
<1>3. AttemptOf(x) = [stage |-> "sent", client |-> x.client, call |-> x.call,
                      answer |-> NoAnswer]
  BY <1>1 DEF AttemptOf, Unused
<1>4. AttemptOf(Answered(x, status, document)) =
        Remote!WithAnswer(AttemptOf(x), answer)
  BY <1>3 DEF AttemptOf, Answered, Unused, FormatAt, Remote!WithAnswer
<1> DEFINE A == [d \in Exchanges |-> AttemptOf(exchange[d])]
           B == [d \in Exchanges |-> AttemptOf(exchange'[d])]
<1>5. B = [A EXCEPT ![e] = Remote!WithAnswer(A[e], answer)]
  BY <1>2, <1>4
<1>6. A[e].stage = "sent"
  BY <1>3
<1>7. UNCHANGED <<made, current, outcome>>
  BY DEF Reply
<1>8. QED
  BY <1>5, <1>6, <1>7 DEF Remote!Answer

LEMMA RemoteNext == Inv /\ [Next]_vars => [Remote!ANext]_Remote!avars
<1> SUFFICES ASSUME Inv, [Next]_vars PROVE [Remote!ANext]_Remote!avars
  OBVIOUS
<1>1. ASSUME NEW c \in Clients, NEW call \in Calls, Call(c, call)
      PROVE  Remote!ACall(c, call)
  <2>1. myId[c] \in Ids
    BY DEF Inv, Types
  <2>2. QED
    BY <1>1, <2>1, RemoteAttempt DEF Call, Remote!ACall
<1>2. ASSUME NEW c \in Clients, Resend(c) PROVE Remote!ARetry(c)
  <2> DEFINE x == exchange[current[c]]
  <2>1. /\ current[c] \in Exchanges /\ IsExchange(x)
        /\ x.call \in Calls /\ x.id \in Ids
    BY <1>2, CurrentExchange DEF Resend, IsExchange
  <2>2. AttemptOf(x).call = x.call
    BY <2>1 DEF AttemptOf, IsExchange, Unused
  <2>3. QED
    BY <1>2, <2>1, <2>2, RemoteAttempt DEF Resend, Remote!ARetry
<1>3. ASSUME NEW c \in Clients, Return(c) PROVE Remote!AReturn(c)
  <2> DEFINE x == exchange[current[c]]
  <2>1. /\ current[c] \in Exchanges /\ IsExchange(x) /\ x.client = c
        /\ x.stage = "answered"
    BY <1>3, CurrentExchange DEF Return
  <2>2. /\ AttemptOf(x).stage = "answered"
        /\ AttemptOf(x).answer = Receive(FormatOf[c], x.status, x.document, x.id)
    BY <2>1 DEF AttemptOf, Unused
  <2>3. QED
    BY <1>3, <2>1, <2>2 DEF Return, Remote!AReturn, Remote!Done
<1>4. ASSUME NEW c \in Clients, Lose(c) PROVE Remote!AGiveUp(c)
  BY <1>4 DEF Lose, Remote!AGiveUp, Remote!Done
\* The attempt an exchange stands for.
<1>5. ASSUME NEW e \in Exchanges, exchange[e].stage = "sent"
      PROVE  /\ exchange[e].client \in Clients /\ exchange[e].call \in Calls
             /\ exchange[e].id \in Ids /\ app \in Apps
             /\ AttemptOf(exchange[e]).client = exchange[e].client
             /\ AttemptOf(exchange[e]).call = exchange[e].call
             /\ RequestAt(e) =
                  ReadRequest(FormatAt(e),
                    WriteRequest(FormatAt(e), exchange[e].call,
                                 Integer32(exchange[e].id)))
  BY <1>5, SentRequest DEF IsExchange, AttemptOf, Unused, RequestAt
<1>6. ASSUME NEW e \in Exchanges, ServeRefused(e) PROVE Remote!AServe(e)
  <2> DEFINE x == exchange[e]
  <2>1. /\ Receive(FormatAt(e), 200, WriteResponse(FormatAt(e), Refusal, Nil), x.id)
             = LocalOutcome(x.client, x.call, app)
        /\ LocalEffect(x.client, x.call, app) = app
    BY <1>5, <1>6, RefusedOutcome DEF ServeRefused, FormatAt
  <2>2. Remote!Answer(e, LocalOutcome(x.client, x.call, app))
    BY <1>6, <2>1, RemoteAnswer DEF ServeRefused
  <2>3. QED
    BY <1>5, <1>6, <2>1, <2>2 DEF ServeRefused, Remote!AServe
<1>7. ASSUME NEW e \in Exchanges, exchange[e].stage = "sent",
             RequestAt(e) # Invalid, Run(e)
      PROVE  app' = LocalEffect(exchange[e].client, exchange[e].call, app)
  BY <1>5, <1>7, ServedOutcome DEF Run, FormatAt
<1>8. ASSUME NEW e \in Exchanges, Serve(e) PROVE Remote!AServe(e)
  <2> DEFINE x == exchange[e]
             document == WriteResponse(FormatAt(e),
                                       Invoke(app, RequestAt(e).call).response,
                                       RequestAt(e).id)
  <2>1. Receive(FormatAt(e), 200, document, x.id)
          = LocalOutcome(x.client, x.call, app)
    BY <1>5, <1>8, ServedOutcome DEF Serve, FormatAt
  <2>2. Remote!Answer(e, LocalOutcome(x.client, x.call, app))
    <3>1. Reply(e, 200, document) /\ x.stage = "sent"
      BY <1>8 DEF Serve
    <3> HIDE DEF document
    <3>2. QED
      BY <2>1, <3>1, RemoteAnswer
  <2>3. app' = LocalEffect(x.client, x.call, app)
    BY <1>7, <1>8 DEF Serve
  <2>4. QED
    BY <1>5, <1>8, <2>2, <2>3 DEF Serve, Remote!AServe
<1>9. ASSUME NEW e \in Exchanges, ServeFails(e) PROVE Remote!AFail(e)
  <2>1. PICK status \in {400, 404, 500} : Reply(e, status, NoDocument)
    BY <1>9 DEF ServeFails
  <2>2. Receive(FormatAt(e), status, NoDocument, exchange[e].id) = RuntimeError
    BY DEF Receive
  <2>3. Remote!Answer(e, RuntimeError)
    BY <1>9, <2>1, <2>2, RemoteAnswer DEF ServeFails
  <2>4. app' = app \/ app' = LocalEffect(exchange[e].client, exchange[e].call, app)
    BY <1>7, <1>9 DEF ServeFails
  <2>5. QED
    BY <1>5, <1>9, <2>3, <2>4 DEF ServeFails, Remote!AFail
<1>10. CASE UNCHANGED vars
  BY <1>10 DEF vars, Remote!avars
<1>11. QED
  BY <1>1, <1>2, <1>3, <1>4, <1>6, <1>8, <1>9, <1>10
     DEF Next, Remote!ANext, Exchanges

-----------------------------------------------------------------------------
\* The theorems.

\* The variables keep their types; myId stays an int32_t (client.h:82).
THEOREM SpecTypeOK == Spec => []TypeOK
BY SpecInv, InvTypeOK, PTL

\* Only abandoned calls take effect out of order (client.cpp:95-105).
THEOREM SpecLateIfAbandoned == Spec => []LateIfAbandoned
<1>1. Inv => LateIfAbandoned
  BY DEF Inv
<1>2. QED
  BY <1>1, SpecInv, PTL

\* A remote call has the outcome of a local one or is a runtime_error, for any
\* formats that carry ids (client.cpp:76-116, server.cpp:105-127).
THEOREM SpecImplementsRemoteCalls == Spec => ImplementsRemoteCalls
BY RemoteInit, RemoteNext, SpecInv, PTL
   DEF Spec, ImplementsRemoteCalls, Remote!ASpec
=============================================================================
