---------------------------- MODULE ServerProofs ----------------------------
(***************************************************************************)
(* Type correctness and the safety of Server, for every set of connections *)
(* and handlers, every limit and both behaviours of MHD.                   *)
(***************************************************************************)
EXTENDS Server, TLAPS

(***************************************************************************)
(* Types.                                                                  *)
(***************************************************************************)

\* The constant records are well typed.
LEMMA ConstantTypes ==
  /\ NoWriter \in Document
  /\ NoReply \in Reply
  /\ NoRequest \in [method : Methods \cup {NULL}, route : Routes \cup {NULL}]
  /\ \A s \in {400, 404, 405, 500} : EmptyReply(s) \in Reply
  BY DEF NoWriter, Document, NoReply, Reply, NoRequest, EmptyReply

\* The initial state is well typed.
LEMMA InitTypeOK == Init => TypeOK
  <1> SUFFICES ASSUME Init PROVE TypeOK
    OBVIOUS
  <1>1. info \in [Addr -> ConnectionInfo]
    BY ConstantTypes DEF Init, ConnectionInfo
  <1>2. formatHandlers \in Seq(Handlers) /\ body \in [Conns -> Seq(Byte)]
    BY DEF Init
  <1>3. reply \in [Conns -> Reply]
    BY ConstantTypes DEF Init
  <1>4. request \in [Conns -> [method : Methods \cup {NULL},
                               route : Routes \cup {NULL}]]
    BY ConstantTypes DEF Init
  <1> QED
    BY <1>1, <1>2, <1>3, <1>4 DEF Init, TypeOK, Phases

\* Queueing a response keeps the types of what MHD keeps for a connection.
LEMMA QueueResponseType ==
  ASSUME TypeOK, NEW c \in Conns, NEW r \in Reply, QueueResponse(c, r)
  PROVE  phase' \in [Conns -> Phases] /\ reply' \in [Conns -> Reply]
  BY DEF TypeOK, QueueResponse, Phases

\* So does forgetting the requests of some connections.
LEMMA ForgetType ==
  ASSUME TypeOK, NEW S, NEW Keep, Forget(S, Keep)
  PROVE  /\ phase' \in [Conns -> Phases]
         /\ request' \in [Conns -> [method : Methods \cup {NULL},
                                    route : Routes \cup {NULL}]]
         /\ connectionCls' \in [Conns -> Addr \cup {NULL}]
         /\ reply' \in [Conns -> Reply]
         /\ body' \in [Conns -> Seq(Byte)]
  BY ConstantTypes DEF TypeOK, Forget, Phases

\* Every step of the server preserves the types.
LEMMA NextTypeOK == TypeOK /\ [Next]_vars => TypeOK'
  <1> SUFFICES ASSUME TypeOK, [Next]_vars PROVE TypeOK'
    OBVIOUS
  <1>1. CASE Start
    BY <1>1 DEF TypeOK, Start
  <1>2. CASE Stop
    BY <1>2, ForgetType DEF TypeOK, Stop, OnRequestCompleted
  <1>3. ASSUME NEW h \in Handlers, RegisterFormatHandler(h) PROVE TypeOK'
    BY <1>3 DEF TypeOK, RegisterFormatHandler
  <1>4. ASSUME NEW c \in Conns, Connect(c) PROVE TypeOK'
    BY <1>4 DEF TypeOK, Connect, Phases
  <1>5. ASSUME NEW c \in Conns, NEW m \in Methods, NEW r \in Routes,
               OnHeaders(c, m, r)
        PROVE  TypeOK'
    <2> [method |-> m, route |-> r]
          \in [method : Methods \cup {NULL}, route : Routes \cup {NULL}]
      OBVIOUS
    <2>1. request' \in [Conns -> [method : Methods \cup {NULL},
                                  route : Routes \cup {NULL}]]
      BY <1>5 DEF TypeOK, OnHeaders
    <2>2. ASSUME NEW s \in {404, 405, 500}, QueueResponse(c, EmptyReply(s)),
                 UNCHANGED <<live, info, connectionCls>>
          PROVE  TypeOK'
      <3>1. EmptyReply(s) \in Reply
        BY ConstantTypes
      <3> QED
        BY <1>5, <2>1, <2>2, <3>1, QueueResponseType DEF TypeOK, OnHeaders
    <2>3. ASSUME NEW h \in Handlers, NewConnectionInfo(c, h),
                 phase' = [phase EXCEPT ![c] = "upload"], UNCHANGED reply
          PROVE  TypeOK'
      <3>1. [Buffer |-> << >>, FormatHandler |-> h, Writer |-> NoWriter]
              \in ConnectionInfo
        BY ConstantTypes DEF ConnectionInfo
      <3> QED
        BY <1>5, <2>1, <2>3, <3>1
        DEF TypeOK, OnHeaders, NewConnectionInfo, Phases
    <2> QED
      BY <1>5, <2>2, <2>3 DEF OnHeaders
  <1>6. ASSUME NEW c \in Conns, NEW d \in Chunks, OnUpload(c, d) PROVE TypeOK'
    <2> DEFINE a == connectionCls[c]
    <2>1. a \in Addr /\ d \in Seq(Byte)
      BY <1>6, ChunksAssumption DEF TypeOK, OnUpload
    <2>2. body' \in [Conns -> Seq(Byte)]
      BY <1>6, <2>1 DEF TypeOK, OnUpload
    <2>3. CASE QueueResponse(c, EmptyReply(400)) /\ UNCHANGED info
      <3>1. EmptyReply(400) \in Reply
        BY ConstantTypes
      <3> QED
        BY <1>6, <2>2, <2>3, <3>1, QueueResponseType DEF TypeOK, OnUpload
    <2>4. CASE /\ info' = [info EXCEPT ![a].Buffer = @ \o d]
               /\ UNCHANGED <<phase, reply>>
      <3>1. info[a] \in ConnectionInfo
        BY <2>1 DEF TypeOK
      <3>2. info[a].Buffer \o d \in Seq(Byte)
        BY <2>1, <3>1 DEF ConnectionInfo
      <3>3. [info[a] EXCEPT !.Buffer = @ \o d] \in ConnectionInfo
        BY <3>1, <3>2 DEF ConnectionInfo
      <3>4. info' \in [Addr -> ConnectionInfo]
        BY <2>1, <2>4, <3>3 DEF TypeOK
      <3> QED
        BY <1>6, <2>2, <2>4, <3>4 DEF TypeOK, OnUpload
    <2> QED
      BY <1>6, <2>3, <2>4 DEF OnUpload
  <1>7. ASSUME NEW c \in Conns, OnUploadFails(c) PROVE TypeOK'
    <2>1. EmptyReply(500) \in Reply
      BY ConstantTypes
    <2> QED
      BY <1>7, <2>1, QueueResponseType DEF TypeOK, OnUploadFails
  <1>8. ASSUME NEW c \in Conns, EndUpload(c) PROVE TypeOK'
    BY <1>8 DEF TypeOK, EndUpload, Phases
  <1>9. ASSUME NEW c \in Conns, OnUploadDone(c) PROVE TypeOK'
    <2> DEFINE a == connectionCls[c]
               h == info[a].FormatHandler
    <2>1. /\ a \in Addr
          /\ h \in Handlers \cup {NULL}
          /\ info[a].Buffer \in Seq(Byte)
      BY <1>9 DEF TypeOK, OnUploadDone, ConnectionInfo
    <2>2. PICK kind \in {"empty", "result", "fault"} :
            info' = [info EXCEPT ![a] =
                       [Buffer |-> << >>, FormatHandler |-> h,
                        Writer |-> [kind |-> kind, format |-> h,
                                    body |-> info[a].Buffer]]]
      BY <1>9 DEF OnUploadDone, HandleRequest
    <2>3. info' \in [Addr -> ConnectionInfo]
      BY <2>1, <2>2 DEF TypeOK, ConnectionInfo, Document
    <2>4. PICK r \in Reply : QueueResponse(c, r)
      <3>1. [status |-> 200, contentType |-> h, data |-> a] \in Reply
        BY <2>1 DEF Reply
      <3>2. EmptyReply(500) \in Reply
        BY ConstantTypes
      <3> QED
        BY <1>9, <3>1, <3>2 DEF OnUploadDone, HandleRequest
    <2> QED
      BY <1>9, <2>3, <2>4, QueueResponseType DEF TypeOK, OnUploadDone
  <1>10. ASSUME NEW c \in Conns, Complete(c) PROVE TypeOK'
    BY <1>10, ForgetType DEF TypeOK, Complete, OnRequestCompleted
  <1>11. ASSUME NEW c \in Conns, Abort(c) PROVE TypeOK'
    BY <1>11, ForgetType DEF TypeOK, Abort, OnRequestCompleted
  <1>12. CASE UNCHANGED vars
    BY <1>12 DEF TypeOK, vars
  <1> QED
    BY <1>1, <1>2, <1>3, <1>4, <1>5, <1>6, <1>7, <1>8, <1>9, <1>10, <1>11,
       <1>12 DEF Next

\* Every reachable state of the server is well typed.
THEOREM SpecTypeOK == Spec => []TypeOK
  BY InitTypeOK, NextTypeOK, PTL DEF Spec

-----------------------------------------------------------------------------
(***************************************************************************)
(* Safety.  The properties of Server are about what a connection points    *)
(* to, so they are inductive only together with the agreement between      *)
(* MHD's phase and the pointer, and with the ownership that keeps the      *)
(* other connections' steps away from the ConnectionInfo.                  *)
(***************************************************************************)

\* What holds of the ConnectionInfo at a while it serves connection c.
InfoInv(c, a) ==
  /\ a \in live
  /\ Len(info[a].Buffer) <= MAX_REQUEST_SIZE
  /\ Len(info[a].Writer.body) <= MAX_REQUEST_SIZE
  /\ request[c].method = "POST"
  /\ IsFirstMatch(info[a].FormatHandler, request[c].route)
  /\ Len(body[c]) <= MAX_REQUEST_SIZE =>
       /\ phase[c] \in {"upload", "uploaded"} => info[a].Buffer = body[c]
       /\ reply[c].status = 200 => info[a].Writer.body = body[c]

\* What holds of the reply queued on c.
ReplyInv(c) ==
  reply[c].data # NULL =>
    /\ reply[c].data = connectionCls[c]
    /\ info[reply[c].data].Writer.kind \in {"result", "fault"}
    /\ info[reply[c].data].Writer.format = reply[c].contentType

\* What holds of connection c.
ConnectionInv(c) ==
  /\ phase[c] \in {"closed", "idle"} => connectionCls[c] = NULL
  /\ phase[c] \in {"upload", "uploaded"} => connectionCls[c] # NULL
  /\ phase[c] # "replying" => reply[c] = NoReply
  /\ ~running => phase[c] = "closed"
  /\ connectionCls[c] = NULL => body[c] = << >>
  /\ connectionCls[c] # NULL => InfoInv(c, connectionCls[c])
  /\ ReplyInv(c)
  /\ TakesMidUpload /\ Len(body[c]) > MAX_REQUEST_SIZE =>
       phase[c] = "replying" /\ reply[c].status \in {400, 500}

Inv == TypeOK /\ InfoOwnership /\ \A c \in Conns : ConnectionInv(c)

\* The invariant implies the safety properties.
LEMMA InvImplies ==
  Inv => /\ InfoOwnership
         /\ ReplyReadable
         /\ BodyIntact
         /\ BufferBounded
         /\ OversizeRefused
         /\ FirstHandlerServes
  <1> SUFFICES ASSUME Inv
               PROVE  /\ ReplyReadable
                      /\ BodyIntact
                      /\ BufferBounded
                      /\ OversizeRefused
                      /\ FirstHandlerServes
    BY DEF Inv
  <1>1. ReplyReadable
    BY DEF Inv, ReplyReadable, ConnectionInv, ReplyInv, InfoInv
  <1>2. BodyIntact
    BY DEF Inv, BodyIntact, ConnectionInv, InfoInv, InProgress
  <1>3. BufferBounded
    BY DEF Inv, BufferBounded, InfoOwnership, ConnectionInv, InfoInv,
           InProgress
  <1>4. OversizeRefused
    BY DEF Inv, OversizeRefused, ConnectionInv
  <1>5. FirstHandlerServes
    BY DEF Inv, FirstHandlerServes, ConnectionInv, InfoInv, InProgress
  <1> QED
    BY <1>1, <1>2, <1>3, <1>4, <1>5

\* The invariant holds initially.
LEMMA InitInv == Init => Inv
  <1> SUFFICES ASSUME Init PROVE Inv
    OBVIOUS
  <1>1. InfoOwnership
    BY DEF Init, InfoOwnership, InProgress
  <1>2. ASSUME NEW c \in Conns PROVE ConnectionInv(c)
    BY SizesAssumption DEF Init, ConnectionInv, ReplyInv, NoReply
  <1> QED
    BY <1>1, <1>2, InitTypeOK DEF Inv

\* A step that leaves a connection's state, its ConnectionInfo and the choice of
\* its handler alone preserves what holds of the connection.
LEMMA Frame ==
  ASSUME Inv, TypeOK', NEW c \in Conns,
         phase'[c] = phase[c], request'[c] = request[c],
         connectionCls'[c] = connectionCls[c], reply'[c] = reply[c],
         body'[c] = body[c], running' = running,
         connectionCls[c] # NULL =>
           /\ connectionCls[c] \in live'
           /\ info'[connectionCls[c]] = info[connectionCls[c]]
           /\ \A h \in Handlers \cup {NULL} :
                IsFirstMatch(h, request[c].route) =>
                  IsFirstMatch(h, request[c].route)'
  PROVE  ConnectionInv(c)'
  <1>0. ConnectionInv(c)
    BY DEF Inv
  <1>1. CASE connectionCls[c] = NULL
    <2>1. reply[c].data = NULL
      BY <1>0, <1>1 DEF ConnectionInv, ReplyInv
    <2> QED
      BY <1>0, <1>1, <2>1 DEF ConnectionInv, ReplyInv
  <1>2. CASE connectionCls[c] # NULL
    <2> DEFINE a == connectionCls[c]
    <2>1. a \in Addr /\ info[a].FormatHandler \in Handlers \cup {NULL}
      BY <1>2 DEF Inv, TypeOK, ConnectionInfo
    <2>2. InfoInv(c, a)'
      BY <1>0, <1>2, <2>1 DEF ConnectionInv, InfoInv
    <2>3. ReplyInv(c)'
      BY <1>0, <1>2 DEF ConnectionInv, ReplyInv
    <2> QED
      BY <1>0, <1>2, <2>2, <2>3 DEF ConnectionInv
  <1> QED
    BY <1>1, <1>2

\* A connection without a ConnectionInfo, a body or a reply is in order.
LEMMA Fresh ==
  ASSUME TypeOK', NEW c \in Conns,
         phase'[c] \in {"closed", "idle"}, connectionCls'[c] = NULL,
         reply'[c] = NoReply, body'[c] = << >>,
         ~running' => phase'[c] = "closed"
  PROVE  ConnectionInv(c)'
  BY SizesAssumption DEF ConnectionInv, ReplyInv, NoReply

\* So is one whose only ConnectionInfo-less request has been refused.
LEMMA Refused ==
  ASSUME TypeOK', NEW c \in Conns, NEW s \in {404, 405, 500},
         running', phase'[c] = "replying", connectionCls'[c] = NULL,
         reply'[c] = EmptyReply(s), body'[c] = << >>
  PROVE  ConnectionInv(c)'
  BY SizesAssumption DEF ConnectionInv, ReplyInv, EmptyReply

\* A new ConnectionInfo is owned by the connection it was made for.
LEMMA NewOwnership ==
  ASSUME Inv, NEW c \in Conns, NEW a \in Addr \ live, connectionCls[c] = NULL,
         live' = live \cup {a},
         connectionCls' = [connectionCls EXCEPT ![c] = a]
  PROVE  InfoOwnership'
  <1>1. \A d \in Conns : connectionCls'[d] = IF d = c THEN a ELSE connectionCls[d]
    BY DEF Inv, TypeOK
  <1>2. \A d \in Conns : InProgress(d) => connectionCls[d] \in live
    BY DEF Inv, InfoOwnership
  <1>3. a # NULL
    BY NullAssumption
  <1>4. \A d \in Conns : InProgress(d)' <=> d = c \/ InProgress(d)
    BY <1>1, <1>3 DEF InProgress
  <1>5. live' = {connectionCls'[d] : d \in {e \in Conns : InProgress(e)'}}
    <2>1. ASSUME NEW b \in live'
          PROVE  \E d \in Conns : InProgress(d)' /\ connectionCls'[d] = b
      <3>1. CASE b = a
        BY <3>1, <1>1, <1>4
      <3>2. CASE b \in live
        <4>1. PICK d \in Conns : InProgress(d) /\ connectionCls[d] = b
          BY <3>2 DEF Inv, InfoOwnership
        <4>2. d # c
          BY <4>1 DEF InProgress
        <4> QED
          BY <4>1, <4>2, <1>1, <1>4
      <3> QED
        BY <2>1, <3>1, <3>2
    <2>2. ASSUME NEW d \in Conns, InProgress(d)'
          PROVE  connectionCls'[d] \in live'
      BY <2>2, <1>1, <1>2, <1>4
    <2> QED
      BY <2>1, <2>2
  <1>6. ASSUME NEW d \in Conns, NEW e \in Conns, InProgress(d)',
               connectionCls'[d] = connectionCls'[e]
        PROVE  d = e
    <2>1. InProgress(e)'
      BY <1>6 DEF InProgress
    <2> QED
      BY <1>1, <1>2, <1>4, <1>6, <2>1 DEF Inv, InfoOwnership
  <1> QED
    BY <1>5, <1>6 DEF InfoOwnership

\* Ending the requests of the connections in S deletes just what they own.
LEMMA EndOwnership ==
  ASSUME Inv, NEW S \in SUBSET Conns, NEW Keep,
         OnRequestCompleted(S), Forget(S, Keep)
  PROVE  /\ InfoOwnership'
         /\ \A d \in Conns \ S :
              connectionCls[d] # NULL => connectionCls[d] \in live'
  <1>1. \A d \in Conns :
          connectionCls'[d] = IF d \in S THEN NULL ELSE connectionCls[d]
    BY DEF Forget
  <1>2. \A d \in Conns : InProgress(d)' <=> d \notin S /\ InProgress(d)
    BY <1>1 DEF InProgress
  <1>3. \A b : b \in live' <=> b \in live /\ \A d \in S : b # connectionCls[d]
    BY DEF OnRequestCompleted
  <1>4. ASSUME NEW d \in Conns \ S, connectionCls[d] # NULL
        PROVE  connectionCls[d] \in live'
    <2>1. InProgress(d) /\ connectionCls[d] \in live
      BY <1>4 DEF InProgress, Inv, InfoOwnership
    <2>2. \A e \in S : connectionCls[d] # connectionCls[e]
      BY <2>1 DEF Inv, InfoOwnership
    <2> QED
      BY <1>3, <2>1, <2>2
  <1>5. ASSUME NEW b \in live'
        PROVE  \E d \in Conns : InProgress(d)' /\ connectionCls'[d] = b
    <2>1. PICK d \in Conns : InProgress(d) /\ connectionCls[d] = b
      BY <1>3 DEF Inv, InfoOwnership
    <2>2. d \notin S
      BY <1>3, <2>1
    <2> QED
      BY <1>1, <1>2, <2>1, <2>2
  <1>6. live' = {connectionCls'[d] : d \in {e \in Conns : InProgress(e)'}}
    <2>1. \A d \in Conns : InProgress(d)' => connectionCls'[d] \in live'
      BY <1>1, <1>2, <1>4 DEF InProgress
    <2> QED
      BY <1>5, <2>1
  <1>7. \A d, e \in Conns :
          InProgress(d)' /\ connectionCls'[d] = connectionCls'[e] => d = e
    BY <1>1, <1>2 DEF Inv, InfoOwnership, InProgress
  <1> QED
    BY <1>4, <1>6, <1>7 DEF InfoOwnership

\* Ending the requests of the connections in S, when the server stays up or
\* all of them are closed.
LEMMA EndInv ==
  ASSUME Inv, TypeOK', NEW S \in SUBSET Conns, NEW Keep,
         OnRequestCompleted(S), Forget(S, Keep),
         UNCHANGED <<formatHandlers, info>>,
         \/ running' = running /\ \A c \in S : phase[c] # "closed"
         \/ S = Conns /\ Keep = {}
  PROVE  Inv'
  <1>1. InfoOwnership'
    BY EndOwnership
  <1>2. ASSUME NEW c \in Conns PROVE ConnectionInv(c)'
    <2>1. CASE c \in S
      <3>1. /\ phase'[c] \in {"closed", "idle"}
            /\ connectionCls'[c] = NULL
            /\ reply'[c] = NoReply
            /\ body'[c] = << >>
        BY <2>1 DEF Forget
      <3>2. ~running' => phase'[c] = "closed"
        BY <2>1 DEF Forget, Inv, ConnectionInv
      <3> QED
        BY <3>1, <3>2, Fresh
    <2>2. CASE c \notin S
      <3>1. /\ phase'[c] = phase[c]
            /\ request'[c] = request[c]
            /\ connectionCls'[c] = connectionCls[c]
            /\ reply'[c] = reply[c]
            /\ body'[c] = body[c]
            /\ running' = running
        BY <2>2 DEF Forget
      <3>2. connectionCls[c] # NULL =>
              /\ connectionCls[c] \in live'
              /\ info'[connectionCls[c]] = info[connectionCls[c]]
        BY <2>2, EndOwnership
      <3>3. \A h : IsFirstMatch(h, request[c].route) =>
                     IsFirstMatch(h, request[c].route)'
        BY <3>1 DEF IsFirstMatch
      <3> QED
        BY <3>1, <3>2, <3>3, Frame
    <2> QED
      BY <2>1, <2>2
  <1> QED
    BY <1>1, <1>2 DEF Inv

\* Registration only appends: the first match of a request stays the first.
LEMMA RegisterInv ==
  ASSUME Inv, TypeOK', NEW h \in Handlers, RegisterFormatHandler(h)
  PROVE  Inv'
  <1>1. InfoOwnership'
    BY DEF RegisterFormatHandler, Inv, InfoOwnership, InProgress
  <1>2. /\ Len(formatHandlers') = Len(formatHandlers) + 1
        /\ Len(formatHandlers) \in Nat
        /\ \A i \in 1..Len(formatHandlers) :
             formatHandlers'[i] = formatHandlers[i]
    BY DEF RegisterFormatHandler, Inv, TypeOK
  <1>3. ASSUME NEW c \in Conns, NEW g, IsFirstMatch(g, request[c].route)
        PROVE  IsFirstMatch(g, request[c].route)'
    <2>1. PICK i \in 1..Len(formatHandlers) :
            /\ formatHandlers[i] = g
            /\ request[c].route \in CanHandleRequest[g]
            /\ \A j \in 1..(i - 1) :
                 request[c].route \notin CanHandleRequest[formatHandlers[j]]
      <3>1. DOMAIN formatHandlers = 1..Len(formatHandlers)
        BY DEF Inv, TypeOK
      <3> QED
        BY <1>3, <3>1 DEF IsFirstMatch
    <2>2. i \in DOMAIN formatHandlers' /\ formatHandlers'[i] = g
      <3>1. DOMAIN formatHandlers' = 1..Len(formatHandlers')
        BY DEF TypeOK
      <3> QED
        BY <1>2, <2>1, <3>1
    <2>3. \A j \in 1..(i - 1) :
            request[c].route \notin CanHandleRequest[formatHandlers'[j]]
      BY <1>2, <2>1
    <2>4. request' = request
      BY DEF RegisterFormatHandler
    <2> QED
      BY <2>1, <2>2, <2>3, <2>4 DEF IsFirstMatch
  <1>4. ASSUME NEW c \in Conns PROVE ConnectionInv(c)'
    <2>1. connectionCls[c] # NULL => connectionCls[c] \in live'
      BY DEF RegisterFormatHandler, Inv, ConnectionInv, InfoInv
    <2> QED
      BY <1>3, <2>1, Frame DEF RegisterFormatHandler
  <1> QED
    BY <1>1, <1>4 DEF Inv

\* The call for the headers of a request preserves the invariant.
LEMMA OnHeadersInv ==
  ASSUME Inv, TypeOK', NEW c \in Conns, NEW m \in Methods, NEW r \in Routes,
         OnHeaders(c, m, r)
  PROVE  Inv'
  <1>1. /\ running /\ running'
        /\ phase[c] = "idle"
        /\ connectionCls[c] = NULL
        /\ reply[c] = NoReply
        /\ body[c] = << >>
        /\ body' = body
        /\ formatHandlers' = formatHandlers
        /\ request' = [request EXCEPT ![c] = [method |-> m, route |-> r]]
    BY DEF OnHeaders, Inv, ConnectionInv
  <1>2. \A d \in Conns \ {c} : request'[d] = request[d]
    BY <1>1 DEF Inv, TypeOK
  <1>3. \A d \in Conns \ {c} : \A h :
          IsFirstMatch(h, request[d].route) =>
            IsFirstMatch(h, request[d].route)'
    BY <1>1, <1>2 DEF IsFirstMatch
  <1>4. \A d \in Conns : connectionCls[d] # NULL => connectionCls[d] \in live
    BY DEF Inv, ConnectionInv, InfoInv
  <1>5. ASSUME NEW s \in {404, 405, 500}, QueueResponse(c, EmptyReply(s)),
               UNCHANGED <<live, info, connectionCls>>
        PROVE  Inv'
    <2>1. /\ phase' = [phase EXCEPT ![c] = "replying"]
          /\ reply' = [reply EXCEPT ![c] = EmptyReply(s)]
      BY <1>1, <1>5 DEF QueueResponse
    <2>2. InfoOwnership'
      BY <1>5 DEF Inv, InfoOwnership, InProgress
    <2>3. ConnectionInv(c)'
      BY <1>1, <1>5, <2>1, Refused DEF Inv, TypeOK
    <2>4. ASSUME NEW d \in Conns \ {c} PROVE ConnectionInv(d)'
      <3>1. phase'[d] = phase[d] /\ reply'[d] = reply[d]
        BY <2>1 DEF Inv, TypeOK
      <3>2. running' = running
        BY <1>1 DEF Inv, TypeOK
      <3> QED
        BY <1>1, <1>2, <1>3, <1>4, <1>5, <3>1, <3>2, Frame
    <2> QED
      BY <2>2, <2>3, <2>4 DEF Inv
  <1>6. ASSUME NEW h \in Handlers, IsFirstMatch(h, r), m = "POST",
               NewConnectionInfo(c, h),
               phase' = [phase EXCEPT ![c] = "upload"], UNCHANGED reply
        PROVE  Inv'
    <2>1. PICK a \in Addr \ live :
            /\ live' = live \cup {a}
            /\ info' = [info EXCEPT ![a] =
                          [Buffer |-> << >>, FormatHandler |-> h,
                           Writer |-> NoWriter]]
            /\ connectionCls' = [connectionCls EXCEPT ![c] = a]
      BY <1>6 DEF NewConnectionInfo
    <2>2. InfoOwnership'
      BY <1>1, <2>1, NewOwnership
    <2>3. ConnectionInv(c)'
      <3>1. /\ phase'[c] = "upload" /\ connectionCls'[c] = a
            /\ reply'[c] = NoReply /\ body'[c] = << >>
            /\ request'[c] = [method |-> m, route |-> r]
            /\ info'[a] = [Buffer |-> << >>, FormatHandler |-> h,
                           Writer |-> NoWriter]
            /\ a \in live' /\ a # NULL
        BY <1>1, <1>6, <2>1, NullAssumption DEF Inv, TypeOK
      <3>2. IsFirstMatch(h, r)'
        BY <1>1, <1>6 DEF IsFirstMatch
      <3>3. /\ info'[a].Buffer = << >>
            /\ info'[a].FormatHandler = h
            /\ info'[a].Writer.body = << >>
            /\ request'[c].route = r /\ request'[c].method = "POST"
        BY <1>6, <3>1 DEF NoWriter
      <3>4. InfoInv(c, a)'
        BY <3>1, <3>2, <3>3, SizesAssumption DEF InfoInv, NoReply
      <3> QED
        BY <1>1, <3>1, <3>4, SizesAssumption
        DEF ConnectionInv, ReplyInv, NoReply
    <2>4. ASSUME NEW d \in Conns \ {c} PROVE ConnectionInv(d)'
      <3>1. phase'[d] = phase[d] /\ reply'[d] = reply[d]
            /\ connectionCls'[d] = connectionCls[d]
        BY <1>6, <2>1 DEF Inv, TypeOK
      <3>2. running' = running
        BY <1>1 DEF Inv, TypeOK
      <3>3. connectionCls[d] # NULL =>
              /\ connectionCls[d] \in live'
              /\ info'[connectionCls[d]] = info[connectionCls[d]]
        BY <1>4, <2>1 DEF Inv, TypeOK
      <3> QED
        BY <1>1, <1>2, <1>3, <3>1, <3>2, <3>3, Frame
    <2> QED
      BY <2>2, <2>3, <2>4 DEF Inv
  <1> QED
    BY <1>5, <1>6 DEF OnHeaders

\* A step of connection c that only changes its phase, reply and body, and the
\* contents of its own ConnectionInfo, leaves the others in order.
LEMMA OwnStep ==
  ASSUME Inv, TypeOK', NEW c \in Conns, connectionCls[c] # NULL,
         UNCHANGED <<running, formatHandlers, live, request, connectionCls>>,
         \A a \in Addr \ {connectionCls[c]} : info'[a] = info[a],
         \A d \in Conns \ {c} : /\ phase'[d] = phase[d]
                                /\ reply'[d] = reply[d]
                                /\ body'[d] = body[d],
         ConnectionInv(c)'
  PROVE  Inv'
  <1>1. InfoOwnership'
    BY DEF Inv, InfoOwnership, InProgress
  <1>2. ASSUME NEW d \in Conns \ {c} PROVE ConnectionInv(d)'
    <2>1. connectionCls[d] # NULL =>
            /\ connectionCls[d] \in live'
            /\ info'[connectionCls[d]] = info[connectionCls[d]]
      <3> SUFFICES ASSUME connectionCls[d] # NULL
                   PROVE  /\ connectionCls[d] \in live'
                          /\ info'[connectionCls[d]] = info[connectionCls[d]]
        OBVIOUS
      <3>1. connectionCls[d] # connectionCls[c]
        BY DEF Inv, InfoOwnership, InProgress
      <3>2. connectionCls[d] \in live /\ connectionCls[d] \in Addr
        BY DEF Inv, ConnectionInv, InfoInv, TypeOK
      <3> QED
        BY <3>1, <3>2
    <2>2. \A h : IsFirstMatch(h, request[d].route) =>
                   IsFirstMatch(h, request[d].route)'
      BY DEF IsFirstMatch
    <2> QED
      BY <2>1, <2>2, Frame
  <1> QED
    BY <1>1, <1>2 DEF Inv

\* A call with a piece of the body preserves the invariant.
LEMMA OnUploadInv ==
  ASSUME Inv, TypeOK', NEW c \in Conns, NEW d \in Chunks, OnUpload(c, d)
  PROVE  Inv'
  <1> DEFINE a == connectionCls[c]
  <1>1. /\ a \in Addr /\ a # NULL
        /\ info[a].Buffer \in Seq(Byte)
        /\ body[c] \in Seq(Byte)
        /\ d \in Seq(Byte)
        /\ phase[c] = "upload"
        /\ ConnectionInv(c)
    BY ChunksAssumption DEF OnUpload, Inv, TypeOK, ConnectionInfo
  <1>2. InfoInv(c, a) /\ reply[c] = NoReply
    BY <1>1 DEF ConnectionInv
  <1>3. body' = [body EXCEPT ![c] = body[c] \o d] /\ body'[c] = body[c] \o d
    BY DEF OnUpload, Inv, TypeOK
  <1>4. /\ Len(body'[c]) = Len(body[c]) + Len(d)
        /\ Len(info[a].Buffer \o d) = Len(info[a].Buffer) + Len(d)
        /\ Len(body[c]) \in Nat /\ Len(d) \in Nat
        /\ Len(info[a].Buffer) \in Nat
    BY <1>1, <1>3
  <1>5. \A e \in Conns \ {c} : body'[e] = body[e]
    BY <1>3 DEF Inv, TypeOK
  <1>6. \A h : IsFirstMatch(h, request[c].route) =>
                 IsFirstMatch(h, request[c].route)'
    BY DEF IsFirstMatch, OnUpload
  <1>7. Len(body[c]) <= MAX_REQUEST_SIZE => info[a].Buffer = body[c]
    BY <1>1, <1>2 DEF InfoInv
  <1>8. CASE TooLarge(a, d) /\ QueueResponse(c, EmptyReply(400)) /\ info' = info
    <2>1. Len(body'[c]) > MAX_REQUEST_SIZE
      BY <1>4, <1>8, <1>7, SizesAssumption DEF TooLarge
    <2>2. \/ phase'[c] = "replying"
             /\ reply'[c] = EmptyReply(400)
          \/ ~TakesMidUpload /\ phase'[c] = phase[c] /\ reply'[c] = reply[c]
      BY <1>1, <1>8 DEF QueueResponse, TakesMidUpload, Inv, TypeOK
    <2>3. \A e \in Conns \ {c} : phase'[e] = phase[e] /\ reply'[e] = reply[e]
      BY <1>8 DEF QueueResponse, Inv, TypeOK
    <2>4. InfoInv(c, a)'
      BY <1>2, <1>4, <1>6, <1>8, <2>1, SizesAssumption DEF InfoInv, OnUpload
    <2>5. ConnectionInv(c)'
      BY <1>1, <1>2, <1>8, <2>1, <2>2, <2>4
      DEF ConnectionInv, ReplyInv, NoReply, EmptyReply, OnUpload
    <2> QED
      BY <1>1, <1>5, <1>8, <2>3, <2>5, OwnStep DEF OnUpload
  <1>9. CASE /\ ~TooLarge(a, d)
             /\ info' = [info EXCEPT ![a].Buffer = @ \o d]
             /\ UNCHANGED <<phase, reply>>
    <2>1. /\ info'[a].Buffer = info[a].Buffer \o d
          /\ info'[a].FormatHandler = info[a].FormatHandler
          /\ info'[a].Writer = info[a].Writer
      BY <1>1, <1>9 DEF Inv, TypeOK, ConnectionInfo
    <2>2. Len(info'[a].Buffer) <= MAX_REQUEST_SIZE
      BY <1>4, <1>9, <2>1, SizesAssumption DEF TooLarge
    <2>3. Len(body'[c]) <= MAX_REQUEST_SIZE => info'[a].Buffer = body'[c]
      <3>1. Len(body'[c]) <= MAX_REQUEST_SIZE => Len(body[c]) <= MAX_REQUEST_SIZE
        BY <1>4, SizesAssumption
      <3> QED
        BY <1>3, <1>7, <2>1, <3>1
    <2>4. TakesMidUpload => Len(body'[c]) <= MAX_REQUEST_SIZE
      <3>1. TakesMidUpload => Len(body[c]) <= MAX_REQUEST_SIZE
        BY <1>1, <1>4, SizesAssumption DEF ConnectionInv
      <3> QED
        BY <1>1, <1>2, <1>4, <2>1, <2>2, <3>1 DEF InfoInv
    <2>5. InfoInv(c, a)'
      BY <1>2, <1>6, <1>9, <2>1, <2>2, <2>3 DEF InfoInv, OnUpload, NoReply
    <2>6. ConnectionInv(c)'
      BY <1>1, <1>2, <1>4, <1>9, <2>4, <2>5, SizesAssumption
      DEF ConnectionInv, ReplyInv, NoReply, OnUpload
    <2>7. \A b \in Addr \ {a} : info'[b] = info[b]
      BY <1>9 DEF Inv, TypeOK
    <2> QED
      BY <1>1, <1>5, <1>9, <2>6, <2>7, OwnStep DEF OnUpload
  <1> QED
    BY <1>8, <1>9 DEF OnUpload

\* So does a failure to store a piece of the body.
LEMMA OnUploadFailsInv ==
  ASSUME Inv, TypeOK', NEW c \in Conns, OnUploadFails(c)
  PROVE  Inv'
  <1> DEFINE a == connectionCls[c]
  <1>1. /\ a \in Addr /\ a # NULL
        /\ phase[c] = "upload"
        /\ ConnectionInv(c)
        /\ InfoInv(c, a)
        /\ reply[c] = NoReply
    BY DEF OnUploadFails, Inv, TypeOK, ConnectionInv
  <1>2. \A h : IsFirstMatch(h, request[c].route) =>
                 IsFirstMatch(h, request[c].route)'
    BY DEF IsFirstMatch, OnUploadFails
  <1>3. \/ phase'[c] = "replying" /\ reply'[c] = EmptyReply(500)
        \/ phase'[c] = phase[c] /\ reply'[c] = reply[c]
    <2>1. QueueResponse(c, EmptyReply(500))
      BY DEF OnUploadFails
    <2>2. phase \in [Conns -> Phases] /\ DOMAIN reply = Conns
      BY DEF Inv, TypeOK
    <2> QED
      BY <2>1, <2>2 DEF QueueResponse
  <1>4. \A d \in Conns \ {c} : phase'[d] = phase[d] /\ reply'[d] = reply[d]
    BY DEF OnUploadFails, QueueResponse, Inv, TypeOK
  <1>5. InfoInv(c, a)'
    BY <1>1, <1>2, <1>3 DEF InfoInv, OnUploadFails, EmptyReply
  <1>6. ConnectionInv(c)'
    BY <1>1, <1>3, <1>5
    DEF ConnectionInv, ReplyInv, NoReply, EmptyReply, OnUploadFails
  <1> QED
    BY <1>1, <1>4, <1>6, OwnStep DEF OnUploadFails

\* The end of a body preserves the invariant.
LEMMA EndUploadInv ==
  ASSUME Inv, TypeOK', NEW c \in Conns, EndUpload(c)
  PROVE  Inv'
  <1> DEFINE a == connectionCls[c]
  <1>1. /\ a # NULL
        /\ phase[c] = "upload"
        /\ phase'[c] = "uploaded"
        /\ ConnectionInv(c)
        /\ InfoInv(c, a)
        /\ reply[c] = NoReply
    BY DEF EndUpload, Inv, TypeOK, ConnectionInv
  <1>2. \A h : IsFirstMatch(h, request[c].route) =>
                 IsFirstMatch(h, request[c].route)'
    BY DEF IsFirstMatch, EndUpload
  <1>3. \A d \in Conns \ {c} : phase'[d] = phase[d]
    BY DEF EndUpload, Inv, TypeOK
  <1>4. InfoInv(c, a)'
    BY <1>1, <1>2 DEF InfoInv, EndUpload, NoReply
  <1>5. ConnectionInv(c)'
    BY <1>1, <1>4 DEF ConnectionInv, ReplyInv, NoReply, EndUpload
  <1> QED
    BY <1>1, <1>3, <1>5, OwnStep DEF EndUpload

\* HandleRequest preserves the invariant: the Writer it fills stays allocated,
\* and holds the response to the whole Buffer.
LEMMA OnUploadDoneInv ==
  ASSUME Inv, TypeOK', NEW c \in Conns, OnUploadDone(c)
  PROVE  Inv'
  <1> DEFINE a == connectionCls[c]
             h == info[a].FormatHandler
  <1>1. /\ a \in Addr /\ a # NULL
        /\ phase[c] = "uploaded"
        /\ ConnectionInv(c)
        /\ InfoInv(c, a)
        /\ reply[c] = NoReply
        /\ Len(body[c]) \in Nat
    BY DEF OnUploadDone, Inv, TypeOK, ConnectionInv
  <1>2. \A g : IsFirstMatch(g, request[c].route) =>
                 IsFirstMatch(g, request[c].route)'
    BY DEF IsFirstMatch, OnUploadDone
  <1> DEFINE Served(kind, r) ==
        /\ info' = [info EXCEPT ![a] =
                      [Buffer |-> << >>, FormatHandler |-> h,
                       Writer |-> [kind |-> kind, format |-> h,
                                   body |-> info[a].Buffer]]]
        /\ QueueResponse(c, r)
        /\ \/ /\ kind # "empty"
              /\ r = [status |-> 200, contentType |-> h, data |-> a]
           \/ r = EmptyReply(500)
  <1>3. \E kind \in {"empty", "result", "fault"} : \E r : Served(kind, r)
    BY DEF OnUploadDone, HandleRequest
  <1>4. PICK kind \in {"empty", "result", "fault"} : \E r : Served(kind, r)
    BY <1>3
  <1>5. PICK r : Served(kind, r)
    BY <1>4
  <1>6. /\ info'[a].Buffer = << >>
        /\ info'[a].FormatHandler = h
        /\ info'[a].Writer.kind = kind
        /\ info'[a].Writer.format = h
        /\ info'[a].Writer.body = info[a].Buffer
    BY <1>1, <1>5 DEF Inv, TypeOK
  <1>7. \A b \in Addr \ {a} : info'[b] = info[b]
    BY <1>5 DEF Inv, TypeOK
  <1>8. /\ phase'[c] = "replying"
        /\ reply'[c] = r
        /\ \A d \in Conns \ {c} : phase'[d] = phase[d] /\ reply'[d] = reply[d]
    BY <1>1, <1>5 DEF QueueResponse, Inv, TypeOK
  <1>9. TakesMidUpload => Len(body[c]) <= MAX_REQUEST_SIZE
    BY <1>1, SizesAssumption DEF ConnectionInv
  <1>10. InfoInv(c, a)'
    BY <1>1, <1>2, <1>6, <1>8, SizesAssumption DEF InfoInv, OnUploadDone
  <1>11. ReplyInv(c)'
    <2>1. CASE r = EmptyReply(500)
      BY <1>8, <2>1 DEF ReplyInv, EmptyReply
    <2>2. CASE /\ kind # "empty"
               /\ r = [status |-> 200, contentType |-> h, data |-> a]
      <3>1. reply'[c].data = a /\ reply'[c].contentType = h
        BY <1>8, <2>2
      <3>2. connectionCls'[c] = a
        BY DEF OnUploadDone
      <3> QED
        BY <1>6, <2>2, <3>1, <3>2 DEF ReplyInv
    <2> QED
      BY <1>5, <2>1, <2>2
  <1>12. ConnectionInv(c)'
    BY <1>1, <1>8, <1>9, <1>10, <1>11, SizesAssumption
    DEF ConnectionInv, OnUploadDone
  <1> QED
    BY <1>1, <1>7, <1>8, <1>12, OwnStep DEF OnUploadDone

\* Every step of the server preserves the invariant.
LEMMA NextInv == Inv /\ [Next]_vars => Inv'
  <1> SUFFICES ASSUME Inv, [Next]_vars PROVE Inv'
    OBVIOUS
  <1>0. TypeOK'
    BY NextTypeOK DEF Inv
  <1>1. CASE Start
    <2>1. InfoOwnership'
      BY <1>1 DEF Start, Inv, InfoOwnership, InProgress
    <2>2. ASSUME NEW c \in Conns PROVE ConnectionInv(c)'
      BY <1>0, <1>1, Fresh DEF Start, Inv, ConnectionInv
    <2> QED
      BY <1>0, <2>1, <2>2 DEF Inv
  <1>2. CASE Stop
    BY <1>0, <1>2, EndInv DEF Stop
  <1>3. ASSUME NEW h \in Handlers, RegisterFormatHandler(h) PROVE Inv'
    BY <1>0, <1>3, RegisterInv
  <1>4. ASSUME NEW c \in Conns, Connect(c) PROVE Inv'
    <2>1. InfoOwnership'
      BY <1>4 DEF Connect, Inv, InfoOwnership, InProgress
    <2>2. ConnectionInv(c)'
      BY <1>0, <1>4, Fresh DEF Connect, Inv, ConnectionInv, TypeOK
    <2>3. ASSUME NEW d \in Conns \ {c} PROVE ConnectionInv(d)'
      <3>1. phase'[d] = phase[d]
        BY <1>4 DEF Connect, Inv, TypeOK
      <3>2. connectionCls[d] # NULL => connectionCls[d] \in live
        BY DEF Inv, ConnectionInv, InfoInv
      <3>3. \A h : IsFirstMatch(h, request[d].route) =>
                     IsFirstMatch(h, request[d].route)'
        BY <1>4 DEF IsFirstMatch, Connect
      <3> QED
        BY <1>0, <1>4, <3>1, <3>2, <3>3, Frame DEF Connect
    <2> QED
      BY <1>0, <2>1, <2>2, <2>3 DEF Inv
  <1>5. ASSUME NEW c \in Conns, NEW m \in Methods, NEW r \in Routes,
               OnHeaders(c, m, r)
        PROVE  Inv'
    BY <1>0, <1>5, OnHeadersInv
  <1>6. ASSUME NEW c \in Conns, NEW d \in Chunks, OnUpload(c, d) PROVE Inv'
    BY <1>0, <1>6, OnUploadInv
  <1>7. ASSUME NEW c \in Conns, OnUploadFails(c) PROVE Inv'
    BY <1>0, <1>7, OnUploadFailsInv
  <1>8. ASSUME NEW c \in Conns, EndUpload(c) PROVE Inv'
    BY <1>0, <1>8, EndUploadInv
  <1>9. ASSUME NEW c \in Conns, OnUploadDone(c) PROVE Inv'
    BY <1>0, <1>9, OnUploadDoneInv
  <1>10. ASSUME NEW c \in Conns, Complete(c) PROVE Inv'
    <2>1. PICK Keep \in SUBSET {c} : Forget({c}, Keep)
      BY <1>10 DEF Complete
    <2> QED
      BY <1>0, <1>10, <2>1, EndInv DEF Complete
  <1>11. ASSUME NEW c \in Conns, Abort(c) PROVE Inv'
    BY <1>0, <1>11, EndInv DEF Abort
  <1>12. CASE UNCHANGED vars
    <2>1. InfoOwnership'
      BY <1>12 DEF vars, Inv, InfoOwnership, InProgress
    <2>2. ASSUME NEW c \in Conns PROVE ConnectionInv(c)'
      BY <1>12 DEF vars, Inv, ConnectionInv, InfoInv, ReplyInv, IsFirstMatch
    <2> QED
      BY <1>0, <2>1, <2>2 DEF Inv
  <1> QED
    BY <1>1, <1>2, <1>3, <1>4, <1>5, <1>6, <1>7, <1>8, <1>9, <1>10, <1>11,
       <1>12 DEF Next

\* The invariant holds in every reachable state.
THEOREM SpecInv == Spec => []Inv
  BY InitInv, NextInv, PTL DEF Spec

\* No ConnectionInfo is leaked, freed early or shared.
THEOREM SpecInfoOwnership == Spec => []InfoOwnership
  BY SpecInv, InvImplies, PTL

\* Every queued reply points into a live, written Writer of its own request.
THEOREM SpecReplyReadable == Spec => []ReplyReadable
  BY SpecInv, InvImplies, PTL

\* A request within the limit is answered from all of its own bytes.
THEOREM SpecBodyIntact == Spec => []BodyIntact
  BY SpecInv, InvImplies, PTL

\* No client can make a request hold, or a reader see, more than the limit.
THEOREM SpecBufferBounded == Spec => []BufferBounded
  BY SpecInv, InvImplies, PTL

\* A request beyond the limit is refused, when MHD takes replies mid-upload.
THEOREM SpecOversizeRefused == Spec => []OversizeRefused
  BY SpecInv, InvImplies, PTL

\* The first registered handler that accepts a request serves it.
THEOREM SpecFirstHandlerServes == Spec => []FirstHandlerServes
  BY SpecInv, InvImplies, PTL

-----------------------------------------------------------------------------
(***************************************************************************)
(* Queued replies.                                                         *)
(***************************************************************************)

\* The part of a step that ReplyFinal is about.
ReplyKept(e) ==
  phase[e] = "replying" /\ phase'[e] = "replying" =>
    /\ reply'[e] = reply[e]
    /\ reply[e].data # NULL =>
         info'[reply[e].data].Writer = info[reply[e].data].Writer

\* A reply reads from the ConnectionInfo of its own connection, which no other
\* connection points to.
LEMMA ReplyApart ==
  ASSUME Inv, NEW e \in Conns, reply[e].data # NULL
  PROVE  /\ reply[e].data \in Addr /\ reply[e].data \in live
         /\ \A c \in Conns \ {e} : connectionCls[c] # reply[e].data
  <1>1. reply[e].data = connectionCls[e] /\ connectionCls[e] # NULL
    BY DEF Inv, ConnectionInv, ReplyInv
  <1>2. connectionCls[e] \in live
    BY <1>1 DEF Inv, ConnectionInv, InfoInv
  <1>3. \A c \in Conns \ {e} : connectionCls[c] # connectionCls[e]
    BY <1>1 DEF Inv, InfoOwnership, InProgress
  <1>4. live \subseteq Addr
    BY DEF Inv, TypeOK
  <1> QED
    BY <1>1, <1>2, <1>3, <1>4

\* Queueing a response on one connection leaves the others' alone.
LEMMA QueueApart ==
  ASSUME Inv, NEW c \in Conns, NEW r, QueueResponse(c, r), NEW e \in Conns \ {c}
  PROVE  reply'[e] = reply[e]
  BY DEF QueueResponse, Inv, TypeOK

\* No step changes a reply that stays queued, or what it reads from.
LEMMA NextReplyKept ==
  ASSUME Inv, [Next]_vars, NEW e \in Conns
  PROVE  ReplyKept(e)
  <1>1. CASE UNCHANGED <<reply, info>>
    BY <1>1 DEF ReplyKept
  <1>2. CASE Stop
    BY <1>2 DEF Stop, Forget, ReplyKept
  <1>3. ASSUME NEW c \in Conns, NEW m \in Methods, NEW r \in Routes, OnHeaders(c, m, r)
        PROVE  ReplyKept(e)
    <2>1. CASE e = c
      BY <1>3, <2>1 DEF OnHeaders, ReplyKept
    <2>2. CASE e # c
      <3>1. reply'[e] = reply[e]
        BY <1>3, <2>2, QueueApart DEF OnHeaders
      <3>2. \A a \in live : info'[a] = info[a]
        BY <1>3 DEF OnHeaders, NewConnectionInfo, Inv, TypeOK
      <3> QED
        BY <3>1, <3>2, ReplyApart DEF ReplyKept
    <2> QED
      BY <2>1, <2>2
  <1>4. ASSUME NEW c \in Conns,
               \/ \E d \in Chunks : OnUpload(c, d)
               \/ OnUploadFails(c)
               \/ OnUploadDone(c)
        PROVE  ReplyKept(e)
    <2>1. CASE e = c
      BY <1>4, <2>1 DEF OnUpload, OnUploadFails, OnUploadDone, ReplyKept
    <2>2. CASE e # c
      <3>1. reply'[e] = reply[e]
        BY <1>4, <2>2, QueueApart DEF OnUpload, OnUploadFails, OnUploadDone, HandleRequest
      <3>2. \A a \in Addr \ {connectionCls[c]} : info'[a] = info[a]
        BY <1>4 DEF OnUpload, OnUploadFails, OnUploadDone, HandleRequest, Inv, TypeOK
      <3> QED
        BY <2>2, <3>1, <3>2, ReplyApart DEF ReplyKept
    <2> QED
      BY <2>1, <2>2
  <1>5. ASSUME NEW c \in Conns, Complete(c) \/ Abort(c)
        PROVE  ReplyKept(e)
    <2>1. PICK Keep : Forget({c}, Keep)
      BY <1>5 DEF Complete, Abort
    <2>2. info' = info
      BY <1>5 DEF Complete, Abort
    <2>3. CASE e = c
      BY <2>1, <2>3 DEF Forget, ReplyKept
    <2>4. CASE e # c
      BY <2>1, <2>2, <2>4 DEF Forget, ReplyKept
    <2> QED
      BY <2>3, <2>4
  <1> QED
    BY <1>1, <1>2, <1>3, <1>4, <1>5
    DEF Next, vars, Start, RegisterFormatHandler, Connect, EndUpload

\* Once a reply is queued, neither it nor what it reads from changes until the
\* request is over.
THEOREM SpecReplyFinal == Spec => ReplyFinal
  <1>1. Inv /\ [Next]_vars =>
          [\A c \in Conns : phase[c] = "replying" /\ phase'[c] = "replying" =>
             /\ reply'[c] = reply[c]
             /\ reply[c].data # NULL =>
                  info'[reply[c].data].Writer = info[reply[c].data].Writer]_vars
    BY NextReplyKept DEF ReplyKept
  <1> QED
    BY <1>1, SpecInv, PTL DEF Spec, ReplyFinal

-----------------------------------------------------------------------------
(***************************************************************************)
(* The server implements the abstract service: every step of one           *)
(* connection is seen as a step of that connection's request, and not at   *)
(* all by the others, because no ConnectionInfo is shared (Inv).           *)
(***************************************************************************)

\* Where the abstract service sees the request of a connection, and in which format.
StageOf(c) ==
  CASE phase[c] = "upload" -> "open"
    [] phase[c] = "uploaded" -> "ready"
    [] phase[c] = "replying" -> "answered"
    [] OTHER -> phase[c]
FormatOf(c) == IF InProgress(c) THEN info[connectionCls[c]].FormatHandler ELSE NULL

\* The service sees no change of connection e.
Unseen(e) ==
  /\ StageOf(e)' = StageOf(e)
  /\ FormatOf(e)' = FormatOf(e)
  /\ ReplyDocument(e)' = ReplyDocument(e)

\* That is so if MHD's record of it and its ConnectionInfo stay.
LEMMA UnseenIfSame ==
  ASSUME Inv, NEW e \in Conns,
         phase'[e] = phase[e], connectionCls'[e] = connectionCls[e], reply'[e] = reply[e],
         connectionCls[e] # NULL => info'[connectionCls[e]] = info[connectionCls[e]]
  PROVE  Unseen(e)
  <1>1. reply[e].data # NULL => reply[e].data = connectionCls[e]
    BY DEF Inv, ConnectionInv, ReplyInv
  <1>2. StageOf(e)' = StageOf(e)
    BY DEF StageOf
  <1>3. FormatOf(e)' = FormatOf(e)
    BY DEF FormatOf, InProgress
  <1>4. ReplyDocument(e)' = ReplyDocument(e)
    BY <1>1 DEF ReplyDocument
  <1> QED
    BY <1>2, <1>3, <1>4 DEF Unseen

\* A step of connection c that leaves the other ones and their ConnectionInfo.
LEMMA OthersUnseen ==
  ASSUME Inv, NEW c \in Conns,
         \A e \in Conns \ {c} : /\ phase'[e] = phase[e]
                                /\ connectionCls'[e] = connectionCls[e]
                                /\ reply'[e] = reply[e],
         \/ \A a \in live : info'[a] = info[a]
         \/ connectionCls[c] # NULL /\ \A a \in Addr \ {connectionCls[c]} : info'[a] = info[a]
  PROVE  \A e \in Conns \ {c} : Unseen(e)
  <1> SUFFICES ASSUME NEW e \in Conns \ {c} PROVE Unseen(e)
    OBVIOUS
  <1>1. connectionCls[e] # NULL =>
          /\ connectionCls[e] \in live /\ connectionCls[e] \in Addr
          /\ connectionCls[e] # connectionCls[c]
    BY DEF Inv, ConnectionInv, InfoInv, InfoOwnership, InProgress, TypeOK
  <1> QED
    BY <1>1, UnseenIfSame

\* The stage of a connection changes, and nothing else the service sees.
LEMMA StageStep ==
  ASSUME NEW c \in Conns, \A e \in Conns \ {c} : Unseen(e),
         FormatOf(c)' = FormatOf(c), ReplyDocument(c)' = ReplyDocument(c)
  PROVE  /\ [e \in Conns |-> StageOf(e)'] =
              [[e \in Conns |-> StageOf(e)] EXCEPT ![c] = StageOf(c)']
         /\ [e \in Conns |-> FormatOf(e)'] = [e \in Conns |-> FormatOf(e)]
         /\ [e \in Conns |-> ReplyDocument(e)'] = [e \in Conns |-> ReplyDocument(e)]
  BY DEF Unseen

\* It is answered.
LEMMA AnswerStep ==
  ASSUME NEW c \in Conns, \A e \in Conns \ {c} : Unseen(e), FormatOf(c)' = FormatOf(c),
         phase'[c] = "replying", NEW r, ReplyDocument(c)' = r
  PROVE  /\ Service!AnswerWith(c, r)
         /\ [e \in Conns |-> FormatOf(e)'] = [e \in Conns |-> FormatOf(e)]
  <1>1. StageOf(c)' = "answered"
    BY DEF StageOf
  <1>2. /\ [e \in Conns |-> StageOf(e)'] =
             [[e \in Conns |-> StageOf(e)] EXCEPT ![c] = "answered"]
        /\ [e \in Conns |-> ReplyDocument(e)'] =
             [[e \in Conns |-> ReplyDocument(e)] EXCEPT ![c] = r]
        /\ [e \in Conns |-> FormatOf(e)'] = [e \in Conns |-> FormatOf(e)]
    BY <1>1 DEF Unseen
  <1> QED
    BY <1>2 DEF Service!AnswerWith, StageOf

\* The headers open a request in the first format that accepts it, or refuse it.
LEMMA SeesOnHeaders ==
  ASSUME Inv, NEW c \in Conns, NEW m \in Methods, NEW r \in Routes, OnHeaders(c, m, r)
  PROVE  Service!SOpen(c, r) \/ Service!SRefuse(c, m, r)
  <1>1. /\ phase[c] = "idle" /\ connectionCls[c] = NULL /\ StageOf(c) = "idle"
        /\ reply[c] = NoReply
        /\ phase \in [Conns -> Phases] /\ DOMAIN reply = Conns /\ DOMAIN connectionCls = Conns
        /\ live \subseteq Addr /\ info \in [Addr -> ConnectionInfo]
        /\ UNCHANGED <<running, formatHandlers, body>>
    BY DEF OnHeaders, Inv, ConnectionInv, TypeOK, StageOf
  <1>2. CASE /\ m = "POST"
             /\ \E h \in Handlers : IsFirstMatch(h, r) /\ NewConnectionInfo(c, h)
             /\ phase' = [phase EXCEPT ![c] = "upload"]
             /\ UNCHANGED reply
    <2>1. PICK h \in Handlers : IsFirstMatch(h, r) /\ NewConnectionInfo(c, h)
      BY <1>2
    <2>2. PICK a \in Addr \ live :
            /\ info' = [info EXCEPT ![a] = [Buffer |-> << >>, FormatHandler |-> h,
                                            Writer |-> NoWriter]]
            /\ connectionCls' = [connectionCls EXCEPT ![c] = a]
      BY <2>1 DEF NewConnectionInfo
    <2>3. \A e \in Conns \ {c} : Unseen(e)
      BY <1>1, <1>2, <2>2, OthersUnseen
    <2>4. /\ StageOf(c)' = "open" /\ FormatOf(c)' = h
          /\ ReplyDocument(c)' = ReplyDocument(c)
      <3>1. phase'[c] = "upload" /\ connectionCls'[c] = a /\ info'[a].FormatHandler = h
        BY <1>1, <1>2, <2>2
      <3>2. a # NULL
        BY <2>2, NullAssumption
      <3>3. FormatOf(c)' = h
        BY <3>1, <3>2 DEF FormatOf, InProgress
      <3>4. reply'[c].data = NULL /\ reply[c].data = NULL
        BY <1>1, <1>2 DEF NoReply
      <3>5. ReplyDocument(c)' = ReplyDocument(c)
        BY <1>1, <1>2, <3>4 DEF ReplyDocument
      <3> QED
        BY <3>1, <3>3, <3>5 DEF StageOf
    <2>5. PICK i \in DOMAIN formatHandlers :
            /\ formatHandlers[i] = h
            /\ r \in CanHandleRequest[h]
            /\ \A j \in 1..(i - 1) : r \notin CanHandleRequest[formatHandlers[j]]
      BY <2>1 DEF IsFirstMatch
    <2>6. i \in Service!Accepted(r) /\ \A j \in Service!Accepted(r) : i <= j
      <3>1. formatHandlers \in Seq(Handlers)
        BY DEF Inv, TypeOK
      <3>2. DOMAIN formatHandlers = 1..Len(formatHandlers) /\ Len(formatHandlers) \in Nat
        BY <3>1
      <3> QED
        BY <2>5, <3>2 DEF Service!Accepted
    <2>7. /\ [e \in Conns |-> StageOf(e)'] =
               [[e \in Conns |-> StageOf(e)] EXCEPT ![c] = "open"]
          /\ [e \in Conns |-> FormatOf(e)'] =
               [[e \in Conns |-> FormatOf(e)] EXCEPT ![c] = formatHandlers[i]]
          /\ [e \in Conns |-> ReplyDocument(e)'] = [e \in Conns |-> ReplyDocument(e)]
      BY <2>3, <2>4, <2>5 DEF Unseen
    <2>8. Service!SOpen(c, r)
      BY <1>1, <2>6, <2>7 DEF Service!SOpen, StageOf, FormatOf
    <2> QED
      BY <2>8
  <1>3. ASSUME NEW s,
               \/ s = 405 /\ m # "POST"
               \/ s = 404 /\ m = "POST" /\ NoMatch(r)
               \/ s = 500 /\ m = "POST",
               QueueResponse(c, EmptyReply(s)), UNCHANGED <<live, info, connectionCls>>
        PROVE  Service!SRefuse(c, m, r)
    <2>1. /\ phase' = [phase EXCEPT ![c] = "replying"]
          /\ reply' = [reply EXCEPT ![c] = EmptyReply(s)]
      BY <1>1, <1>3 DEF QueueResponse
    <2>2. \A e \in Conns \ {c} : Unseen(e)
      BY <1>1, <1>3, <2>1, OthersUnseen
    <2>3. phase'[c] = "replying" /\ reply'[c] = EmptyReply(s)
      BY <1>1, <2>1
    <2>4. ReplyDocument(c)' = Service!Refusal(s)
      BY <2>3 DEF EmptyReply, ReplyDocument, Service!Refusal
    <2>5. FormatOf(c)' = FormatOf(c)
      BY <1>3 DEF FormatOf, InProgress
    <2>6. /\ Service!AnswerWith(c, Service!Refusal(s))
          /\ [e \in Conns |-> FormatOf(e)'] = [e \in Conns |-> FormatOf(e)]
      BY <2>2, <2>3, <2>4, <2>5, AnswerStep
    <2>7. NoMatch(r) <=> Service!Accepted(r) = {}
      BY DEF NoMatch, Service!Accepted
    <2> QED
      BY <1>1, <1>3, <2>6, <2>7 DEF Service!SRefuse, StageOf, FormatOf
  <1> QED
    BY <1>2, <1>3 DEF OnHeaders

\* An upload within the limit stays open; one beyond it is refused.
LEMMA SeesOnUpload ==
  ASSUME TakesMidUpload, Inv, NEW c \in Conns, NEW d \in Chunks, OnUpload(c, d)
  PROVE  Service!SUpload(c, d)
  <1> DEFINE a == connectionCls[c]
  <1>1. /\ phase[c] = "upload" /\ a # NULL /\ a \in Addr /\ reply[c] = NoReply
        /\ phase \in [Conns -> Phases] /\ DOMAIN reply = Conns
        /\ info \in [Addr -> ConnectionInfo]
        /\ connectionCls' = connectionCls
        /\ UNCHANGED <<running, formatHandlers>>
        /\ body' = [body EXCEPT ![c] = @ \o d]
    BY DEF OnUpload, Inv, ConnectionInv, TypeOK
  <1>2. info[a].Buffer = body[c]
    <2>1. Len(body[c]) \in Nat /\ MAX_REQUEST_SIZE \in Nat
      BY SizesAssumption DEF Inv, TypeOK
    <2>2. Len(body[c]) <= MAX_REQUEST_SIZE
      BY <1>1, <2>1 DEF Inv, ConnectionInv
    <2> QED
      BY <1>1, <2>2 DEF Inv, ConnectionInv, InfoInv
  <1>3. StageOf(c) = "open"
    BY <1>1 DEF StageOf
  <1>4. CASE TooLarge(a, d) /\ QueueResponse(c, EmptyReply(400)) /\ UNCHANGED info
    <2>1. /\ phase' = [phase EXCEPT ![c] = "replying"]
          /\ reply' = [reply EXCEPT ![c] = EmptyReply(400)]
      BY <1>1, <1>4 DEF QueueResponse, TakesMidUpload
    <2>2. \A e \in Conns \ {c} : Unseen(e)
      BY <1>1, <1>4, <2>1, OthersUnseen
    <2>3. phase'[c] = "replying" /\ reply'[c] = EmptyReply(400)
      BY <1>1, <2>1
    <2>4. ReplyDocument(c)' = Service!Refusal(400)
      BY <2>3 DEF EmptyReply, ReplyDocument, Service!Refusal
    <2>5. FormatOf(c)' = FormatOf(c)
      BY <1>1, <1>4 DEF FormatOf, InProgress
    <2>6. /\ Service!AnswerWith(c, Service!Refusal(400))
          /\ [e \in Conns |-> FormatOf(e)'] = [e \in Conns |-> FormatOf(e)]
      BY <2>2, <2>3, <2>4, <2>5, AnswerStep
    <2>7. Len(body[c]) + Len(d) > MAX_REQUEST_SIZE
      BY <1>2, <1>4 DEF TooLarge
    <2> QED
      BY <1>1, <1>3, <2>6, <2>7 DEF Service!SUpload, StageOf, FormatOf
  <1>5. CASE /\ ~TooLarge(a, d)
             /\ info' = [info EXCEPT ![a].Buffer = @ \o d]
             /\ UNCHANGED <<phase, reply>>
    <2>1. \A e \in Conns \ {c} : Unseen(e)
      <3>1. \A b \in Addr \ {a} : info'[b] = info[b]
        BY <1>1, <1>5
      <3> QED
        BY <1>1, <1>5, <3>1, OthersUnseen
    <2>2. Unseen(c)
      <3>1. info'[a].FormatHandler = info[a].FormatHandler
        BY <1>1, <1>5
      <3>2. FormatOf(c)' = FormatOf(c)
        BY <1>1, <3>1 DEF FormatOf, InProgress
      <3>3. StageOf(c)' = StageOf(c)
        BY <1>5 DEF StageOf
      <3>4. reply[c].data = NULL
        BY <1>1 DEF NoReply
      <3>5. ReplyDocument(c)' = ReplyDocument(c)
        BY <1>5, <3>4 DEF ReplyDocument
      <3> QED
        BY <3>2, <3>3, <3>5 DEF Unseen
    <2>3. /\ [e \in Conns |-> StageOf(e)'] = [e \in Conns |-> StageOf(e)]
          /\ [e \in Conns |-> FormatOf(e)'] = [e \in Conns |-> FormatOf(e)]
          /\ [e \in Conns |-> ReplyDocument(e)'] = [e \in Conns |-> ReplyDocument(e)]
      BY <2>1, <2>2 DEF Unseen
    <2>4. Len(body[c]) + Len(d) <= MAX_REQUEST_SIZE
      <3>1. Len(body[c]) \in Nat /\ Len(d) \in Nat /\ MAX_REQUEST_SIZE \in Nat
        BY SizesAssumption, ChunksAssumption DEF Inv, TypeOK
      <3> QED
        BY <1>2, <1>5, <3>1 DEF TooLarge
    <2> QED
      BY <1>1, <1>3, <2>3, <2>4 DEF Service!SUpload, StageOf, FormatOf
  <1> QED
    BY <1>4, <1>5 DEF OnUpload

\* A failed allocation is a refusal too.
LEMMA SeesOnUploadFails ==
  ASSUME TakesMidUpload, Inv, NEW c \in Conns, OnUploadFails(c)
  PROVE  Service!SFail(c)
  <1>1. /\ phase[c] = "upload"
        /\ phase \in [Conns -> Phases] /\ DOMAIN reply = Conns
        /\ UNCHANGED <<running, formatHandlers, body, info, connectionCls>>
    BY DEF OnUploadFails, Inv, TypeOK
  <1>2. StageOf(c) = "open"
    BY <1>1 DEF StageOf
  <1>3. /\ phase' = [phase EXCEPT ![c] = "replying"]
        /\ reply' = [reply EXCEPT ![c] = EmptyReply(500)]
    BY <1>1 DEF OnUploadFails, QueueResponse, TakesMidUpload
  <1>4. \A e \in Conns \ {c} : Unseen(e)
    BY <1>1, <1>3, OthersUnseen
  <1>5. phase'[c] = "replying" /\ reply'[c] = EmptyReply(500)
    BY <1>1, <1>3
  <1>6. ReplyDocument(c)' = Service!Refusal(500)
    BY <1>5 DEF EmptyReply, ReplyDocument, Service!Refusal
  <1>7. FormatOf(c)' = FormatOf(c)
    BY <1>1 DEF FormatOf, InProgress
  <1>8. /\ Service!AnswerWith(c, Service!Refusal(500))
        /\ [e \in Conns |-> FormatOf(e)'] = [e \in Conns |-> FormatOf(e)]
    BY <1>4, <1>5, <1>6, <1>7, AnswerStep
  <1> QED
    BY <1>1, <1>2, <1>8 DEF Service!SFail, StageOf, FormatOf

\* The answer is computed from all the client sent, in the format chosen when
\* the request was opened.
LEMMA SeesOnUploadDone ==
  ASSUME TakesMidUpload, Inv, NEW c \in Conns, OnUploadDone(c)
  PROVE  Service!SServe(c) \/ Service!SFail(c)
  <1> DEFINE a == connectionCls[c]
             h == info[a].FormatHandler
             Written(kind) ==
               info' = [info EXCEPT ![a] =
                          [Buffer |-> << >>, FormatHandler |-> h,
                           Writer |-> [kind |-> kind, format |-> h,
                                       body |-> info[a].Buffer]]]
  <1>1. /\ phase[c] = "uploaded" /\ a # NULL /\ a \in Addr
        /\ phase \in [Conns -> Phases] /\ DOMAIN reply = Conns
        /\ info \in [Addr -> ConnectionInfo]
        /\ UNCHANGED <<running, formatHandlers, body, connectionCls>>
    BY DEF OnUploadDone, Inv, TypeOK
  <1>2. info[a].Buffer = body[c]
    <2>1. Len(body[c]) \in Nat /\ MAX_REQUEST_SIZE \in Nat
      BY SizesAssumption DEF Inv, TypeOK
    <2>2. Len(body[c]) <= MAX_REQUEST_SIZE
      BY <1>1, <2>1 DEF Inv, ConnectionInv
    <2> QED
      BY <1>1, <2>2 DEF Inv, ConnectionInv, InfoInv
  <1>3. StageOf(c) = "ready"
    BY <1>1 DEF StageOf
  <1>4. ASSUME NEW kind, Written(kind), NEW r, QueueResponse(c, r)
        PROVE  /\ \A e \in Conns \ {c} : Unseen(e)
               /\ phase'[c] = "replying" /\ reply'[c] = r
               /\ FormatOf(c) = h /\ FormatOf(c)' = h
               /\ info'[a].Writer.kind = kind /\ info'[a].Writer.body = body[c]
    <2>1. /\ phase' = [phase EXCEPT ![c] = "replying"]
          /\ reply' = [reply EXCEPT ![c] = r]
      BY <1>1, <1>4 DEF QueueResponse
    <2>2. /\ info'[a].Writer.kind = kind /\ info'[a].Writer.body = body[c]
          /\ info'[a].FormatHandler = h
      BY <1>1, <1>2, <1>4
    <2>3. \A b \in Addr \ {a} : info'[b] = info[b]
      BY <1>1, <1>4
    <2>4. \A e \in Conns \ {c} : Unseen(e)
      BY <1>1, <2>1, <2>3, OthersUnseen
    <2>5. FormatOf(c) = h /\ FormatOf(c)' = h
      BY <1>1, <2>2 DEF FormatOf, InProgress
    <2> QED
      BY <1>1, <2>1, <2>2, <2>4, <2>5
  <1>5. ASSUME NEW kind \in {"result", "fault"}, Written(kind),
               QueueResponse(c, [status |-> 200, contentType |-> h, data |-> a])
        PROVE  Service!SServe(c)
    <2>1. PICK r : r = [status |-> 200, contentType |-> h, data |-> a]
      OBVIOUS
    <2>2. PICK answer :
            answer = [status |-> 200, format |-> h, kind |-> kind, body |-> body[c]]
      OBVIOUS
    <2>3. /\ \A e \in Conns \ {c} : Unseen(e)
          /\ phase'[c] = "replying" /\ reply'[c] = r
          /\ FormatOf(c) = h /\ FormatOf(c)' = h
          /\ info'[a].Writer.kind = kind /\ info'[a].Writer.body = body[c]
      BY <1>4, <1>5, <2>1
    <2>4. ReplyDocument(c)' = answer
      <3>1. /\ reply'[c].data = a /\ reply'[c].status = 200
            /\ reply'[c].contentType = h
        BY <2>1, <2>3
      <3> QED
        BY <1>1, <2>2, <2>3, <3>1 DEF ReplyDocument
    <2>5. FormatOf(c)' = FormatOf(c)
      BY <2>3
    <2>6. /\ Service!AnswerWith(c, answer)
          /\ [e \in Conns |-> FormatOf(e)'] = [e \in Conns |-> FormatOf(e)]
      BY <2>3, <2>4, <2>5, AnswerStep
    <2>7. [e \in Conns |-> FormatOf(e)][c] = h
      BY <2>3
    <2> HIDE DEF h
    <2>8. /\ [e \in Conns |-> StageOf(e)'] =
               [[e \in Conns |-> StageOf(e)] EXCEPT ![c] = "answered"]
          /\ [e \in Conns |-> ReplyDocument(e)'] =
               [[e \in Conns |-> ReplyDocument(e)] EXCEPT ![c] = answer]
      BY <2>6 DEF Service!AnswerWith, StageOf
    <2>9. answer = [status |-> 200, format |-> [e \in Conns |-> FormatOf(e)][c],
                    kind |-> kind, body |-> body[c]]
      BY <2>2, <2>7
    <2>10. [e \in Conns |-> StageOf(e)][c] = "ready"
      BY <1>3
    <2>11. UNCHANGED <<running, formatHandlers, [e \in Conns |-> FormatOf(e)], body>>
      BY <1>1, <2>6
    <2>12. \E k \in {"result", "fault"} :
             /\ [e \in Conns |-> StageOf(e)'] =
                  [[e \in Conns |-> StageOf(e)] EXCEPT ![c] = "answered"]
             /\ [e \in Conns |-> ReplyDocument(e)'] =
                  [[e \in Conns |-> ReplyDocument(e)] EXCEPT
                     ![c] = [status |-> 200, format |-> [e \in Conns |-> FormatOf(e)][c],
                             kind |-> k, body |-> body[c]]]
      BY <2>8, <2>9
    <2> QED
      BY <2>10, <2>11, <2>12
      DEF Service!SServe, Service!AnswerWith, StageOf, FormatOf
  <1>6. ASSUME Written("empty"), QueueResponse(c, EmptyReply(500))
        PROVE  Service!SFail(c)
    <2>1. /\ \A e \in Conns \ {c} : Unseen(e)
          /\ phase'[c] = "replying" /\ reply'[c] = EmptyReply(500)
          /\ FormatOf(c)' = FormatOf(c)
      <3>1. PICK r : r = EmptyReply(500)
        OBVIOUS
      <3>2. PICK kind : kind = "empty"
        OBVIOUS
      <3>3. Written(kind) /\ QueueResponse(c, r)
        BY <1>6, <3>1, <3>2
      <3> HIDE DEF Written
      <3> QED
        BY <1>4, <3>1, <3>3
    <2>2. ReplyDocument(c)' = Service!Refusal(500)
      BY <2>1 DEF EmptyReply, ReplyDocument, Service!Refusal
    <2>3. /\ Service!AnswerWith(c, Service!Refusal(500))
          /\ [e \in Conns |-> FormatOf(e)'] = [e \in Conns |-> FormatOf(e)]
      BY <2>1, <2>2, AnswerStep
    <2> QED
      BY <1>1, <1>3, <2>3 DEF Service!SFail, StageOf, FormatOf
  <1> QED
    BY <1>5, <1>6 DEF OnUploadDone, HandleRequest

\* The steps of MHD alone.
LEMMA SeesMHD ==
  ASSUME Inv, NEW c \in Conns
  PROVE  /\ Connect(c) => Service!SConnect(c)
         /\ EndUpload(c) => Service!SEndUpload(c)
  <1>1. ASSUME phase[c] \in {"closed", "upload"},
               NEW p \in Phases, phase' = [phase EXCEPT ![c] = p],
               UNCHANGED <<live, info, connectionCls, reply>>
        PROVE  /\ [e \in Conns |-> StageOf(e)'] =
                    [[e \in Conns |-> StageOf(e)] EXCEPT ![c] = StageOf(c)']
               /\ [e \in Conns |-> FormatOf(e)'] = [e \in Conns |-> FormatOf(e)]
               /\ [e \in Conns |-> ReplyDocument(e)'] = [e \in Conns |-> ReplyDocument(e)]
    <2>1. phase \in [Conns -> Phases]
      BY DEF Inv, TypeOK
    <2>2. \A e \in Conns \ {c} : Unseen(e)
      BY <1>1, <2>1, OthersUnseen
    <2>3. FormatOf(c)' = FormatOf(c) /\ ReplyDocument(c)' = ReplyDocument(c)
      BY <1>1 DEF FormatOf, InProgress, ReplyDocument
    <2> QED
      BY <2>2, <2>3, StageStep
  <1>2. phase \in [Conns -> Phases]
    BY DEF Inv, TypeOK
  <1>3. ASSUME Connect(c) PROVE Service!SConnect(c)
    <2>1. /\ phase' = [phase EXCEPT ![c] = "idle"] /\ phase[c] = "closed"
          /\ UNCHANGED <<running, formatHandlers, live, info, connectionCls, reply, body>>
      BY <1>3 DEF Connect
    <2>2. StageOf(c) = "closed" /\ StageOf(c)' = "idle"
      BY <1>2, <2>1 DEF StageOf
    <2>3. /\ [e \in Conns |-> StageOf(e)'] =
               [[e \in Conns |-> StageOf(e)] EXCEPT ![c] = "idle"]
          /\ [e \in Conns |-> FormatOf(e)'] = [e \in Conns |-> FormatOf(e)]
          /\ [e \in Conns |-> ReplyDocument(e)'] = [e \in Conns |-> ReplyDocument(e)]
      BY <1>1, <2>1, <2>2 DEF Phases
    <2> QED
      BY <1>3, <2>1, <2>2, <2>3 DEF Connect, Service!SConnect, StageOf, FormatOf
  <1>4. ASSUME EndUpload(c) PROVE Service!SEndUpload(c)
    <2>1. /\ phase' = [phase EXCEPT ![c] = "uploaded"] /\ phase[c] = "upload"
          /\ UNCHANGED <<running, formatHandlers, live, info, connectionCls, reply, body>>
      BY <1>4 DEF EndUpload
    <2>2. StageOf(c) = "open" /\ StageOf(c)' = "ready"
      BY <1>2, <2>1 DEF StageOf
    <2>3. /\ [e \in Conns |-> StageOf(e)'] =
               [[e \in Conns |-> StageOf(e)] EXCEPT ![c] = "ready"]
          /\ [e \in Conns |-> FormatOf(e)'] = [e \in Conns |-> FormatOf(e)]
          /\ [e \in Conns |-> ReplyDocument(e)'] = [e \in Conns |-> ReplyDocument(e)]
      BY <1>1, <2>1, <2>2 DEF Phases
    <2> QED
      BY <2>1, <2>2, <2>3 DEF Service!SEndUpload, StageOf, FormatOf
  <1> QED
    BY <1>3, <1>4

\* A request that is over leaves nothing the service can see.
LEMMA SeesForget ==
  ASSUME NEW S \in SUBSET Conns, NEW Keep, Forget(S, Keep),
         UNCHANGED <<formatHandlers, info>>,
         NEW next, \A c \in S : next = IF c \in Keep THEN "idle" ELSE "closed"
  PROVE  Service!Over(S, next)
  <1>1. ASSUME NEW e \in S
        PROVE  /\ StageOf(e)' = next
               /\ FormatOf(e)' = NULL
               /\ ReplyDocument(e)' = Service!NoAnswer
    <2>1. phase'[e] = next /\ connectionCls'[e] = NULL /\ reply'[e] = NoReply
      BY <1>1 DEF Forget
    <2>2. next \in {"idle", "closed"}
      BY <1>1
    <2>3. StageOf(e)' = next
      BY <2>1, <2>2 DEF StageOf
    <2>4. FormatOf(e)' = NULL
      BY <2>1 DEF FormatOf, InProgress
    <2>5. ReplyDocument(e)' = Service!NoAnswer
      BY <2>1 DEF NoReply, ReplyDocument, Service!NoAnswer, Service!Refusal
    <2> QED
      BY <2>3, <2>4, <2>5
  <1>2. ASSUME NEW e \in Conns \ S
        PROVE  /\ StageOf(e)' = StageOf(e)
               /\ FormatOf(e)' = FormatOf(e)
               /\ ReplyDocument(e)' = ReplyDocument(e)
    <2>1. /\ phase'[e] = phase[e] /\ connectionCls'[e] = connectionCls[e]
          /\ reply'[e] = reply[e]
      BY <1>2 DEF Forget
    <2>2. StageOf(e)' = StageOf(e)
      BY <2>1 DEF StageOf
    <2>3. FormatOf(e)' = FormatOf(e)
      BY <2>1 DEF FormatOf, InProgress
    <2>4. ReplyDocument(e)' = ReplyDocument(e)
      BY <2>1 DEF ReplyDocument
    <2> QED
      BY <2>2, <2>3, <2>4
  <1>3. body' = [e \in Conns |-> IF e \in S THEN << >> ELSE body[e]]
    BY DEF Forget
  <1>4. [e \in Conns |-> StageOf(e)'] =
          [e \in Conns |-> IF e \in S THEN next ELSE [d \in Conns |-> StageOf(d)][e]]
    BY <1>1, <1>2
  <1>5. [e \in Conns |-> FormatOf(e)'] =
          [e \in Conns |-> IF e \in S THEN NULL ELSE [d \in Conns |-> FormatOf(d)][e]]
    BY <1>1, <1>2
  <1>6. [e \in Conns |-> ReplyDocument(e)'] =
          [e \in Conns |-> IF e \in S THEN Service!NoAnswer
                           ELSE [d \in Conns |-> ReplyDocument(d)][e]]
    BY <1>1, <1>2
  <1> QED
    BY <1>3, <1>4, <1>5, <1>6 DEF Service!Over, StageOf, FormatOf

\* The end of a request is the end of it for the service.
LEMMA SeesEnd ==
  ASSUME Inv, NEW c \in Conns
  PROVE  /\ Complete(c) => Service!SDone(c) \/ Service!SLeave(c)
         /\ Abort(c) => Service!SLeave(c)
  <1>1. phase[c] \in Phases
    BY DEF Inv, TypeOK
  <1>2. ASSUME NEW next, NEW Keep, Forget({c}, Keep),
               UNCHANGED <<formatHandlers, info>>,
               next = IF c \in Keep THEN "idle" ELSE "closed"
        PROVE  Service!Over({c}, next)
    <2>1. \A d \in {c} : next = IF d \in Keep THEN "idle" ELSE "closed"
      BY <1>2
    <2> QED
      BY <1>2, <2>1, SeesForget
  <1>3. ASSUME Complete(c) PROVE Service!SDone(c) \/ Service!SLeave(c)
    <2>1. PICK Keep \in SUBSET {c} : Forget({c}, Keep)
      BY <1>3 DEF Complete
    <2>2. /\ phase[c] = "replying" /\ StageOf(c) = "answered"
          /\ UNCHANGED <<running, formatHandlers, info>>
      BY <1>3 DEF Complete, StageOf
    <2>3. CASE c \in Keep
      <3>1. Service!Over({c}, "idle")
        BY <1>2, <2>1, <2>2, <2>3
      <3> QED
        BY <2>2, <3>1 DEF Service!SDone, StageOf
    <2>4. CASE c \notin Keep
      <3>1. Service!Over({c}, "closed")
        BY <1>2, <2>1, <2>2, <2>4
      <3> QED
        BY <2>2, <3>1 DEF Service!SLeave, StageOf
    <2> QED
      BY <2>3, <2>4
  <1>4. ASSUME Abort(c) PROVE Service!SLeave(c)
    <2>1. /\ phase[c] # "closed" /\ Forget({c}, {})
          /\ UNCHANGED <<running, formatHandlers, info>>
      BY <1>4 DEF Abort
    <2>2. StageOf(c) # "closed"
      BY <1>1, <2>1 DEF StageOf, Phases
    <2>3. Service!Over({c}, "closed")
      BY <1>2, <2>1
    <2> QED
      BY <2>1, <2>2, <2>3 DEF Service!SLeave, StageOf
  <1> QED
    BY <1>3, <1>4

\* The life of the server is the life of the service.
LEMMA SeesLife ==
  /\ Stop => Service!SStop
  /\ Start => Service!SStart
  /\ \A h \in Handlers : RegisterFormatHandler(h) => Service!SRegister(h)
  <1>1. ASSUME Stop PROVE Service!SStop
    <2>1. /\ running /\ running' = FALSE /\ Forget(Conns, {})
          /\ UNCHANGED <<formatHandlers, info>>
      BY <1>1 DEF Stop
    <2>2. \A d \in Conns : "closed" = IF d \in {} THEN "idle" ELSE "closed"
      OBVIOUS
    <2>3. Service!Over(Conns, "closed")
      BY <2>1, <2>2, SeesForget
    <2> QED
      BY <2>1, <2>3 DEF Service!SStop
  <1>2. ASSUME UNCHANGED <<info, phase, connectionCls, reply>>
        PROVE  /\ [e \in Conns |-> StageOf(e)'] = [e \in Conns |-> StageOf(e)]
               /\ [e \in Conns |-> FormatOf(e)'] = [e \in Conns |-> FormatOf(e)]
               /\ [e \in Conns |-> ReplyDocument(e)'] = [e \in Conns |-> ReplyDocument(e)]
    BY <1>2 DEF StageOf, FormatOf, InProgress, ReplyDocument
  <1>3. ASSUME Start PROVE Service!SStart
    BY <1>2, <1>3 DEF Start, Service!SStart, StageOf, FormatOf
  <1>4. ASSUME NEW h \in Handlers, RegisterFormatHandler(h) PROVE Service!SRegister(h)
    BY <1>2, <1>4 DEF RegisterFormatHandler, Service!SRegister, StageOf, FormatOf
  <1> QED
    BY <1>1, <1>3, <1>4

\* The server starts as the service does.
LEMMA SeesInit == Init => Service!SInit
  <1> SUFFICES ASSUME Init PROVE Service!SInit
    OBVIOUS
  <1>1. ASSUME NEW c \in Conns
        PROVE  /\ StageOf(c) = "closed" /\ FormatOf(c) = NULL
               /\ ReplyDocument(c) = Service!NoAnswer
    BY <1>1 DEF Init, StageOf, FormatOf, InProgress, NoReply, ReplyDocument,
                Service!NoAnswer, Service!Refusal
  <1>2. /\ [c \in Conns |-> StageOf(c)] = [c \in Conns |-> "closed"]
        /\ [c \in Conns |-> FormatOf(c)] = [c \in Conns |-> NULL]
        /\ [c \in Conns |-> ReplyDocument(c)] = [c \in Conns |-> Service!NoAnswer]
    BY <1>1
  <1> QED
    BY <1>2 DEF Init, Service!SInit, StageOf, FormatOf

\* Every step of the server is a step of the service, or none that it sees.
LEMMA SeesNext ==
  ASSUME TakesMidUpload, Inv, [Next]_vars
  PROVE  [Service!SNext]_Service!svars
  <1>1. CASE UNCHANGED vars
    <2>1. /\ [e \in Conns |-> StageOf(e)'] = [e \in Conns |-> StageOf(e)]
          /\ [e \in Conns |-> FormatOf(e)'] = [e \in Conns |-> FormatOf(e)]
          /\ [e \in Conns |-> ReplyDocument(e)'] = [e \in Conns |-> ReplyDocument(e)]
      BY <1>1 DEF vars, StageOf, FormatOf, InProgress, ReplyDocument
    <2> QED
      BY <1>1, <2>1 DEF vars, Service!svars, StageOf, FormatOf
  <1>2. CASE Next
    <2>1. ASSUME NEW c \in Conns, NEW m \in Methods, NEW r \in Routes, OnHeaders(c, m, r)
          PROVE  Service!SNext
      BY <2>1, SeesOnHeaders DEF Service!SNext
    <2>2. ASSUME NEW c \in Conns, NEW d \in Chunks, OnUpload(c, d)
          PROVE  Service!SNext
      BY <2>2, SeesOnUpload DEF Service!SNext
    <2>3. ASSUME NEW c \in Conns, OnUploadFails(c) \/ OnUploadDone(c)
          PROVE  Service!SNext
      BY <2>3, SeesOnUploadFails, SeesOnUploadDone DEF Service!SNext
    <2>4. ASSUME NEW c \in Conns, Connect(c) \/ EndUpload(c)
          PROVE  Service!SNext
      BY <2>4, SeesMHD DEF Service!SNext
    <2>5. ASSUME NEW c \in Conns, Complete(c) \/ Abort(c)
          PROVE  Service!SNext
      BY <2>5, SeesEnd DEF Service!SNext
    <2>6. ASSUME \/ Start \/ Stop \/ \E h \in Handlers : RegisterFormatHandler(h)
          PROVE  Service!SNext
      BY <2>6, SeesLife DEF Service!SNext
    <2> QED
      BY <1>2, <2>1, <2>2, <2>3, <2>4, <2>5, <2>6 DEF Next
  <1> QED
    BY <1>1, <1>2

\* The safety of ImplementsService: every behaviour of the server is one of the
\* abstract service, if MHD takes a reply mid-upload.
THEOREM SpecImplements ==
  ASSUME TakesMidUpload
  PROVE  Spec => Service!SInit /\ [][Service!SNext]_Service!svars
  <1>1. Inv /\ [Next]_vars => [Service!SNext]_Service!svars
    BY SeesNext
  <1> QED
    BY <1>1, SeesInit, SpecInv, PTL DEF Spec
=============================================================================
