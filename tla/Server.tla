------------------------------- MODULE Server -------------------------------
(***************************************************************************)
(* The HTTP server of xsonrpc (src/server.cpp).  libmicrohttpd (MHD below) *)
(* parses HTTP and calls Server::AccessHandler once for the headers of a   *)
(* request, once for each piece of its body, and once more with an empty   *)
(* piece when the body is complete; it calls Server::OnRequestCompleted    *)
(* when it is done with the request.  Everything runs in the thread that   *)
(* calls Server::Run / OnReadableFileDescriptor, so one callback is one    *)
(* step, and the callbacks of different connections interleave.            *)
(*                                                                         *)
(* The ConnectionInfo objects live in a heap of addresses, because what    *)
(* can go wrong is their lifetime: MHD holds a pointer to one in           *)
(* *connectionCls, and the reply it is sending points into one's Writer    *)
(* (MHD_RESPMEM_PERSISTENT).  A freed cell keeps its old contents until    *)
(* the address is handed out again.                                        *)
(***************************************************************************)
EXTENDS Naturals, Sequences

CONSTANTS
  Conns,             \* the connections MHD can hold
  Addr,              \* the addresses operator new can return
  NULL,              \* the null pointer
  Handlers,          \* the FormatHandler objects of the application
  Methods,           \* the HTTP methods clients use
  Routes,            \* the pairs of a URL and a Content-Type clients use
  CanHandleRequest,  \* the routes each handler accepts
  Byte,              \* the contents of a byte of a body
  Chunks,            \* the pieces of a body MHD delivers in one call
  MAX_REQUEST_SIZE,  \* the largest body, in bytes
  MidUploadReply,    \* may MHD_queue_response take, or refuse, a reply mid-upload?
  MaxHandlers,       \* bound: handlers registered
  MaxUpload          \* bound: bytes a client sends in one body

ASSUME NullAssumption == NULL \notin Addr \cup Handlers \cup Methods \cup Routes
ASSUME ChunksAssumption == Chunks \subseteq Seq(Byte) \ {<< >>}
ASSUME SizesAssumption ==
  /\ MAX_REQUEST_SIZE \in Nat
  /\ MaxHandlers \in Nat
  /\ MaxUpload \in Nat
ASSUME HandlersAssumption == CanHandleRequest \in [Handlers -> SUBSET Routes]
ASSUME MHDAssumption == MidUploadReply \in SUBSET BOOLEAN

VARIABLES
  running,         \* the Server object, and so the daemon, exists
  formatHandlers,  \* myFormatHandlers, in the order of registration
  live,            \* the addresses that hold a ConnectionInfo
  info,            \* the contents of every address
  phase,           \* MHD: where it is in each connection's current request
  request,         \* MHD: the method, URL and Content-Type it parsed
  connectionCls,   \* MHD: the pointer it keeps for the application
  reply,           \* MHD: the response queued on the connection
  body             \* the body the client has sent so far, all of it

vars == <<running, formatHandlers, live, info, phase, request, connectionCls,
          reply, body>>

-----------------------------------------------------------------------------
(***************************************************************************)
(* State.                                                                  *)
(***************************************************************************)

\* What a Writer holds: nothing yet, or the response to a body, in a format.
Document == [kind : {"none", "empty", "result", "fault"},
             format : Handlers \cup {NULL}, body : Seq(Byte)]

\* A null std::unique_ptr<Writer>.
NoWriter == [kind |-> "none", format |-> NULL, body |-> << >>]

ConnectionInfo == [Buffer : Seq(Byte), FormatHandler : Handlers \cup {NULL},
                   Writer : Document]

\* A response queued on a connection; data is the ConnectionInfo whose Writer
\* it reads from, NULL when the response has no body.
Reply == [status : {0, 200, 400, 404, 405, 500},
          contentType : Handlers \cup {NULL}, data : Addr \cup {NULL}]

NoReply == [status |-> 0, contentType |-> NULL, data |-> NULL]
EmptyReply(status) == [status |-> status, contentType |-> NULL, data |-> NULL]

Phases == {"closed", "idle", "upload", "uploaded", "replying"}

NoRequest == [method |-> NULL, route |-> NULL]

TypeOK ==
  /\ running \in BOOLEAN
  /\ formatHandlers \in Seq(Handlers)
  /\ live \subseteq Addr
  /\ info \in [Addr -> ConnectionInfo]
  /\ phase \in [Conns -> Phases]
  /\ request \in [Conns -> [method : Methods \cup {NULL},
                            route : Routes \cup {NULL}]]
  /\ connectionCls \in [Conns -> Addr \cup {NULL}]
  /\ reply \in [Conns -> Reply]
  /\ body \in [Conns -> Seq(Byte)]

Init ==
  /\ running = FALSE
  /\ formatHandlers = << >>
  /\ live = {}
  /\ info = [a \in Addr |-> [Buffer |-> << >>, FormatHandler |-> NULL,
                             Writer |-> NoWriter]]
  /\ phase = [c \in Conns |-> "closed"]
  /\ request = [c \in Conns |-> NoRequest]
  /\ connectionCls = [c \in Conns |-> NULL]
  /\ reply = [c \in Conns |-> NoReply]
  /\ body = [c \in Conns |-> << >>]

-----------------------------------------------------------------------------
(***************************************************************************)
(* The life of the Server object.                                          *)
(***************************************************************************)

\* Server::Server: the daemon starts, with no handler.  (When it cannot, the
\* constructor throws and there is no object: nothing changes.)
Start ==
  /\ ~running
  /\ running' = TRUE
  /\ formatHandlers' = << >>
  /\ UNCHANGED <<live, info, phase, request, connectionCls, reply, body>>

\* Variant: a null pointer is registered.
RegisterNothing(h) ==
  /\ running
  /\ Len(formatHandlers) < MaxHandlers
  /\ formatHandlers' = Append(formatHandlers, NULL)
  /\ UNCHANGED <<running, live, info, phase, request, connectionCls, reply,
                 body>>

\* Variant: the newest handler comes first.
PrependFormatHandler(h) ==
  /\ running
  /\ Len(formatHandlers) < MaxHandlers
  /\ formatHandlers' = <<h>> \o formatHandlers
  /\ UNCHANGED <<running, live, info, phase, request, connectionCls, reply,
                 body>>

\* Server::RegisterFormatHandler
RegisterFormatHandler(h) ==
  /\ running
  /\ Len(formatHandlers) < MaxHandlers
  /\ formatHandlers' = Append(formatHandlers, h)
  /\ UNCHANGED <<running, live, info, phase, request, connectionCls, reply,
                 body>>

-----------------------------------------------------------------------------
(***************************************************************************)
(* What the server relies on in libmicrohttpd.  MHD clears *connectionCls  *)
(* when a request is over (AccessHandler takes NULL for a new request) and *)
(* takes a response after the headers and after the whole body; whether it *)
(* takes one between two pieces of a body depends on its version.          *)
(***************************************************************************)

Connect(c) ==
  /\ running
  /\ phase[c] = "closed"
  /\ phase' = [phase EXCEPT ![c] = "idle"]
  /\ UNCHANGED <<running, formatHandlers, live, info, request, connectionCls,
                 reply, body>>

\* The linked MHD takes every reply mid-upload.
TakesMidUpload == FALSE \notin MidUploadReply

\* MHD_queue_response.  AccessHandler ignores its result.
QueueResponse(c, r) ==
  \/ /\ phase[c] = "upload" => TRUE \in MidUploadReply
     /\ phase' = [phase EXCEPT ![c] = "replying"]
     /\ reply' = [reply EXCEPT ![c] = r]
  \/ /\ phase[c] = "upload"
     /\ FALSE \in MidUploadReply
     /\ UNCHANGED <<phase, reply>>

\* The client has sent the last byte of the body.
EndUpload(c) ==
  /\ phase[c] = "upload"
  /\ phase' = [phase EXCEPT ![c] = "uploaded"]
  /\ UNCHANGED <<running, formatHandlers, live, info, request, connectionCls,
                 reply, body>>

-----------------------------------------------------------------------------
(***************************************************************************)
(* Server::AccessHandler.                                                  *)
(***************************************************************************)

\* Variant: the loop keeps the last match.
IsLastMatch(h, r) ==
  \E i \in DOMAIN formatHandlers :
    /\ formatHandlers[i] = h
    /\ r \in CanHandleRequest[h]
    /\ \A j \in (i + 1)..Len(formatHandlers) :
         r \notin CanHandleRequest[formatHandlers[j]]

\* The loop over myFormatHandlers stops at h.
IsFirstMatch(h, r) ==
  \E i \in DOMAIN formatHandlers :
    /\ formatHandlers[i] = h
    /\ r \in CanHandleRequest[h]
    /\ \A j \in 1..(i - 1) : r \notin CanHandleRequest[formatHandlers[j]]

NoMatch(r) ==
  \A i \in DOMAIN formatHandlers : r \notin CanHandleRequest[formatHandlers[i]]

\* Variant: one ConnectionInfo is kept and reused for every request.
SharedConnectionInfo(c, h) ==
  \E a \in Addr :
    /\ live = {} \/ a \in live
    /\ live' = live \cup {a}
    /\ info' = [info EXCEPT ![a] = [Buffer |-> << >>, FormatHandler |-> h,
                                    Writer |-> NoWriter]]
    /\ connectionCls' = [connectionCls EXCEPT ![c] = a]

\* new ConnectionInfo{{}, handler, {}}
NewConnectionInfo(c, h) ==
  \E a \in Addr \ live :
    /\ live' = live \cup {a}
    /\ info' = [info EXCEPT ![a] = [Buffer |-> << >>, FormatHandler |-> h,
                                    Writer |-> NoWriter]]
    /\ connectionCls' = [connectionCls EXCEPT ![c] = a]

\* The first call for a request, with its headers: it is refused, or gets a
\* ConnectionInfo and its body is awaited.  Allocation can fail, of the Content-Type
\* before any handler is asked, and a handler can throw.
OnHeaders(c, m, r) ==
  /\ running
  /\ phase[c] = "idle"
  /\ connectionCls[c] = NULL
  /\ request' = [request EXCEPT ![c] = [method |-> m, route |-> r]]
  /\ \/ /\ m # "POST"
        /\ QueueResponse(c, EmptyReply(405))
        /\ UNCHANGED <<live, info, connectionCls>>
     \/ /\ m = "POST"
        /\ \E h \in Handlers : IsFirstMatch(h, r) /\ NewConnectionInfo(c, h)
        /\ phase' = [phase EXCEPT ![c] = "upload"]
        /\ UNCHANGED reply
     \/ /\ m = "POST"
        /\ NoMatch(r)
        /\ QueueResponse(c, EmptyReply(404))
        /\ UNCHANGED <<live, info, connectionCls>>
     \/ /\ m = "POST"
        /\ QueueResponse(c, EmptyReply(500))
        /\ UNCHANGED <<live, info, connectionCls>>
  /\ UNCHANGED <<running, formatHandlers, body>>

\* Variant: the size is checked before the piece is counted.
TooLargeAlready(a, d) == Len(info[a].Buffer) > MAX_REQUEST_SIZE

TooLarge(a, d) == Len(info[a].Buffer) + Len(d) > MAX_REQUEST_SIZE

\* Variant: each piece replaces the Buffer.
OnUploadAssigns(c, d) ==
  /\ phase[c] = "upload"
  /\ connectionCls[c] # NULL
  /\ Len(body[c]) + Len(d) <= MaxUpload
  /\ body' = [body EXCEPT ![c] = @ \o d]
  /\ info' = [info EXCEPT ![connectionCls[c]].Buffer = d]
  /\ UNCHANGED <<running, formatHandlers, live, phase, request, connectionCls,
                 reply>>

\* A call with a piece of the body: it goes to the Buffer, unless that would
\* exceed the limit; then it is dropped and the request refused.
OnUpload(c, d) ==
  /\ phase[c] = "upload"
  /\ connectionCls[c] # NULL
  /\ Len(body[c]) + Len(d) <= MaxUpload
  /\ body' = [body EXCEPT ![c] = @ \o d]
  /\ LET a == connectionCls[c] IN
       \/ /\ TooLarge(a, d)
          /\ QueueResponse(c, EmptyReply(400))
          /\ UNCHANGED info
       \/ /\ ~TooLarge(a, d)
          /\ info' = [info EXCEPT ![a].Buffer = @ \o d]
          /\ UNCHANGED <<phase, reply>>
  /\ UNCHANGED <<running, formatHandlers, live, request, connectionCls>>

\* Buffer.insert throws: the piece is not consumed, so MHD offers it again if
\* it does not take the reply.
OnUploadFails(c) ==
  /\ phase[c] = "upload"
  /\ connectionCls[c] # NULL
  /\ QueueResponse(c, EmptyReply(500))
  /\ UNCHANGED <<running, formatHandlers, live, info, request, connectionCls,
                 body>>

\* Variant: the Writer is a local variable of HandleRequest.
HandleRequestLocalWriter(c) ==
  LET a == connectionCls[c]
      h == info[a].FormatHandler
  IN  /\ info' = [info EXCEPT ![a] = [Buffer |-> << >>, FormatHandler |-> h,
                                      Writer |-> NoWriter]]
      /\ QueueResponse(c, [status |-> 200, contentType |-> h, data |-> a])

\* Variant: no catch (...) around HandleRequest, so nothing is queued.
HandleRequestUncaught(c) ==
  LET a == connectionCls[c]
      h == info[a].FormatHandler
  IN  /\ info' = [info EXCEPT ![a] = [Buffer |-> << >>, FormatHandler |-> h,
                                      Writer |-> NoWriter]]
      /\ UNCHANGED <<phase, reply>>

\* The call after the whole body, HandleRequest.  The reader takes the Buffer;
\* the Writer gets the result of the method, or the Fault the reader threw.
\* Any other exception leaves an empty Writer and a 500 without a body.
HandleRequest(c) ==
  LET a == connectionCls[c]
      h == info[a].FormatHandler
      Written(kind) ==
        info' = [info EXCEPT ![a] =
                   [Buffer |-> << >>, FormatHandler |-> h,
                    Writer |-> [kind |-> kind, format |-> h,
                                body |-> info[a].Buffer]]]
  IN  \/ /\ \E kind \in {"result", "fault"} : Written(kind)
         /\ QueueResponse(c, [status |-> 200, contentType |-> h, data |-> a])
      \/ /\ Written("empty")
         /\ QueueResponse(c, EmptyReply(500))

OnUploadDone(c) ==
  /\ phase[c] = "uploaded"
  /\ connectionCls[c] # NULL
  /\ HandleRequest(c)
  /\ UNCHANGED <<running, formatHandlers, live, request, connectionCls, body>>

-----------------------------------------------------------------------------
(***************************************************************************)
(* The end of a request: MHD calls OnRequestCompleted and forgets it.      *)
(***************************************************************************)

\* Variant: the ConnectionInfo of a request that got no reply is not deleted.
OnlyAnsweredCompleted(S) ==
  live' = live \ {connectionCls[c] : c \in {d \in S : phase[d] = "replying"}}

\* Server::OnRequestCompleted, for the requests of the connections in S.
OnRequestCompleted(S) == live' = live \ {connectionCls[c] : c \in S}

\* MHD's own state for the connections in S: closed, or ready (in Keep) for
\* another request.
Forget(S, Keep) ==
  /\ phase' = [c \in Conns |-> IF c \notin S THEN phase[c]
                               ELSE IF c \in Keep THEN "idle" ELSE "closed"]
  /\ request' = [c \in Conns |-> IF c \in S THEN NoRequest ELSE request[c]]
  /\ connectionCls' = [c \in Conns |-> IF c \in S THEN NULL
                                                  ELSE connectionCls[c]]
  /\ reply' = [c \in Conns |-> IF c \in S THEN NoReply ELSE reply[c]]
  /\ body' = [c \in Conns |-> IF c \in S THEN << >> ELSE body[c]]

\* The reply has been sent: a keep-alive connection awaits the next request.
Complete(c) ==
  /\ phase[c] = "replying"
  /\ OnRequestCompleted({c})
  /\ \E Keep \in SUBSET {c} : Forget({c}, Keep)
  /\ UNCHANGED <<running, formatHandlers, info>>

\* The client goes away, in the middle of a request or between two.
Abort(c) ==
  /\ phase[c] # "closed"
  /\ OnRequestCompleted({c})
  /\ Forget({c}, {})
  /\ UNCHANGED <<running, formatHandlers, info>>

\* Server::~Server: MHD_stop_daemon ends every request and connection.
Stop ==
  /\ running
  /\ running' = FALSE
  /\ OnRequestCompleted(Conns)
  /\ Forget(Conns, {})
  /\ UNCHANGED <<formatHandlers, info>>

-----------------------------------------------------------------------------
Next ==
  \/ Start
  \/ Stop
  \/ \E h \in Handlers : RegisterFormatHandler(h)
  \/ \E c \in Conns :
       \/ Connect(c)
       \/ \E m \in Methods, r \in Routes : OnHeaders(c, m, r)
       \/ \E d \in Chunks : OnUpload(c, d)
       \/ OnUploadFails(c)
       \/ EndUpload(c)
       \/ OnUploadDone(c)
       \/ Complete(c)
       \/ Abort(c)

Spec == Init /\ [][Next]_vars

\* The application calls MHD_run whenever the daemon's descriptor is readable,
\* and MHD_run serves every connection that is ready: a body that has arrived
\* is handed over.  Nothing makes a client go on sending, or go away.
FairSpec == Spec /\ \A c \in Conns : WF_vars(OnUploadDone(c))

-----------------------------------------------------------------------------
(***************************************************************************)
(* Properties.                                                             *)
(***************************************************************************)

InProgress(c) == connectionCls[c] # NULL

\* Every ConnectionInfo belongs to exactly one request that is in progress:
\* none is leaked, freed early, freed twice or shared by two connections,
\* however requests of different connections, aborts, refusals and the
\* shutdown of the server interleave (server.cpp:187, 220, 69).
InfoOwnership ==
  /\ live = {connectionCls[c] : c \in {d \in Conns : InProgress(d)}}
  /\ \A c, d \in Conns :
       InProgress(c) /\ connectionCls[c] = connectionCls[d] => c = d

\* A queued reply points into the Writer of its own request's ConnectionInfo,
\* which is still allocated and holds a written response, in the format the
\* Content-Type header announces (server.cpp:124-139: the response is
\* MHD_RESPMEM_PERSISTENT, so MHD reads the Writer until it is sent).
ReplyReadable ==
  \A c \in Conns : reply[c].data # NULL =>
    /\ reply[c].data \in live
    /\ reply[c].data = connectionCls[c]
    /\ info[reply[c].data].Writer.kind \in {"result", "fault"}
    /\ info[reply[c].data].Writer.format = reply[c].contentType

\* A request within the limit is answered, if at all with a 200, from exactly
\* the bytes its client sent on this connection for this request; while it is
\* being uploaded its Buffer holds just those (server.cpp:167-175, 111).
BodyIntact ==
  \A c \in Conns : InProgress(c) /\ Len(body[c]) <= MAX_REQUEST_SIZE =>
    LET i == info[connectionCls[c]] IN
      /\ phase[c] \in {"upload", "uploaded"} => i.Buffer = body[c]
      /\ reply[c].status = 200 => i.Writer.body = body[c]

\* The memory a request holds is bounded whatever its client sends, and so is
\* what is handed to the reader (server.cpp:168-171).
BufferBounded ==
  \A a \in live : /\ Len(info[a].Buffer) <= MAX_REQUEST_SIZE
                  /\ Len(info[a].Writer.body) <= MAX_REQUEST_SIZE

\* When MHD takes a reply mid-upload, a request beyond the limit gets a 400 (or
\* the 500 of a failed allocation) and never reaches the reader
\* (server.cpp:168-171, 194-199).
OversizeRefused ==
  TakesMidUpload =>
    \A c \in Conns : Len(body[c]) > MAX_REQUEST_SIZE =>
      phase[c] = "replying" /\ reply[c].status \in {400, 500}

\* The handler of a request in progress is the first one registered that
\* accepts it, also when more are registered while its body is arriving
\* (server.cpp:185-190, 74).
FirstHandlerServes ==
  \A c \in Conns : InProgress(c) =>
    /\ request[c].method = "POST"
    /\ IsFirstMatch(info[connectionCls[c]].FormatHandler, request[c].route)

\* Once a reply is queued, neither it nor the Writer it points into changes
\* until the request is over, whatever the other connections do.
ReplyFinal ==
  [][\A c \in Conns : phase[c] = "replying" /\ phase'[c] = "replying" =>
       /\ reply'[c] = reply[c]
       /\ reply[c].data # NULL =>
            info'[reply[c].data].Writer = info[reply[c].data].Writer]_vars

\* The abstract service: a queued reply is the document its pointer leads to.
ReplyDocument(c) ==
  IF reply[c].data = NULL
  THEN [status |-> reply[c].status, format |-> NULL, kind |-> "none",
        body |-> << >>]
  ELSE [status |-> reply[c].status, format |-> reply[c].contentType,
        kind |-> info[reply[c].data].Writer.kind,
        body |-> info[reply[c].data].Writer.body]

Service == INSTANCE RpcService WITH
  up <- running,
  handlers <- formatHandlers,
  stage <- [c \in Conns |-> CASE phase[c] = "upload" -> "open"
                              [] phase[c] = "uploaded" -> "ready"
                              [] phase[c] = "replying" -> "answered"
                              [] OTHER -> phase[c]],
  format <- [c \in Conns |-> IF InProgress(c)
                             THEN info[connectionCls[c]].FormatHandler
                             ELSE NULL],
  answer <- [c \in Conns |-> ReplyDocument(c)]

\* The server implements the abstract service (when MHD takes a reply mid-upload),
\* liveness included: a request whose body has arrived gets its reply, unless the
\* client goes away or the server is destroyed.
ImplementsService == Service!SSpec
=============================================================================
