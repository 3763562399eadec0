----------------------------- MODULE RpcService -----------------------------
(***************************************************************************)
(* What the HTTP server promises its clients: each request of a connection *)
(* gets at most one answer; the answer to a well-addressed request is in   *)
(* the format of the first handler that accepts it and is computed from    *)
(* exactly the bytes the client sent, all of them; a request that is       *)
(* longer than the limit is refused.  No buffers, no pointers.             *)
(***************************************************************************)
EXTENDS Naturals, Sequences

CONSTANTS Conns, NULL, Handlers, Methods, Routes, CanHandleRequest, Byte,
          Chunks, MAX_REQUEST_SIZE

VARIABLES
  up,        \* the service is available
  handlers,  \* the formats it offers, in order of preference
  stage,     \* of each connection's request
  format,    \* the format of each open request
  body,      \* what each client has sent
  answer     \* what each client gets

svars == <<up, handlers, stage, format, body, answer>>

Answer == [status : {0, 200, 400, 404, 405, 500},
           format : Handlers \cup {NULL},
           kind : {"none", "result", "fault"}, body : Seq(Byte)]

Refusal(status) ==
  [status |-> status, format |-> NULL, kind |-> "none", body |-> << >>]
NoAnswer == Refusal(0)

SInit ==
  /\ up = FALSE
  /\ handlers = << >>
  /\ stage = [c \in Conns |-> "closed"]
  /\ format = [c \in Conns |-> NULL]
  /\ body = [c \in Conns |-> << >>]
  /\ answer = [c \in Conns |-> NoAnswer]

Accepted(r) == {i \in DOMAIN handlers : r \in CanHandleRequest[handlers[i]]}

AnswerWith(c, a) ==
  /\ stage' = [stage EXCEPT ![c] = "answered"]
  /\ answer' = [answer EXCEPT ![c] = a]

SStart ==
  /\ ~up /\ up' = TRUE
  /\ handlers' = << >>
  /\ UNCHANGED <<stage, format, body, answer>>

SRegister(h) ==
  /\ up
  /\ handlers' = Append(handlers, h)
  /\ UNCHANGED <<up, stage, format, body, answer>>

SConnect(c) ==
  /\ up
  /\ stage[c] = "closed"
  /\ stage' = [stage EXCEPT ![c] = "idle"]
  /\ UNCHANGED <<up, handlers, format, body, answer>>

SOpen(c, r) ==
  /\ stage[c] = "idle"
  /\ \E i \in Accepted(r) :
       /\ \A j \in Accepted(r) : i <= j
       /\ format' = [format EXCEPT ![c] = handlers[i]]
  /\ stage' = [stage EXCEPT ![c] = "open"]
  /\ UNCHANGED <<up, handlers, body, answer>>

SRefuse(c, m, r) ==
  /\ stage[c] = "idle"
  /\ LET status == IF m # "POST" THEN {405}
                   ELSE {500} \cup (IF Accepted(r) = {} THEN {404} ELSE {})
     IN  \E s \in status : AnswerWith(c, Refusal(s))
  /\ UNCHANGED <<up, handlers, format, body>>

SUpload(c, d) ==
  /\ stage[c] = "open"
  /\ body' = [body EXCEPT ![c] = @ \o d]
  /\ \/ /\ Len(body[c]) + Len(d) <= MAX_REQUEST_SIZE
        /\ UNCHANGED <<stage, answer>>
     \/ /\ Len(body[c]) + Len(d) > MAX_REQUEST_SIZE
        /\ AnswerWith(c, Refusal(400))
  /\ UNCHANGED <<up, handlers, format>>

SEndUpload(c) ==
  /\ stage[c] = "open"
  /\ stage' = [stage EXCEPT ![c] = "ready"]
  /\ UNCHANGED <<up, handlers, format, body, answer>>

SServe(c) ==
  /\ stage[c] = "ready"
  /\ \E k \in {"result", "fault"} :
       AnswerWith(c, [status |-> 200, format |-> format[c], kind |-> k,
                      body |-> body[c]])
  /\ UNCHANGED <<up, handlers, format, body>>

SFail(c) ==
  /\ stage[c] \in {"open", "ready"}
  /\ AnswerWith(c, Refusal(500))
  /\ UNCHANGED <<up, handlers, format, body>>

\* The requests of the connections in S are over.
Over(S, next) ==
  /\ stage' = [c \in Conns |-> IF c \in S THEN next ELSE stage[c]]
  /\ format' = [c \in Conns |-> IF c \in S THEN NULL ELSE format[c]]
  /\ body' = [c \in Conns |-> IF c \in S THEN << >> ELSE body[c]]
  /\ answer' = [c \in Conns |-> IF c \in S THEN NoAnswer ELSE answer[c]]
  /\ UNCHANGED handlers

SDone(c) == stage[c] = "answered" /\ Over({c}, "idle") /\ UNCHANGED up

SLeave(c) == stage[c] # "closed" /\ Over({c}, "closed") /\ UNCHANGED up

SStop == up /\ up' = FALSE /\ Over(Conns, "closed")

SNext ==
  \/ SStart
  \/ SStop
  \/ \E h \in Handlers : SRegister(h)
  \/ \E c \in Conns :
       \/ SConnect(c)
       \/ \E r \in Routes : SOpen(c, r)
       \/ \E m \in Methods, r \in Routes : SRefuse(c, m, r)
       \/ \E d \in Chunks : SUpload(c, d)
       \/ SEndUpload(c)
       \/ SServe(c)
       \/ SFail(c)
       \/ SDone(c)
       \/ SLeave(c)

\* A request that has been sent whole is answered, unless its client leaves.
SSpec ==
  /\ SInit
  /\ [][SNext]_svars
  /\ \A c \in Conns : WF_svars(stage[c] = "ready" /\ (SServe(c) \/ SFail(c)))
=============================================================================
