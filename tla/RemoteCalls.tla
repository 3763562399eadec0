---------------------------- MODULE RemoteCalls ----------------------------
(***************************************************************************)
(* What Client::Call promises: a call is attempted, each attempt takes     *)
(* effect at most once, and the caller gets the outcome of the last        *)
(* attempt, as if the method had been invoked where the server is, or a    *)
(* failure that leaves open whether the call took or will still take       *)
(* effect.  No documents, no ids, no HTTP.                                 *)
(***************************************************************************)
EXTENDS Naturals

CONSTANTS
  Clients, Calls, MaxExchanges, None, NoAnswer, Failure, Nothing, InitialApp,
  Outcome(_, _, _),  \* of a client's call in a state of the application
  Effect(_, _, _)    \* that state afterwards

VARIABLES
  made,     \* the number of attempts so far
  attempt,  \* each of them
  current,  \* the attempt each client waits for, or None
  outcome,  \* of each client's last call
  app       \* the state of the server's application

avars == <<made, attempt, current, outcome, app>>

Unmade == [stage |-> "unused"]
Made(c, call) ==
  [stage |-> "sent", client |-> c, call |-> call, answer |-> NoAnswer]

AInit ==
  /\ made = 0
  /\ attempt = [e \in 1..MaxExchanges |-> Unmade]
  /\ current = [c \in Clients |-> None]
  /\ outcome = [c \in Clients |-> Nothing]
  /\ app = InitialApp

Attempt(c, call) ==
  /\ made < MaxExchanges
  /\ made' = made + 1
  /\ attempt' = [attempt EXCEPT ![made + 1] = Made(c, call)]
  /\ current' = [current EXCEPT ![c] = made + 1]
  /\ UNCHANGED <<outcome, app>>

ACall(c, call) == current[c] = None /\ Attempt(c, call)

ARetry(c) == current[c] # None /\ Attempt(c, attempt[current[c]].call)

WithAnswer(x, answer) ==
  [stage |-> "answered", client |-> x.client, call |-> x.call, answer |-> answer]

Answer(e, answer) ==
  /\ UNCHANGED <<made, current, outcome>>
  /\ attempt[e].stage = "sent"
  /\ attempt' = [attempt EXCEPT ![e] = WithAnswer(@, answer)]

\* The attempt takes effect, even when its client no longer waits for it.
AServe(e) ==
  /\ Answer(e, Outcome(attempt[e].client, attempt[e].call, app))
  /\ app' = Effect(attempt[e].client, attempt[e].call, app)

\* It fails, before or after it took effect.
AFail(e) ==
  /\ Answer(e, Failure)
  /\ app' \in {app, Effect(attempt[e].client, attempt[e].call, app)}

Done(c, answer) ==
  /\ current' = [current EXCEPT ![c] = None]
  /\ outcome' = [outcome EXCEPT ![c] = answer]
  /\ UNCHANGED <<made, attempt, app>>

AReturn(c) ==
  /\ current[c] # None
  /\ attempt[current[c]].stage = "answered"
  /\ Done(c, attempt[current[c]].answer)

AGiveUp(c) == current[c] # None /\ Done(c, Failure)

ANext ==
  \/ \E c \in Clients : \/ \E call \in Calls : ACall(c, call)
                        \/ ARetry(c) \/ AReturn(c) \/ AGiveUp(c)
  \/ \E e \in 1..MaxExchanges : AServe(e) \/ AFail(e)

ASpec == AInit /\ [][ANext]_avars
=============================================================================
