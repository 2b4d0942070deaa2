------------------------------ MODULE Parties -------------------------------
(***************************************************************************)
(* Creating a customer, behind the browser: the gateway (proxy.service.ts) *)
(* forwards a call to the API, the API asks the party service              *)
(* (http-party-service.client.ts), and the party service writes the row    *)
(* (prisma-customer.repository.ts).  Each of the three waits with a timer  *)
(* of its own for the next, and none of them tries twice; what a later one *)
(* does when an earlier one has stopped waiting is not undone.             *)
(*                                                                         *)
(* A call sent a second time starts a second exchange once the first is    *)
(* over.  A supplier goes the same way through the same code.  Left out:   *)
(* validation and uniqueness of the GSTIN, which refuse a row and leave no *)
(* other trace; the numbering; how a request is signed, of which only the  *)
(* sixty seconds it may be used for are kept.                              *)
(***************************************************************************)
EXTENDS Integers, Sequences

CONSTANTS Calls  \* calls of api() in the browser

VARIABLES gateway,   \* the exchange of each call at the gateway
          api,       \* how far the API is with it
          party,     \* how far the party service is with it
          customers  \* Customer rows: the call each was created for

partyVars == <<gateway, api, party, customers>>

NoExchange == [upstream |-> "none", headersSent |-> FALSE, clientGone |-> FALSE,
               settled |-> TRUE, answers |-> 0]

(* `clientGone` is that `res` is closed.  `answers` counts the responses   *)
(* written; the code does not keep it.                                     *)
Exchanges == [upstream : {"none", "open", "responding", "destroyed", "closed"},
              headersSent : BOOLEAN, clientGone : BOOLEAN, settled : BOOLEAN,
              answers : Nat]

PartiesTypeOK ==
    /\ gateway \in [Calls -> Exchanges]
    /\ api \in [Calls -> {"none", "calling", "ok", "unauthorized", "unavailable"}]
    /\ party \in [Calls -> {"none", "received", "created", "refused"}]
    /\ customers \in Seq(Calls)

PartiesInit ==
    /\ gateway = [c \in Calls |-> NoExchange]
    /\ api = [c \in Calls |-> "none"]
    /\ party = [c \in Calls |-> "none"]
    /\ customers = << >>

-----------------------------------------------------------------------------
(* The gateway.  Its events: the response, its body and its end, which the *)
(* pipe to the client takes in; the idle timer of the upstream socket; an  *)
(* error of the connection; and the client closing its own.                *)

(* forward reaches the API, whose AuthGuard lets the call through or not. *)
Forward(c, accepted) ==
    /\ gateway[c].settled
    /\ gateway' = [gateway EXCEPT ![c] = [upstream |-> "open", headersSent |-> FALSE,
                                          clientGone |-> FALSE, settled |-> FALSE,
                                          answers |-> 0]]
    /\ api' = [api EXCEPT ![c] = IF accepted THEN "calling" ELSE "unauthorized"]
    /\ party' = IF accepted THEN [party EXCEPT ![c] = "received"] ELSE party
    /\ UNCHANGED customers

OnResponse(c) ==
    /\ gateway[c].upstream = "open"
    /\ api[c] \notin {"none", "calling"}
    /\ gateway' = [gateway EXCEPT ![c].upstream = "responding"]
    /\ UNCHANGED <<api, party, customers>>

(* The headers leave with the first the pipe writes of the body, and every *)
(* answer here has one.                                                    *)
OnData(c) ==
    /\ gateway[c].upstream = "responding"
    /\ ~gateway[c].headersSent
    /\ ~gateway[c].clientGone
    /\ gateway' = [gateway EXCEPT ![c].headersSent = TRUE, ![c].answers = @ + 1]
    /\ UNCHANGED <<api, party, customers>>

(* Into a closed `res` the pipe stops, and the end is never reached.       *)
OnEnd(c) ==
    /\ gateway[c].upstream = "responding"
    /\ gateway[c].headersSent
    /\ ~gateway[c].clientGone
    /\ gateway' = [gateway EXCEPT ![c].upstream = "closed", ![c].settled = TRUE]
    /\ UNCHANGED <<api, party, customers>>

(* The client has closed its connection.  Nothing listens for it, so that  *)
(* it shows only when there is something to pipe.                          *)
OnClose(c) ==
    /\ gateway[c].upstream = "responding"
    /\ ~gateway[c].clientGone
    /\ gateway' = [gateway EXCEPT ![c].clientGone = TRUE]
    /\ UNCHANGED <<api, party, customers>>

Answering(c) == ~gateway[c].headersSent /\ ~gateway[c].clientGone

(* Mutant of GatewayError: headers already sent are not noticed. *)
GatewayErrorAlways(c, upstream) ==
    [gateway[c] EXCEPT !.upstream = upstream, !.settled = TRUE, !.headersSent = TRUE,
                       !.answers = @ + 1]

(* sendGatewayError answers unless an answer has begun, and nothing leaves *)
(* through a closed `res`; then complete().                                *)
GatewayError(c, upstream) ==
    [gateway[c] EXCEPT !.upstream = upstream, !.settled = TRUE,
                       !.headersSent = @ \/ Answering(c),
                       !.answers = IF Answering(c) THEN @ + 1 ELSE @]

OnTimeout(c) ==
    /\ gateway[c].upstream \in {"open", "responding"}
    /\ gateway' = [gateway EXCEPT ![c] = GatewayError(c, "destroyed")]
    /\ UNCHANGED <<api, party, customers>>

(* Refused, reset, or hung up: also what destroying the socket leads to. *)
OnError(c) ==
    /\ gateway[c].upstream \in {"open", "responding", "destroyed"}
    /\ gateway' = [gateway EXCEPT ![c] = GatewayError(c, "closed")]
    /\ UNCHANGED <<api, party, customers>>

-----------------------------------------------------------------------------
(* The API and the party service.                                          *)

(* Mutant of ApiAnswer: the customer is reported before it is created. *)
ApiAnswerEarly(c) ==
    /\ api[c] = "calling"
    /\ api' = [api EXCEPT ![c] = IF party[c] = "refused" THEN "unavailable" ELSE "ok"]
    /\ UNCHANGED <<gateway, party, customers>>

(* Mutant of ApiAnswer: what the party service says is passed on as it is. *)
ApiAnswerRaw(c) ==
    /\ api[c] = "calling"
    /\ party[c] \in {"created", "refused"}
    /\ api' = [api EXCEPT ![c] = party[c]]
    /\ UNCHANGED <<gateway, party, customers>>

(* mapError makes 503 of a 401 of the party service. *)
ApiAnswer(c) ==
    /\ api[c] = "calling"
    /\ party[c] \in {"created", "refused"}
    /\ api' = [api EXCEPT ![c] = IF party[c] = "created" THEN "ok" ELSE "unavailable"]
    /\ UNCHANGED <<gateway, party, customers>>

(* The ten seconds of the client are over, or the connection fails. *)
ApiTimeout(c) ==
    /\ api[c] = "calling"
    /\ api' = [api EXCEPT ![c] = "unavailable"]
    /\ UNCHANGED <<gateway, party, customers>>

(* The row and its code are written in one transaction. *)
CreateCustomer(c) ==
    /\ party[c] = "received"
    /\ party' = [party EXCEPT ![c] = "created"]
    /\ customers' = Append(customers, c)
    /\ UNCHANGED <<gateway, api>>

(* The signed context came too late. *)
RefuseContext(c) ==
    /\ party[c] = "received"
    /\ party' = [party EXCEPT ![c] = "refused"]
    /\ UNCHANGED <<gateway, api, customers>>

-----------------------------------------------------------------------------
(* Properties.                                                             *)

(* The events of one exchange, in any order, write one response at most. *)
OneAnswer == \A c \in Calls : gateway[c].answers <= 1

(* A call creates one customer at most, however often it is sent and       *)
(* whoever stopped waiting for it.                                         *)
OneRowPerCall ==
    \A i, j \in DOMAIN customers : customers[i] = customers[j] => i = j

=============================================================================
