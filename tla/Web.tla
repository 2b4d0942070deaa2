-------------------------------- MODULE Web ---------------------------------
(***************************************************************************)
(* Browser, Auth and Parties together: the calls of api() create           *)
(* customers, each POST travelling browser, gateway, API, party service    *)
(* and back, while access tokens expire and the user signs out.            *)
(***************************************************************************)
EXTENDS Browser

vars == <<authVars, webVars, partyVars, tabOf>>

TypeOK == AuthTypeOK /\ BrowserTypeOK /\ PartiesTypeOK

(* A user has signed up and onboarded in this browser. *)
Init ==
    \E u \in Users, password \in Passwords :
        /\ user = [v \in Users |-> IF v # u THEN NoUser
                     ELSE [password |-> password, version |-> 0,
                           verified |-> FALSE, business |-> 1]]
        /\ sessions = <<[user |-> u, version |-> 0, expired |-> FALSE,
                         openedWith |-> password, revoked |-> "no"]>>
        /\ tokens = <<[session |-> 1, used |-> FALSE]>>
        /\ links = <<[user |-> u, purpose |-> "verify", state |-> "live"]>>
        /\ owners = <<u>>
        /\ pending = [r \in Requests |-> Idle]
        /\ BrowserInit([access |-> 1, refresh |-> 1])
        /\ PartiesInit

(* The gateway takes a call from the wire; an access JWT may expire on the *)
(* way.                                                                    *)
Arrive(m) ==
    /\ m.type = "call"
    /\ \E accepted \in {m.session # 0 /\ Accepted(m.session), FALSE} :
          Forward(m.call, accepted)
    /\ wire' = wire \ {m}
    /\ UNCHANGED <<authVars, jar, call, refreshing, queue, givenUp>>

(* An answer goes nowhere when the browser has given up. *)
Answer(c, answer) ==
    /\ wire' = IF call[c] \in {"sent", "resent", "reading"} THEN wire \cup answer ELSE wire
    /\ UNCHANGED <<authVars, jar, call, refreshing, queue, givenUp>>

Status(c, status) == {[type |-> "answer", call |-> c, status |-> status]}

Respond(c) == OnResponse(c) /\ UNCHANGED <<authVars, webVars>>

Relay(c) == OnData(c) /\ Answer(c, Status(c, api[c]))

(* The rest of the body follows. *)
RelayEnd(c) ==
    /\ OnEnd(c)
    /\ Answer(c, IF api[c] = "ok" THEN {[type |-> "body", call |-> c]} ELSE {})

(* The gateway answers in the API's place, unless the answer has begun. *)
RelayError(c) ==
    /\ OnTimeout(c) \/ OnError(c)
    /\ IF Answering(c)
       THEN Answer(c, Status(c, "unavailable"))
       ELSE UNCHANGED <<authVars, webVars>>

(* Aborting a request closes its connection; the gateway hears of it       *)
(* later, or never.                                                        *)
Leave(c) ==
    /\ call[c] \in {"unreachable", "blank"}
    /\ OnClose(c)
    /\ UNCHANGED <<authVars, webVars>>

GatewayNext ==
    \/ \E m \in wire : Arrive(m)
    \/ \E c \in Calls : Respond(c) \/ Relay(c) \/ RelayEnd(c) \/ RelayError(c) \/ Leave(c)

ServiceNext ==
    /\ \E c \in Calls : \/ ApiAnswer(c) \/ ApiTimeout(c)
                        \/ CreateCustomer(c) \/ RefuseContext(c)
    /\ UNCHANGED <<authVars, webVars>>

Next ==
    /\ \/ (BrowserNext \/ AccountNext) /\ UNCHANGED partyVars
       \/ GatewayNext
       \/ ServiceNext
    /\ UNCHANGED tabOf

(* An exchange moves while it waits for the response, since the idle timer *)
(* of its socket runs, and while its body flows, to its end or to the      *)
(* timer or an error.  Once the client has left, the body may lie unread:  *)
(* then the API may close a connection it is done with, and no event comes.*)
Moves(c) ==
    /\ ~gateway[c].settled
    /\ ~gateway[c].clientGone
    /\ OnResponse(c) \/ OnData(c) \/ OnEnd(c) \/ OnTimeout(c) \/ OnError(c)

(* Timers fire, the lock manager grants the lock to the next in line, a    *)
(* continuation runs and the pipe of an open connection flows; nothing is  *)
(* assumed of the network, the API, the party service or the user.         *)
Fairness ==
    /\ \A c \in Calls : /\ WF_webVars(GiveUp(c) \/ SendAgain(c))
                        /\ WF_partyVars(Moves(c))
    /\ \A t \in Tabs : WF_webVars(SendRefresh(t) \/ GiveUpRefresh(t))

Spec == Init /\ [][Next]_vars /\ Fairness

-----------------------------------------------------------------------------
(* Properties.                                                             *)

(* What a call returns tells the truth about the row: a success names one, *)
(* and a call that was not authorized left none, even when it was sent     *)
(* twice.  An error of any other kind says nothing.                        *)
AnswersMatchRows ==
    \A c \in Calls :
        /\ call[c] \in {"ok", "blank", "reading"} => \E i \in DOMAIN customers : customers[i] = c
        /\ call[c] = "unauthorized" => \A i \in DOMAIN customers : customers[i] # c

(* A call that has not returned, or an exchange of it that is not over;    *)
(* save one whose client left in the middle of the answer, which `forward` *)
(* does not notice.                                                        *)
UnderWay(c) ==
    \/ call[c] \notin Settled \cup {"idle"}
    \/ ~gateway[c].settled /\ ~gateway[c].clientGone

(* A call of api() that passes no signal of its own settles, however many  *)
(* tabs wait for one refresh and whatever the network and the servers fail *)
(* to do: a refresh that fails hands on the lock and fails the calls that  *)
(* wait for it.  And the gateway is done with its exchange in the end, also *)
(* when the request arrives after the browser stopped waiting.  (A call is *)
(* made once and returns once: that none is under way again and again says *)
(* of each that it settles.)                                               *)
CallsSettle == []<>(\A c \in Calls : ~UnderWay(c))

=============================================================================
