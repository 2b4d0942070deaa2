----------------------------- MODULE WebProofs ------------------------------
(***************************************************************************)
(* The browser and the servers behind it, for any number of calls and      *)
(* tabs.  Two invariants, proved one after the other:                      *)
(*                                                                         *)
(* WebInv: a call of the web client, sent twice if need be, makes one      *)
(* customer at most, whatever each hop gives up; its answer tells the      *)
(* truth about the row; and the gateway answers it once.  It is local to a *)
(* call: CallOK relates its state in the browser, its messages, its        *)
(* exchange at the gateway and how far API and party service are with it.  *)
(*                                                                         *)
(* RotationInv: the refreshes of all tabs present the one unused token of  *)
(* the session until one of them is given up.  It takes AuthInv of the     *)
(* accounts with it, so that a refresh the API serves meets its tables.    *)
(***************************************************************************)
EXTENDS Web, AuthProofs

Asked(c) == {m \in wire : m.type = "call" /\ m.call = c}
Answered(c) == {m \in wire : m.type = "answer" /\ m.call = c}

(* The gateway may yet pass on an answer of the API.                       *)
Unanswered(c) == gateway[c].upstream \in {"open", "responding"} /\ ~gateway[c].headersSent

(* One exchange: a timeout answers unless an answer has begun or nobody is *)
(* there to hear it, so that the error that follows it does not.           *)
ExchangeOK(c) ==
    /\ gateway[c].upstream = "destroyed" => gateway[c].headersSent \/ gateway[c].clientGone
    /\ gateway[c].upstream = "responding" => api[c] \in Statuses
    /\ gateway[c].answers = IF gateway[c].headersSent THEN 1 ELSE 0
    /\ api[c] = "ok" => party[c] = "created"
    /\ api[c] = "unauthorized" => party[c] = "none"

(* The messages of a call: a request or its answer, one of them. *)
MessagesOK(c) ==
    /\ \A m1, m2 \in Asked(c) : m1 = m2
    /\ \A m1, m2 \in Answered(c) : m1 = m2
    /\ Asked(c) # {} => /\ ~Unanswered(c)
                        /\ party[c] = "none"
                        /\ Answered(c) = {}
    /\ Answered(c) # {} => gateway[c].headersSent
    /\ \A m \in Answered(c) : /\ m.status \in Statuses
                              /\ m.status = "ok" => party[c] = "created"
                              /\ m.status = "unauthorized" => party[c] = "none"

(* What the browser may conclude: a call that is to be sent (again), or    *)
(* that failed as unauthorized, has nothing under way and left no row.     *)
PhaseOK(c) ==
    /\ call[c] \in {"idle", "refreshing", "again", "unauthorized"} =>
          /\ Asked(c) = {} /\ Answered(c) = {}
          /\ party[c] = "none"
          /\ ~Unanswered(c)
    /\ call[c] \in {"reading", "ok", "blank"} => party[c] = "created"

CallOK(c) == ExchangeOK(c) /\ MessagesOK(c) /\ PhaseOK(c)

HasRow(c) == \E i \in DOMAIN customers : customers[i] = c

RowsOK ==
    /\ customers \in Seq(Calls)
    /\ OneRowPerCall
    /\ \A c \in Calls : party[c] = "created" <=> HasRow(c)

(* As much of the types as the steps need. *)
ShapeOK ==
    /\ gateway \in [Calls -> Exchanges]
    /\ api \in [Calls -> {"none", "calling", "ok", "unauthorized", "unavailable"}]
    /\ party \in [Calls -> {"none", "received", "created", "refused"}]
    /\ call \in [Calls -> Settled \cup {"idle", "sent", "refreshing", "again", "resent",
                                     "reading"}]
    /\ \A m \in wire : "type" \in DOMAIN m

WebInv == ShapeOK /\ RowsOK /\ \A c \in Calls : CallOK(c)

-----------------------------------------------------------------------------
(* What a step of the wire or of a call leaves alone.                      *)

LEMMA SameCall ==
    ASSUME NEW c \in Calls, CallOK(c),
           gateway'[c] = gateway[c], api'[c] = api[c], party'[c] = party[c],
           call'[c] = call[c], Asked(c)' = Asked(c), Answered(c)' = Answered(c)
    PROVE  CallOK(c)'
<1> QED BY DEF CallOK, ExchangeOK, MessagesOK, PhaseOK, Unanswered

(* Messages of other kinds, or of other calls, are none of a call's. *)
LEMMA SameMessages ==
    ASSUME NEW c \in Calls,
           \A m : (m.type \in {"call", "answer"} /\ m.call = c) => (m \in wire' <=> m \in wire)
    PROVE  Asked(c)' = Asked(c) /\ Answered(c)' = Answered(c)
<1> QED BY DEF Asked, Answered

LEMMA SameRows ==
    ASSUME RowsOK, UNCHANGED <<party, customers>>
    PROVE  RowsOK'
<1> QED BY DEF RowsOK, HasRow, OneRowPerCall

LEMMA Initially == Init => WebInv
<1> SUFFICES ASSUME Init PROVE WebInv
  OBVIOUS
<1>1. /\ gateway = [c \in Calls |-> NoExchange]
      /\ api = [c \in Calls |-> "none"]
      /\ party = [c \in Calls |-> "none"]
      /\ customers = << >>
      /\ call = [c \in Calls |-> "idle"]
      /\ wire = {}
  BY DEF Init, BrowserInit, PartiesInit
<1>2. ShapeOK
  BY <1>1 DEF ShapeOK, NoExchange, Exchanges, Settled
<1>3. RowsOK
  BY <1>1 DEF RowsOK, HasRow, OneRowPerCall
<1>4. ASSUME NEW c \in Calls PROVE CallOK(c)
  <2>1. Asked(c) = {} /\ Answered(c) = {}
    BY <1>1 DEF Asked, Answered
  <2> QED BY <1>1, <2>1 DEF CallOK, ExchangeOK, MessagesOK, PhaseOK, Unanswered, NoExchange
<1> QED BY <1>2, <1>3, <1>4 DEF WebInv

-----------------------------------------------------------------------------
(* The browser.                                                            *)

LEMMA RequestKeeps ==
    ASSUME WebInv, NEW q \in Calls, Send(q) \/ SendAgain(q), UNCHANGED partyVars
    PROVE  WebInv'
<1> DEFINE msg == [type |-> "call", call |-> q, session |-> jar.access]
<1>1. /\ call[q] \in {"idle", "again"}
      /\ call' = [call EXCEPT ![q] = IF call[q] = "idle" THEN "sent" ELSE "resent"]
      /\ wire' = wire \cup {msg}
  BY DEF Send, SendAgain, Request
<1>2. UNCHANGED <<gateway, api, party, customers>>
  BY DEF partyVars
<1>3. ShapeOK'
  BY <1>1, <1>2 DEF WebInv, ShapeOK
<1>4. RowsOK'
  BY <1>2, SameRows DEF WebInv
<1>5. ASSUME NEW c \in Calls PROVE CallOK(c)'
  <2>1. CASE c # q
    <3>1. Asked(c)' = Asked(c) /\ Answered(c)' = Answered(c)
      BY <1>1, <2>1 DEF Asked, Answered
    <3> QED BY <1>1, <1>2, <2>1, <3>1, SameCall DEF WebInv, ShapeOK
  <2>2. CASE c = q
    <3>1. Asked(c)' = Asked(c) \cup {msg} /\ Answered(c)' = Answered(c)
      BY <1>1, <2>2 DEF Asked, Answered
    <3>2. call'[c] \in {"sent", "resent"}
      BY <1>1, <2>2 DEF WebInv, ShapeOK
    <3> HIDE DEF msg
    <3> QED BY <1>1, <1>2, <2>2, <3>1, <3>2
            DEF WebInv, CallOK, ExchangeOK, MessagesOK, PhaseOK, Unanswered
  <2> QED BY <2>1, <2>2
<1> QED BY <1>3, <1>4, <1>5 DEF WebInv

LEMMA ReceiveKeeps ==
    ASSUME WebInv, NEW q \in Calls, NEW m \in wire, Receive(q, m), UNCHANGED partyVars
    PROVE  WebInv'
<1>1. /\ m \in Answered(q)
      /\ call[q] \in {"sent", "resent"}
      /\ wire' = wire \ {m}
  BY DEF Receive, Answered
<1>2. UNCHANGED <<gateway, api, party, customers>>
  BY DEF partyVars
<1>3. \A c \in Calls : c # q => call'[c] = call[c]
  BY DEF Receive, AwaitRefresh, WebInv, ShapeOK
<1>4. /\ call' \in [Calls -> Settled \cup {"idle", "sent", "refreshing", "again", "resent",
                                          "reading"}]
      /\ call'[q] \in {"refreshing", "unauthorized"} => m.status = "unauthorized"
      /\ call'[q] \in {"reading", "ok", "blank"} => m.status = "ok"
      /\ call'[q] \notin {"idle", "again"}
  <2>1. m.status \in Statuses
    BY <1>1 DEF WebInv, CallOK, MessagesOK
  <2>2. CASE call[q] = "sent" /\ Retries(m.status)
    BY <2>2 DEF Receive, AwaitRefresh, Retries, WebInv, ShapeOK, Settled
  <2>3. CASE ~(call[q] = "sent" /\ Retries(m.status))
    <3>1. call' = [call EXCEPT ![q] = IF m.status = "ok" THEN "reading" ELSE m.status]
      BY <2>3 DEF Receive
    <3> QED BY <2>1, <3>1 DEF WebInv, ShapeOK, Settled, Statuses
  <2> QED BY <2>2, <2>3
<1>5. ShapeOK'
  BY <1>1, <1>2, <1>4 DEF WebInv, ShapeOK
<1>6. RowsOK'
  BY <1>2, SameRows DEF WebInv
<1>7. ASSUME NEW c \in Calls PROVE CallOK(c)'
  <2>1. CASE c # q
    <3>1. Asked(c)' = Asked(c) /\ Answered(c)' = Answered(c)
      BY <1>1, <2>1 DEF Asked, Answered
    <3> QED BY <1>2, <1>3, <2>1, <3>1, SameCall DEF WebInv
  <2>2. CASE c = q
    <3>1. Asked(c)' = Asked(c) /\ Answered(c)' = Answered(c) \ {m}
      BY <1>1, <2>2 DEF Asked, Answered
    <3>2. Asked(c) = {} /\ Answered(c) \ {m} = {}
      BY <1>1, <2>2 DEF WebInv, CallOK, MessagesOK
    <3> QED BY <1>1, <1>2, <1>4, <2>2, <3>1, <3>2
            DEF WebInv, CallOK, ExchangeOK, MessagesOK, PhaseOK, Unanswered
  <2> QED BY <2>1, <2>2
<1> QED BY <1>5, <1>6, <1>7 DEF WebInv

(* Reading the body, or giving up: the messages of a call may disappear. *)
LEMMA SettleKeeps ==
    ASSUME WebInv, NEW q \in Calls, GiveUp(q) \/ (\E m \in wire : ReadBody(q, m)),
           UNCHANGED partyVars
    PROVE  WebInv'
<1>1. \/ /\ call[q] \in {"sent", "resent"}
         /\ call' = [call EXCEPT ![q] = "unreachable"]
      \/ /\ call[q] = "reading"
         /\ \/ call' = [call EXCEPT ![q] = "blank"]
            \/ call' = [call EXCEPT ![q] = "ok"]
  BY Zenon DEF GiveUp, ReadBody
<1>2. UNCHANGED <<gateway, api, party, customers>>
  BY DEF partyVars
<1>3. wire' \subseteq wire
  BY DEF GiveUp, ReadBody
<1>4. ASSUME NEW c \in Calls
      PROVE  /\ Asked(c)' = Asked(c)
             /\ Answered(c)' \subseteq Answered(c)
             /\ c # q => Answered(c)' = Answered(c)
  <2>1. CASE GiveUp(q)
    BY <2>1 DEF GiveUp, Asked, Answered
  <2>2. CASE \E m \in wire : ReadBody(q, m)
    BY <2>2 DEF ReadBody, Asked, Answered
  <2> QED BY <2>1, <2>2
<1>5. ShapeOK'
  BY <1>1, <1>2, <1>3 DEF WebInv, ShapeOK, Settled
<1>6. RowsOK'
  BY <1>2, SameRows DEF WebInv
<1>7. ASSUME NEW c \in Calls PROVE CallOK(c)'
  <2>1. CASE c # q
    BY <1>1, <1>2, <1>4, <2>1, SameCall DEF WebInv, ShapeOK
  <2>2. CASE c = q
    <3>1. call'[c] \in {"unreachable", "blank", "ok"}
          /\ (call'[c] \in {"blank", "ok"} => call[c] = "reading")
      BY <1>1, <2>2 DEF WebInv, ShapeOK
    <3> QED BY <1>2, <1>4, <2>2, <3>1
            DEF WebInv, CallOK, ExchangeOK, MessagesOK, PhaseOK, Unanswered
  <2> QED BY <2>1, <2>2
<1> QED BY <1>5, <1>6, <1>7 DEF WebInv

(* A refresh touches only its own messages, and the calls that await it. *)
LEMMA RefreshKeeps ==
    ASSUME WebInv, UNCHANGED partyVars,
           \A m : m.type \in {"call", "answer"} => (m \in wire' <=> m \in wire),
           \A m \in wire' : "type" \in DOMAIN m,
           call' \in [Calls -> Settled \cup {"idle", "sent", "refreshing", "again", "resent",
                                            "reading"}],
           \A c \in Calls : call'[c] # call[c] =>
               /\ call[c] = "refreshing"
               /\ call'[c] \in {"again", "unauthorized", "unreachable"}
    PROVE  WebInv'
<1>1. UNCHANGED <<gateway, api, party, customers>>
  BY DEF partyVars
<1>2. ShapeOK'
  BY <1>1 DEF WebInv, ShapeOK
<1>3. RowsOK'
  BY <1>1, SameRows DEF WebInv
<1>4. ASSUME NEW c \in Calls PROVE CallOK(c)'
  <2>1. Asked(c)' = Asked(c) /\ Answered(c)' = Answered(c)
    BY SameMessages
  <2>2. CASE call'[c] = call[c]
    BY <1>1, <2>1, <2>2, SameCall DEF WebInv
  <2>3. CASE call'[c] # call[c]
    BY <1>1, <2>1, <2>3 DEF WebInv, CallOK, ExchangeOK, MessagesOK, PhaseOK, Unanswered
  <2> QED BY <2>2, <2>3
<1> QED BY <1>2, <1>3, <1>4 DEF WebInv

LEMMA RefreshStepKeeps ==
    ASSUME WebInv, UNCHANGED partyVars,
           \/ \E t \in Tabs : SendRefresh(t) \/ GiveUpRefresh(t)
           \/ \E m \in wire : ServeRefresh(m) \/ \E t \in Tabs : ReceiveRefresh(t, m)
           \/ AccountNext
    PROVE  WebInv'
<1>1. \A m \in wire : "type" \in DOMAIN m
  BY DEF WebInv, ShapeOK
<1>2. call \in [Calls -> Settled \cup {"idle", "sent", "refreshing", "again", "resent",
                                     "reading"}]
  BY DEF WebInv, ShapeOK
<1>3. ASSUME NEW t \in Tabs, NEW phase \in {"again", "unauthorized", "unreachable"},
             Resume(t, phase)
      PROVE  /\ call' \in [Calls -> Settled \cup {"idle", "sent", "refreshing", "again",
                                               "resent", "reading"}]
             /\ \A c \in Calls : call'[c] # call[c] =>
                   call[c] = "refreshing" /\ call'[c] = phase
  BY <1>2, <1>3 DEF Resume, Waiting, Settled
<1>4. ASSUME NEW t \in Tabs, SendRefresh(t) PROVE WebInv'
  <2> DEFINE msg == [type |-> "refresh", tab |-> t, awaited |-> TRUE, token |-> jar.refresh]
  <2>1. wire' = wire \cup {msg} /\ call' = call
    BY <1>4 DEF SendRefresh
  <2>2. "type" \in DOMAIN msg /\ msg.type = "refresh"
    OBVIOUS
  <2> HIDE DEF msg
  <2> QED BY <1>1, <1>2, <2>1, <2>2, RefreshKeeps
<1>5. ASSUME NEW t \in Tabs, GiveUpRefresh(t) PROVE WebInv'
  <2> DEFINE mine == {m \in wire : m.type \in {"refresh", "refreshed"} /\ m.tab = t}
             kept == {[m EXCEPT !.awaited = FALSE] : m \in {n \in mine : n.type = "refresh"}}
  <2>1. wire' = (wire \ mine) \cup kept /\ Resume(t, "unreachable")
    BY <1>5 DEF GiveUpRefresh
  <2>2. \A m \in kept : m.type = "refresh" /\ "type" \in DOMAIN m
    BY <1>1
  <2>3. \A m \in mine : m.type \in {"refresh", "refreshed"}
    OBVIOUS
  <2> HIDE DEF mine, kept
  <2> QED BY <1>1, <1>3, <2>1, <2>2, <2>3, RefreshKeeps
<1>6. ASSUME NEW m \in wire, ServeRefresh(m) PROVE WebInv'
  <2>1. \A session, token : \A n \in RefreshAnswer(m, session, token) :
            n.type = "refreshed" /\ "type" \in DOMAIN n
    BY DEF RefreshAnswer
  <2>2. /\ m.type = "refresh" /\ call' = call
        /\ \E session, token : wire' = (wire \ {m}) \cup RefreshAnswer(m, session, token)
    BY <1>6, Zenon DEF ServeRefresh
  <2> QED BY <1>1, <1>2, <2>1, <2>2, RefreshKeeps
<1>7. ASSUME NEW m \in wire, NEW t \in Tabs, ReceiveRefresh(t, m) PROVE WebInv'
  <2>1. /\ m.type = "refreshed" /\ wire' = wire \ {m}
        /\ Resume(t, IF m.token = 0 THEN "unauthorized" ELSE "again")
    BY <1>7 DEF ReceiveRefresh
  <2> QED BY <1>1, <1>3, <2>1, RefreshKeeps
<1>8. ASSUME AccountNext PROVE WebInv'
  <2>1. call' = call /\ wire' = wire
    BY <1>8 DEF AccountNext, SignOut, ExpireAccess, Here, Elsewhere, webVars
  <2> QED BY <1>1, <1>2, <2>1, RefreshKeeps
<1> QED BY <1>4, <1>5, <1>6, <1>7, <1>8

-----------------------------------------------------------------------------
(* The gateway.                                                            *)

LEMMA ArriveKeeps ==
    ASSUME WebInv, NEW m \in wire, Arrive(m)
    PROVE  WebInv'
<1> DEFINE q == m.call
           sent == [upstream |-> "open", headersSent |-> FALSE, clientGone |-> FALSE,
                    settled |-> FALSE, answers |-> 0]
<1>1. /\ m \in Asked(q)
      /\ wire' = wire \ {m} /\ call' = call /\ customers' = customers
      /\ gateway' = [gateway EXCEPT ![q] = sent]
  BY DEF Arrive, Forward, Asked
<1>2. \/ api' = [api EXCEPT ![q] = "calling"] /\ party' = [party EXCEPT ![q] = "received"]
      \/ api' = [api EXCEPT ![q] = "unauthorized"] /\ party' = party
  BY DEF Arrive, Forward
<1>3. sent \in Exchanges /\ sent.upstream = "open" /\ ~sent.headersSent /\ sent.answers = 0
  BY DEF Exchanges
<1> HIDE DEF sent
<1>4. ShapeOK'
  BY <1>1, <1>2, <1>3 DEF WebInv, ShapeOK
<1>5. q \in Calls => party[q] = "none"
  BY <1>1 DEF WebInv, CallOK, MessagesOK
<1>6. RowsOK'
  BY <1>1, <1>2, <1>5 DEF WebInv, ShapeOK, RowsOK, HasRow, OneRowPerCall
<1>7. ASSUME NEW c \in Calls PROVE CallOK(c)'
  <2>1. CASE c # q
    <3>1. Asked(c)' = Asked(c) /\ Answered(c)' = Answered(c)
      BY <1>1, <2>1 DEF Asked, Answered
    <3> QED BY <1>1, <1>2, <2>1, <3>1, SameCall DEF WebInv, ShapeOK
  <2>2. CASE c = q
    <3>1. Asked(c)' = Asked(c) \ {m} /\ Answered(c)' = Answered(c)
      BY <1>1, <2>2 DEF Asked, Answered
    <3>2. Asked(c) \ {m} = {} /\ Answered(c) = {}
      BY <1>1, <2>2 DEF WebInv, CallOK, MessagesOK
    <3>3. gateway'[c] = sent
      BY <1>1, <2>2 DEF WebInv, ShapeOK
    <3>4. call[c] \notin {"idle", "refreshing", "again", "unauthorized", "reading", "ok", "blank"}
      BY <1>1, <1>5, <2>2 DEF WebInv, CallOK, PhaseOK
    <3>5. \/ api'[c] = "calling" /\ party'[c] = "received"
          \/ api'[c] = "unauthorized" /\ party'[c] = "none"
      BY <1>2, <1>5, <2>2 DEF WebInv, ShapeOK
    <3> HIDE DEF q
    <3> QED BY <1>1, <1>3, <3>1, <3>2, <3>3, <3>4, <3>5
            DEF CallOK, ExchangeOK, MessagesOK, PhaseOK, Unanswered
  <2> QED BY <2>1, <2>2
<1> QED BY <1>4, <1>6, <1>7 DEF WebInv

(* An answer leaves when an exchange ends or begins to be answered.         *)
LEMMA AnswerKeeps ==
    ASSUME WebInv, NEW q \in Calls, Unanswered(q),
           NEW status \in Statuses, Answer(q, Status(q, status)),
           NEW g \in Exchanges, gateway' = [gateway EXCEPT ![q] = g],
           g.headersSent, g.answers = gateway[q].answers + 1,
           g.upstream = "responding" => gateway[q].upstream = "responding",
           status = "ok" => party[q] = "created",
           status = "unauthorized" => party[q] = "none",
           UNCHANGED <<api, party, customers>>
    PROVE  WebInv'
<1> DEFINE msg == [type |-> "answer", call |-> q, status |-> status]
<1>1. (wire' = wire \/ wire' = wire \cup {msg}) /\ call' = call
  BY DEF Answer, Status
<1>2. "type" \in DOMAIN msg /\ msg.status = status
  OBVIOUS
<1>3. ShapeOK'
  BY <1>1, <1>2 DEF WebInv, ShapeOK
<1>4. RowsOK'
  BY SameRows DEF WebInv
<1>5. ASSUME NEW c \in Calls PROVE CallOK(c)'
  <2>1. CASE c # q
    <3>1. Asked(c)' = Asked(c) /\ Answered(c)' = Answered(c)
      BY <1>1, <2>1 DEF Asked, Answered
    <3> QED BY <1>1, <2>1, <3>1, SameCall DEF WebInv, ShapeOK
  <2>2. CASE c = q
    <3>1. /\ Asked(c)' = Asked(c)
          /\ Answered(c)' = Answered(c) \/ Answered(c)' = Answered(c) \cup {msg}
      BY <1>1, <2>2 DEF Asked, Answered
    <3>2. Asked(c) = {} /\ Answered(c) = {} /\ gateway[c].answers = 0
      BY <2>2 DEF WebInv, CallOK, ExchangeOK, MessagesOK, Unanswered
    <3>3. gateway'[c] = g
      BY <2>2 DEF WebInv, ShapeOK
    <3> HIDE DEF msg
    <3>4. ExchangeOK(c)'
      BY <2>2, <3>2, <3>3 DEF WebInv, CallOK, ExchangeOK
    <3>5. MessagesOK(c)'
      BY <1>2, <2>2, <3>1, <3>2, <3>3 DEF MessagesOK, Unanswered
    <3>6. PhaseOK(c)'
      <4>1. ~Unanswered(c)'
        BY <3>3 DEF Unanswered
      <4>2. call[c] \notin {"idle", "refreshing", "again", "unauthorized"}
        BY <2>2 DEF WebInv, CallOK, PhaseOK
      <4> QED BY <1>1, <4>2 DEF WebInv, CallOK, PhaseOK
    <3> QED BY <3>4, <3>5, <3>6 DEF CallOK
  <2> QED BY <2>1, <2>2
<1> QED BY <1>3, <1>4, <1>5 DEF WebInv

(* The other events of an exchange change nothing a call could learn from. *)
LEMMA ExchangeEventKeeps ==
    ASSUME WebInv, NEW q \in Calls,
           NEW g \in Exchanges, gateway' = [gateway EXCEPT ![q] = g],
           g.headersSent = gateway[q].headersSent, g.answers = gateway[q].answers,
           g.upstream \in {"open", "responding"} => gateway[q].upstream \in {"open", "responding"},
           g.upstream = "responding" => api[q] \in Statuses,
           g.upstream = "destroyed" => g.headersSent \/ g.clientGone,
           \A m : m.type \in {"call", "answer"} => (m \in wire' <=> m \in wire),
           \A m \in wire' : "type" \in DOMAIN m,
           UNCHANGED <<call, api, party, customers>>
    PROVE  WebInv'
<1>1. ShapeOK'
  BY DEF WebInv, ShapeOK
<1>2. RowsOK'
  BY SameRows DEF WebInv
<1>3. ASSUME NEW c \in Calls PROVE CallOK(c)'
  <2>1. Asked(c)' = Asked(c) /\ Answered(c)' = Answered(c)
    BY SameMessages
  <2>2. CASE c # q
    BY <2>1, <2>2, SameCall DEF WebInv, ShapeOK
  <2>3. CASE c = q
    <3>1. gateway'[c] = g
      BY <2>3 DEF WebInv, ShapeOK
    <3>2. Unanswered(c)' => Unanswered(c)
      BY <2>3, <3>1 DEF Unanswered
    <3>3. ExchangeOK(c)'
      BY <2>3, <3>1 DEF WebInv, CallOK, ExchangeOK
    <3>4. MessagesOK(c)'
      BY <2>1, <2>3, <3>1, <3>2 DEF WebInv, CallOK, MessagesOK
    <3>5. PhaseOK(c)'
      BY <2>1, <3>2 DEF WebInv, CallOK, PhaseOK
    <3> QED BY <3>3, <3>4, <3>5 DEF CallOK
  <2> QED BY <2>2, <2>3
<1> QED BY <1>1, <1>2, <1>3 DEF WebInv

LEMMA QuietEventKeeps ==
    ASSUME WebInv, NEW q \in Calls, Respond(q) \/ Leave(q)
    PROVE  WebInv'
<1>1. gateway[q] \in Exchanges
  BY DEF WebInv, ShapeOK
<1>2. /\ UNCHANGED <<call, api, party, customers>>
      /\ wire' = wire
      /\ \A m \in wire : "type" \in DOMAIN m
  BY DEF Respond, Leave, OnResponse, OnClose, webVars, WebInv, ShapeOK
<1>3. CASE Respond(q)
  <2> DEFINE g == [gateway[q] EXCEPT !.upstream = "responding"]
  <2>1. gateway' = [gateway EXCEPT ![q] = g] /\ gateway[q].upstream = "open"
    BY <1>1, <1>3 DEF Respond, OnResponse
  <2>2. api[q] \in Statuses
    BY <1>3 DEF Respond, OnResponse, WebInv, ShapeOK, Statuses
  <2>3. /\ g \in Exchanges /\ g.upstream = "responding"
        /\ g.headersSent = gateway[q].headersSent /\ g.answers = gateway[q].answers
    BY <1>1 DEF Exchanges
  <2> HIDE DEF g
  <2> QED BY <1>2, <2>1, <2>2, <2>3, ExchangeEventKeeps
<1>4. CASE Leave(q)
  <2> DEFINE g == [gateway[q] EXCEPT !.clientGone = TRUE]
  <2>1. gateway' = [gateway EXCEPT ![q] = g]
    BY <1>1, <1>4 DEF Leave, OnClose
  <2>2. /\ g \in Exchanges /\ g.upstream = gateway[q].upstream /\ g.clientGone
        /\ g.headersSent = gateway[q].headersSent /\ g.answers = gateway[q].answers
    BY <1>1 DEF Exchanges
  <2>3. gateway[q].upstream = "responding" => api[q] \in Statuses
    BY DEF WebInv, CallOK, ExchangeOK
  <2> HIDE DEF g
  <2> QED BY <1>2, <2>1, <2>2, <2>3, ExchangeEventKeeps
<1> QED BY <1>3, <1>4

LEMMA RelayKeeps ==
    ASSUME WebInv, NEW q \in Calls, Relay(q)
    PROVE  WebInv'
<1> DEFINE n == gateway[q].answers + 1
           g == [gateway[q] EXCEPT !.headersSent = TRUE, !.answers = n]
<1>1. gateway[q] \in Exchanges /\ n \in Nat
  BY DEF WebInv, ShapeOK, Exchanges
<1>2. /\ gateway[q].upstream = "responding" /\ ~gateway[q].headersSent
      /\ Answer(q, Status(q, api[q]))
      /\ UNCHANGED <<api, party, customers>>
  BY DEF Relay, OnData
<1>3. gateway' = [gateway EXCEPT ![q] = g]
  BY <1>1 DEF Relay, OnData, Exchanges
<1> HIDE DEF n
<1>4. /\ g \in Exchanges /\ g.headersSent /\ g.answers = n
      /\ g.upstream = gateway[q].upstream
  BY <1>1 DEF Exchanges
<1>5. /\ api[q] \in Statuses
      /\ api[q] = "ok" => party[q] = "created"
      /\ api[q] = "unauthorized" => party[q] = "none"
  BY <1>2 DEF WebInv, CallOK, ExchangeOK
<1>6. Unanswered(q)
  BY <1>2 DEF Unanswered
<1> HIDE DEF g
<1> QED BY <1>2, <1>3, <1>4, <1>5, <1>6, AnswerKeeps DEF n

LEMMA RelayEndKeeps ==
    ASSUME WebInv, NEW q \in Calls, RelayEnd(q)
    PROVE  WebInv'
<1> DEFINE g == [gateway[q] EXCEPT !.upstream = "closed", !.settled = TRUE]
           msg == [type |-> "body", call |-> q]
<1>1. gateway[q] \in Exchanges
  BY DEF WebInv, ShapeOK
<1>2. /\ g \in Exchanges /\ g.upstream = "closed"
      /\ g.headersSent = gateway[q].headersSent /\ g.answers = gateway[q].answers
  BY <1>1 DEF Exchanges
<1>3. /\ gateway' = [gateway EXCEPT ![q] = g]
      /\ UNCHANGED <<call, api, party, customers>>
      /\ wire' = wire \/ wire' = wire \cup {msg}
  BY <1>1 DEF RelayEnd, OnEnd, Answer
<1>4. "type" \in DOMAIN msg /\ msg.type = "body"
  OBVIOUS
<1>5. \A m \in wire : "type" \in DOMAIN m
  BY DEF WebInv, ShapeOK
<1> HIDE DEF g, msg
<1> QED BY <1>2, <1>3, <1>4, <1>5, ExchangeEventKeeps

LEMMA RelayErrorKeeps ==
    ASSUME WebInv, NEW q \in Calls, RelayError(q)
    PROVE  WebInv'
<1>1. gateway[q] \in Exchanges
  BY DEF WebInv, ShapeOK
<1>2. PICK upstream \in {"destroyed", "closed"} :
          gateway' = [gateway EXCEPT ![q] = GatewayError(q, upstream)]
  BY DEF RelayError, OnTimeout, OnError
<1> DEFINE sent == gateway[q].headersSent \/ Answering(q)
           n == IF Answering(q) THEN gateway[q].answers + 1 ELSE gateway[q].answers
           g == [gateway[q] EXCEPT !.upstream = upstream, !.settled = TRUE,
                                   !.headersSent = sent, !.answers = n]
<1>3. sent \in BOOLEAN /\ n \in Nat
  BY <1>1 DEF Exchanges
<1>4. gateway' = [gateway EXCEPT ![q] = g] /\ UNCHANGED <<api, party, customers>>
  BY <1>1, <1>2 DEF RelayError, OnTimeout, OnError, GatewayError, Exchanges
<1>5. /\ g \in Exchanges /\ g.upstream = upstream
      /\ g.headersSent = sent /\ g.answers = n
      /\ g.clientGone = gateway[q].clientGone
  <2> HIDE DEF sent, n
  <2> QED BY <1>1, <1>3 DEF Exchanges
<1> HIDE DEF g
<1>6. CASE ~Answering(q)
  <2>1. sent = gateway[q].headersSent /\ n = gateway[q].answers
    BY <1>1, <1>6 DEF Exchanges
  <2>2. UNCHANGED <<call, wire>>
    BY <1>6 DEF RelayError, webVars
  <2>3. \A m \in wire : "type" \in DOMAIN m
    BY DEF WebInv, ShapeOK
  <2>4. gateway[q].headersSent \/ gateway[q].clientGone
    BY <1>6 DEF Answering
  <2> QED BY <1>4, <1>5, <2>1, <2>2, <2>3, <2>4, ExchangeEventKeeps
<1>7. CASE Answering(q)
  <2>1. /\ gateway[q].upstream \in {"open", "responding", "destroyed"}
        /\ Answer(q, Status(q, "unavailable")) /\ "unavailable" \in Statuses
    BY <1>7 DEF RelayError, OnTimeout, OnError, Statuses
  <2>2. Unanswered(q)
    BY <1>7, <2>1 DEF Answering, Unanswered, WebInv, CallOK, ExchangeOK
  <2>3. g.headersSent /\ g.answers = gateway[q].answers + 1
    BY <1>5, <1>7
  <2> QED BY <1>4, <1>5, <2>1, <2>2, <2>3, AnswerKeeps
<1> QED BY <1>6, <1>7

-----------------------------------------------------------------------------
(* The API and the party service.                                          *)

LEMMA ServiceKeeps ==
    ASSUME WebInv, ServiceNext
    PROVE  WebInv'
<1>1. UNCHANGED <<call, wire>>
  BY DEF ServiceNext, webVars
<1>2. ASSUME NEW c \in Calls
      PROVE  Asked(c)' = Asked(c) /\ Answered(c)' = Answered(c)
  BY <1>1 DEF Asked, Answered
<1>3. ASSUME NEW q \in Calls, ApiAnswer(q) \/ ApiTimeout(q) PROVE WebInv'
  <2>1. /\ UNCHANGED <<gateway, party, customers>>
        /\ \/ api' = [api EXCEPT ![q] = "unavailable"]
           \/ api' = [api EXCEPT ![q] = "ok"] /\ party[q] = "created"
    BY <1>3 DEF ApiAnswer, ApiTimeout
  <2>2. ShapeOK'
    BY <1>1, <2>1 DEF WebInv, ShapeOK
  <2>3. RowsOK'
    BY <2>1, SameRows DEF WebInv
  <2>4. ASSUME NEW c \in Calls PROVE CallOK(c)'
    <3>1. /\ gateway'[c] = gateway[c] /\ party'[c] = party[c] /\ call'[c] = call[c]
          /\ \/ api'[c] = api[c] \/ api'[c] = "unavailable"
             \/ api'[c] = "ok" /\ party[c] = "created"
      BY <1>1, <2>1 DEF WebInv, ShapeOK
    <3>2. ExchangeOK(c)'
      BY <3>1 DEF WebInv, CallOK, ExchangeOK, Statuses
    <3>3. MessagesOK(c)' /\ PhaseOK(c)'
      BY <1>2, <3>1 DEF WebInv, CallOK, MessagesOK, PhaseOK, Unanswered
    <3> QED BY <3>2, <3>3 DEF CallOK
  <2> QED BY <2>2, <2>3, <2>4 DEF WebInv
<1>4. ASSUME NEW q \in Calls, CreateCustomer(q) PROVE WebInv'
  <2>1. /\ UNCHANGED <<gateway, api>> /\ party[q] = "received"
        /\ party' = [party EXCEPT ![q] = "created"]
        /\ customers' = Append(customers, q)
    BY <1>4 DEF CreateCustomer
  <2>2. ShapeOK'
    BY <1>1, <2>1 DEF WebInv, ShapeOK
  <2>3. RowsOK'
    <3>1. customers \in Seq(Calls) /\ ~HasRow(q)
      BY <2>1 DEF WebInv, RowsOK
    <3>2. /\ customers' \in Seq(Calls) /\ DOMAIN customers' = 1..Len(customers) + 1
          /\ \A i \in 1..Len(customers) : customers'[i] = customers[i]
          /\ customers'[Len(customers) + 1] = q
          /\ DOMAIN customers = 1..Len(customers) /\ Len(customers) \in Nat
      BY <2>1, <3>1
    <3>3. OneRowPerCall'
      BY <3>1, <3>2 DEF WebInv, RowsOK, OneRowPerCall, HasRow
    <3>4. ASSUME NEW c \in Calls PROVE HasRow(c)' <=> HasRow(c) \/ c = q
      BY <3>2 DEF HasRow
    <3> QED BY <2>1, <3>2, <3>3, <3>4 DEF WebInv, RowsOK, ShapeOK
  <2>4. ASSUME NEW c \in Calls PROVE CallOK(c)'
    BY <1>1, <1>2, <2>1 DEF WebInv, ShapeOK, CallOK, ExchangeOK, MessagesOK, PhaseOK, Unanswered
  <2> QED BY <2>2, <2>3, <2>4 DEF WebInv
<1>5. ASSUME NEW q \in Calls, RefuseContext(q) PROVE WebInv'
  <2>1. /\ UNCHANGED <<gateway, api, customers>> /\ party[q] = "received"
        /\ party' = [party EXCEPT ![q] = "refused"]
    BY <1>5 DEF RefuseContext
  <2>2. ShapeOK'
    BY <1>1, <2>1 DEF WebInv, ShapeOK
  <2>3. RowsOK'
    BY <2>1 DEF WebInv, ShapeOK, RowsOK, HasRow, OneRowPerCall
  <2>4. ASSUME NEW c \in Calls PROVE CallOK(c)'
    BY <1>1, <1>2, <2>1 DEF WebInv, ShapeOK, CallOK, ExchangeOK, MessagesOK, PhaseOK, Unanswered
  <2> QED BY <2>2, <2>3, <2>4 DEF WebInv
<1> QED BY <1>3, <1>4, <1>5 DEF ServiceNext

-----------------------------------------------------------------------------
(* The session of the browser, under rotation.  RotationInv is what makes  *)
(* ReplayMeansGivenUp inductive: under the Web Lock one refresh at a time  *)
(* is awaited, and the token it presents is the unused one.                *)

(* The messages of refreshes that are still awaited. *)
Awaited == {m \in wire : m.type = "refreshed" \/ (m.type = "refresh" /\ m.awaited)}

(* The browser's one session, and nobody else's. *)
AccountOK == AuthInv /\ Len(sessions) = 1

TabsOK ==
    /\ tabOf \in [Calls -> Tabs]
    /\ jar \in [access : {0, 1}, refresh : 0 .. Len(tokens)]
    /\ refreshing \in [Tabs -> {"no", "queued", "sent"}]
    /\ queue \in Seq(Tabs)
    /\ givenUp \in BOOLEAN

WireOK ==
    /\ wire \subseteq Messages
    /\ \A m \in wire : m.type \in {"refresh", "refreshed"} => m.token \in 0 .. Len(tokens)
    /\ \A m \in wire : m.type = "refreshed" => m.session \in {0, 1}

(* One refresh at a time is awaited: that of the tab with the Web Lock. *)
LockOK ==
    /\ \A t \in Tabs : refreshing[t] = "sent" => HoldsLock(t)
    /\ \A m \in Awaited : refreshing[m.tab] = "sent"
    /\ \A m1, m2 \in Awaited : m1 = m2

Unused(k) == k \in DOMAIN tokens /\ ~tokens[k].used

(* As long as no refresh was given up and the session stands, the unused   *)
(* token is the one the browser will present: on its way to the API, on    *)
(* its way back, or in the jar.                                            *)
RotationOK ==
    ~givenUp =>
        /\ \A m \in wire : m.type = "refresh" => m.awaited
        /\ sessions[1].revoked # "replay"
        /\ Accepted(1) =>
              /\ \A m \in Awaited : Unused(m.token)
              /\ Unused(jar.refresh) \/ \E m \in wire : m.type = "refreshed"

RotationInv == AccountOK /\ TabsOK /\ WireOK /\ LockOK /\ RotationOK

(* What the fields of a refresh message are. *)
LEMMA RefreshRow ==
    ASSUME NEW m \in Messages
    PROVE  /\ "type" \in DOMAIN m
           /\ m.type \in {"refresh", "refreshed"} => m.tab \in Tabs
           /\ m.type = "refresh" =>
                 /\ m.awaited \in BOOLEAN
                 /\ [m EXCEPT !.awaited = FALSE] \in Messages
                 /\ [m EXCEPT !.awaited = FALSE].type = "refresh"
                 /\ [m EXCEPT !.awaited = FALSE].token = m.token
                 /\ ~[m EXCEPT !.awaited = FALSE].awaited
BY DEF Messages

LEMMA RotationInitially == Init => RotationInv
<1> SUFFICES ASSUME Init PROVE RotationInv
  OBVIOUS
<1>1. PICK u \in Users, password \in Passwords :
        /\ user = [v \in Users |-> IF v # u THEN NoUser
                     ELSE [password |-> password, version |-> 0,
                           verified |-> FALSE, business |-> 1]]
        /\ sessions = <<[user |-> u, version |-> 0, expired |-> FALSE,
                         openedWith |-> password, revoked |-> "no"]>>
        /\ tokens = <<[session |-> 1, used |-> FALSE]>>
        /\ links = <<[user |-> u, purpose |-> "verify", state |-> "live"]>>
        /\ owners = <<u>>
        /\ pending = [r \in Requests |-> Idle]
        /\ BrowserInit([access |-> 1, refresh |-> 1])
  BY DEF Init
<1>2. /\ Len(sessions) = 1 /\ DOMAIN sessions = {1}
      /\ Len(tokens) = 1 /\ DOMAIN tokens = {1}
      /\ DOMAIN links = {1} /\ DOMAIN owners = {1}
      /\ sessions[1] = [user |-> u, version |-> 0, expired |-> FALSE,
                        openedWith |-> password, revoked |-> "no"]
      /\ tokens[1] = [session |-> 1, used |-> FALSE]
      /\ links[1] = [user |-> u, purpose |-> "verify", state |-> "live"]
      /\ owners[1] = u
      /\ user[u] = [password |-> password, version |-> 0, verified |-> FALSE, business |-> 1]
  BY <1>1
<1>3. AuthTypeOK
  <2>1. user \in [Users -> UserRows \cup {NoUser}]
    BY <1>1 DEF UserRows
  <2>2. sessions[1] \in SessionRows /\ tokens[1] \in TokenRows /\ links[1] \in LinkRows
    BY <1>2 DEF SessionRows, TokenRows, LinkRows, Purposes
  <2>3. sessions \in Seq(SessionRows) /\ tokens \in Seq(TokenRows)
    BY <1>1, <1>2, <2>2
  <2>4. links \in Seq(LinkRows) /\ owners \in Seq(Users)
    BY <1>1, <1>2, <2>2
  <2>5. pending \in [Requests -> Handlers \cup {Idle}]
    BY <1>1
  <2> QED BY <2>1, <2>3, <2>4, <2>5 DEF AuthTypeOK
<1>4. \A r \in Requests : pending[r] = Idle /\ pending[r].op # "login"
  BY <1>1 DEF Idle
<1>5. Exists(u)
  <2>1. user[u].version = 0
    BY <1>2
  <2>2. user[u] # NoUser
    BY <1>2 DEF NoUser
  <2> QED BY <2>2 DEF Exists
<1>6. AuthInv
  <2>1. RefsOK
    BY <1>2, <1>4, <1>5 DEF RefsOK
  <2>2. CredentialsOK
    BY <1>2, <1>4 DEF CredentialsOK, Credential
  <2>3. OneLiveToken /\ OneUsableLink /\ OneBusinessPerUser
    BY <1>2 DEF OneLiveToken, OneUsableLink, OneBusinessPerUser
  <2> QED BY <1>3, <2>1, <2>2, <2>3 DEF AuthInv
<1>7. AccountOK
  BY <1>2, <1>6 DEF AccountOK
<1>8. TabsOK
  <2>1. /\ tabOf \in [Calls -> Tabs] /\ jar = [access |-> 1, refresh |-> 1]
        /\ refreshing = [t \in Tabs |-> "no"] /\ queue = << >> /\ givenUp = FALSE
    BY <1>1 DEF BrowserInit
  <2>2. jar \in [access : {0, 1}, refresh : 0 .. Len(tokens)]
    BY <1>2, <2>1
  <2>3. refreshing \in [Tabs -> {"no", "queued", "sent"}]
    BY <2>1
  <2>4. queue \in Seq(Tabs)
    <3>1. << >> \in Seq(Tabs)
      OBVIOUS
    <3> QED BY <2>1, <3>1
  <2>5. givenUp \in BOOLEAN
    BY <2>1
  <2> QED BY <2>1, <2>2, <2>3, <2>4, <2>5 DEF TabsOK
<1>9. wire = {} /\ Awaited = {} /\ \A t \in Tabs : refreshing[t] # "sent"
  BY <1>1 DEF BrowserInit, Awaited
<1>10. WireOK /\ LockOK
  BY <1>9 DEF WireOK, LockOK
<1>11. RotationOK
  <2>1. Unused(jar.refresh)
    BY <1>1, <1>2 DEF BrowserInit, Unused
  <2>2. sessions[1].revoked = "no"
    BY <1>2
  <2> QED BY <1>9, <2>1, <2>2 DEF RotationOK
<1> QED BY <1>7, <1>8, <1>10, <1>11 DEF RotationInv

(* The browser's account does not change where its tables do not. *)
LEMMA SameAccount ==
    ASSUME RotationInv, UNCHANGED <<user, sessions, tokens, links, owners, pending>>
    PROVE  AccountOK'
BY DEF RotationInv, AccountOK, AuthInv, AuthTypeOK, RefsOK, Exists, CredentialsOK,
       OneLiveToken, OneUsableLink, OneBusinessPerUser

(* Steps of the calls: no refresh message comes or goes, and the lock is   *)
(* where it was.                                                           *)
LEMMA CallsKeepRotation ==
    ASSUME RotationInv, UNCHANGED <<authVars, jar, givenUp, tabOf>>,
           wire' \subseteq Messages,
           \A m : m.type \in {"refresh", "refreshed"} => (m \in wire' <=> m \in wire),
           refreshing' \in [Tabs -> {"no", "queued", "sent"}], queue' \in Seq(Tabs),
           \A t \in Tabs : refreshing'[t] = "sent" <=> refreshing[t] = "sent",
           \A t \in Tabs : HoldsLock(t) => HoldsLock(t)'
    PROVE  RotationInv'
<1>1. UNCHANGED <<user, sessions, tokens, links, owners, pending>>
  BY DEF authVars
<1>2. AccountOK'
  BY <1>1, SameAccount
<1>3. TabsOK'
  BY <1>1 DEF RotationInv, TabsOK
<1>4. WireOK'
  BY <1>1 DEF RotationInv, WireOK
<1>5. Awaited' = Awaited
  BY DEF Awaited
<1>6. LockOK'
  <2>1. \A m \in Awaited : m.tab \in Tabs
    BY RefreshRow DEF RotationInv, WireOK, Awaited
  <2> QED BY <1>5, <2>1 DEF RotationInv, LockOK
<1>7. RotationOK'
  BY <1>1, <1>5 DEF RotationInv, RotationOK, Accepted, Unused
<1> QED BY <1>2, <1>3, <1>4, <1>6, <1>7 DEF RotationInv

(* The same when the tabs do not change either. *)
LEMMA WireKeepsRotation ==
    ASSUME RotationInv, UNCHANGED <<authVars, jar, givenUp, tabOf, refreshing, queue>>,
           wire' \subseteq Messages,
           \A m : m.type \in {"refresh", "refreshed"} => (m \in wire' <=> m \in wire)
    PROVE  RotationInv'
<1>1. refreshing' \in [Tabs -> {"no", "queued", "sent"}] /\ queue' \in Seq(Tabs)
  BY DEF RotationInv, TabsOK
<1>2. \A t \in Tabs : HoldsLock(t)' <=> HoldsLock(t)
  BY DEF HoldsLock
<1> QED BY <1>1, <1>2, CallsKeepRotation

LEMMA CallStepKeepsRotation ==
    ASSUME RotationInv, UNCHANGED tabOf, NEW c \in Calls,
           \/ Send(c) \/ SendAgain(c) \/ GiveUp(c)
           \/ \E m \in wire : Receive(c, m) \/ ReadBody(c, m)
    PROVE  RotationInv'
<1>1. wire \subseteq Messages /\ jar.access \in Nat
  BY DEF RotationInv, WireOK, TabsOK
<1>2. ASSUME Send(c) \/ SendAgain(c) PROVE RotationInv'
  <2> DEFINE msg == [type |-> "call", call |-> c, session |-> jar.access]
  <2>1. /\ wire' = wire \cup {msg}
        /\ UNCHANGED <<authVars, jar, givenUp, refreshing, queue>>
    BY <1>2 DEF Send, SendAgain, Request
  <2>2. msg \in Messages /\ msg.type = "call"
    BY <1>1 DEF Messages
  <2> HIDE DEF msg
  <2>3. wire' \subseteq Messages
    BY <1>1, <2>1, <2>2
  <2>4. \A m : m.type \in {"refresh", "refreshed"} => (m \in wire' <=> m \in wire)
    BY <2>1, <2>2
  <2> QED BY <2>1, <2>3, <2>4, WireKeepsRotation
<1>3. ASSUME GiveUp(c) PROVE RotationInv'
  <2>1. wire' = {m \in wire : m.type \in {"answer", "body"} => m.call # c}
        /\ UNCHANGED <<authVars, jar, givenUp, refreshing, queue>>
    BY <1>3 DEF GiveUp
  <2>2. wire' \subseteq Messages
    BY <1>1, <2>1
  <2>3. \A m : m.type \in {"refresh", "refreshed"} => (m \in wire' <=> m \in wire)
    BY <2>1
  <2> QED BY <2>1, <2>2, <2>3, WireKeepsRotation
<1>4. ASSUME NEW m \in wire, ReadBody(c, m) PROVE RotationInv'
  <2>1. /\ wire' = wire \ {m} /\ m.type = "body"
        /\ UNCHANGED <<authVars, jar, givenUp, refreshing, queue>>
    BY <1>4 DEF ReadBody
  <2>2. wire' \subseteq Messages
    BY <1>1, <2>1
  <2>3. \A n : n.type \in {"refresh", "refreshed"} => (n \in wire' <=> n \in wire)
    BY <2>1
  <2> QED BY <2>1, <2>2, <2>3, WireKeepsRotation
<1>5. ASSUME NEW m \in wire, Receive(c, m) PROVE RotationInv'
  <2>1. /\ wire' = wire \ {m} /\ m.type = "answer"
        /\ UNCHANGED <<authVars, jar, givenUp>>
    BY <1>5 DEF Receive
  <2>2. wire' \subseteq Messages
    BY <1>1, <2>1
  <2>3. \A n : n.type \in {"refresh", "refreshed"} => (n \in wire' <=> n \in wire)
    BY <2>1
  <2>4. CASE UNCHANGED <<refreshing, queue>>
    BY <2>1, <2>2, <2>3, <2>4, WireKeepsRotation
  <2>5. CASE ~UNCHANGED <<refreshing, queue>>
    <3> DEFINE t == tabOf[c]
    <3>1. /\ refreshing[t] = "no"
          /\ refreshing' = [refreshing EXCEPT ![t] = "queued"]
          /\ queue' = Append(queue, t)
      BY <1>5, <2>5 DEF Receive, AwaitRefresh
    <3>2. t \in Tabs /\ queue \in Seq(Tabs) /\ refreshing \in [Tabs -> {"no", "queued", "sent"}]
      BY DEF RotationInv, TabsOK
    <3> HIDE DEF t
    <3>3. /\ refreshing' \in [Tabs -> {"no", "queued", "sent"}]
          /\ \A u \in Tabs : refreshing'[u] = "sent" <=> refreshing[u] = "sent"
      BY <3>1, <3>2
    <3>4. queue' \in Seq(Tabs) /\ \A u \in Tabs : HoldsLock(u) => HoldsLock(u)'
      BY <3>1, <3>2 DEF HoldsLock
    <3> QED BY <2>1, <2>2, <2>3, <3>3, <3>4, CallsKeepRotation
  <2> QED BY <2>4, <2>5
<1> QED BY <1>2, <1>3, <1>4, <1>5

-----------------------------------------------------------------------------
(* Steps of a refresh. *)

(* The lock is held by one tab at most: after its refresh settles no tab   *)
(* has one under way.                                                      *)
LEMMA ResumeFreesLock ==
    ASSUME RotationInv, NEW t \in Tabs, NEW phase, refreshing[t] = "sent", Resume(t, phase)
    PROVE  /\ refreshing' \in [Tabs -> {"no", "queued", "sent"}]
           /\ queue' \in Seq(Tabs)
           /\ \A u \in Tabs : refreshing'[u] # "sent"
<1>1. /\ refreshing \in [Tabs -> {"no", "queued", "sent"}] /\ queue \in Seq(Tabs)
      /\ \A u \in Tabs : refreshing[u] = "sent" => HoldsLock(u)
  BY DEF RotationInv, TabsOK, LockOK
<1>2. queue # << >> /\ Head(queue) = t
  BY <1>1 DEF HoldsLock
<1>3. refreshing' = [refreshing EXCEPT ![t] = "no"] /\ queue' = Tail(queue)
  BY DEF Resume
<1>4. queue' \in Seq(Tabs)
  BY <1>1, <1>2, <1>3
<1>5. \A u \in Tabs : refreshing[u] = "sent" => u = t
  BY <1>1, <1>2 DEF HoldsLock
<1> QED BY <1>1, <1>3, <1>4, <1>5

LEMMA SendRefreshKeepsRotation ==
    ASSUME RotationInv, UNCHANGED tabOf, NEW t \in Tabs, SendRefresh(t)
    PROVE  RotationInv'
<1> DEFINE msg == [type |-> "refresh", tab |-> t, awaited |-> TRUE, token |-> jar.refresh]
<1>1. /\ refreshing[t] = "queued" /\ HoldsLock(t)
      /\ refreshing' = [refreshing EXCEPT ![t] = "sent"]
      /\ wire' = wire \cup {msg}
      /\ UNCHANGED <<authVars, jar, queue, givenUp>>
  BY DEF SendRefresh
<1>2. UNCHANGED <<user, sessions, tokens, links, owners, pending>>
  BY <1>1 DEF authVars
<1>3. jar.refresh \in 0 .. Len(tokens) /\ Len(tokens) \in Nat
  BY DEF RotationInv, TabsOK, AccountOK, AuthInv, AuthTypeOK
<1>4. /\ msg \in Messages /\ msg.type = "refresh" /\ msg.awaited /\ msg.tab = t
      /\ msg.token = jar.refresh
  BY <1>3 DEF Messages
<1> HIDE DEF msg
<1>5. AccountOK'
  BY <1>2, SameAccount
<1>6. TabsOK'
  BY <1>1, <1>2 DEF RotationInv, TabsOK
<1>7. WireOK'
  BY <1>1, <1>2, <1>3, <1>4 DEF RotationInv, WireOK
<1>8. Awaited = {}
  <2>1. ASSUME NEW m \in Awaited PROVE FALSE
    <3>1. m.tab \in Tabs /\ refreshing[m.tab] = "sent"
      BY RefreshRow DEF RotationInv, WireOK, LockOK, Awaited
    <3>2. HoldsLock(m.tab)
      BY <3>1 DEF RotationInv, LockOK
    <3> QED BY <1>1, <3>1, <3>2 DEF HoldsLock
  <2> QED BY <2>1
<1>9. Awaited' = {msg}
  BY <1>1, <1>4, <1>8 DEF Awaited
<1>10. LockOK'
  <2>1. \A u \in Tabs : HoldsLock(u)' <=> HoldsLock(u)
    BY <1>1 DEF HoldsLock
  <2>2. \A u \in Tabs : refreshing'[u] = "sent" => u = t \/ refreshing[u] = "sent"
    BY <1>1 DEF RotationInv, TabsOK
  <2>3. refreshing'[t] = "sent"
    BY <1>1 DEF RotationInv, TabsOK
  <2> QED BY <1>1, <1>4, <1>9, <2>1, <2>2, <2>3 DEF RotationInv, LockOK
<1>11. RotationOK'
  <2> SUFFICES ASSUME ~givenUp
               PROVE  /\ \A m \in wire' : m.type = "refresh" => m.awaited
                      /\ sessions[1].revoked # "replay"
                      /\ Accepted(1) =>
                            /\ \A m \in Awaited' : Unused(m.token)
                            /\ Unused(jar.refresh) \/ \E m \in wire' : m.type = "refreshed"
    BY <1>1, <1>2 DEF RotationOK, Accepted, Unused
  <2>1. \A m \in wire : m.type # "refreshed"
    BY <1>8 DEF Awaited
  <2>2. Accepted(1) => Unused(jar.refresh)
    BY <2>1 DEF RotationInv, RotationOK
  <2> QED BY <1>1, <1>4, <1>9, <2>2 DEF RotationInv, RotationOK
<1> QED BY <1>5, <1>6, <1>7, <1>10, <1>11 DEF RotationInv

LEMMA GiveUpRefreshKeepsRotation ==
    ASSUME RotationInv, UNCHANGED tabOf, NEW t \in Tabs, GiveUpRefresh(t)
    PROVE  RotationInv'
<1> DEFINE mine == {m \in wire : m.type \in {"refresh", "refreshed"} /\ m.tab = t}
           kept == {[m EXCEPT !.awaited = FALSE] : m \in {n \in mine : n.type = "refresh"}}
<1>1. /\ refreshing[t] = "sent" /\ Resume(t, "unreachable")
      /\ wire' = (wire \ mine) \cup kept /\ givenUp' = TRUE
      /\ UNCHANGED <<authVars, jar>>
  BY DEF GiveUpRefresh
<1>2. UNCHANGED <<user, sessions, tokens, links, owners, pending>>
  BY <1>1 DEF authVars
<1>3. /\ refreshing' \in [Tabs -> {"no", "queued", "sent"}]
      /\ queue' \in Seq(Tabs)
      /\ \A u \in Tabs : refreshing'[u] # "sent"
  BY <1>1, ResumeFreesLock
<1>4. \A m \in kept : /\ m \in Messages /\ m.type = "refresh" /\ ~m.awaited
                      /\ m.token \in 0 .. Len(tokens)
  <2> SUFFICES ASSUME NEW n \in mine, n.type = "refresh", NEW m, m = [n EXCEPT !.awaited = FALSE]
               PROVE  /\ m \in Messages /\ m.type = "refresh" /\ ~m.awaited
                      /\ m.token \in 0 .. Len(tokens)
    OBVIOUS
  <2>1. n \in wire /\ n \in Messages /\ n.token \in 0 .. Len(tokens)
    BY DEF RotationInv, WireOK
  <2> HIDE DEF mine
  <2> QED BY <2>1, RefreshRow
<1>5. \A m \in wire : m.type \in {"refresh", "refreshed"} /\ m.tab = t => m \in mine
  OBVIOUS
<1> HIDE DEF mine, kept
<1>6. AccountOK'
  BY <1>2, SameAccount
<1>7. TabsOK'
  BY <1>1, <1>2, <1>3 DEF RotationInv, TabsOK
<1>8. WireOK'
  BY <1>1, <1>2, <1>4 DEF RotationInv, WireOK
<1>9. Awaited' = {}
  <2>1. ASSUME NEW m \in Awaited' PROVE FALSE
    <3>1. m \in wire' /\ (m.type = "refreshed" \/ (m.type = "refresh" /\ m.awaited))
      BY DEF Awaited
    <3>2. m \in wire /\ m \notin mine
      BY <1>1, <1>4, <3>1
    <3>3. m \in Awaited /\ m.tab \in Tabs
      BY <3>1, <3>2, RefreshRow DEF Awaited, RotationInv, WireOK
    <3>4. refreshing[m.tab] = "sent"
      BY <3>3 DEF RotationInv, LockOK
    <3>5. HoldsLock(m.tab) /\ HoldsLock(t)
      BY <1>1, <3>3, <3>4 DEF RotationInv, LockOK
    <3> QED BY <1>5, <3>1, <3>2, <3>5 DEF HoldsLock
  <2> QED BY <2>1
<1>10. LockOK'
  BY <1>3, <1>9 DEF LockOK
<1>11. RotationOK'
  BY <1>1 DEF RotationOK
<1> QED BY <1>6, <1>7, <1>8, <1>10, <1>11 DEF RotationInv

LEMMA ReceiveRefreshKeepsRotation ==
    ASSUME RotationInv, UNCHANGED tabOf, NEW t \in Tabs, NEW m \in wire, ReceiveRefresh(t, m)
    PROVE  RotationInv'
<1>1. PICK phase :
      /\ m.type = "refreshed" /\ m.tab = t /\ Resume(t, phase)
      /\ wire' = wire \ {m} /\ jar' = [access |-> m.session, refresh |-> m.token]
      /\ UNCHANGED <<authVars, givenUp>>
  BY DEF ReceiveRefresh
<1>2. UNCHANGED <<user, sessions, tokens, links, owners, pending>>
  BY <1>1 DEF authVars
<1>3. m \in Awaited /\ refreshing[t] = "sent"
  BY <1>1 DEF Awaited, RotationInv, LockOK
<1>4. /\ refreshing' \in [Tabs -> {"no", "queued", "sent"}]
      /\ queue' \in Seq(Tabs)
      /\ \A u \in Tabs : refreshing'[u] # "sent"
  BY <1>1, <1>3, ResumeFreesLock
<1>5. AccountOK'
  BY <1>2, SameAccount
<1>6. TabsOK'
  <2>1. m.session \in {0, 1} /\ m.token \in 0 .. Len(tokens)
    BY <1>1 DEF RotationInv, WireOK
  <2> QED BY <1>1, <1>2, <1>4, <2>1 DEF RotationInv, TabsOK
<1>7. WireOK'
  BY <1>1, <1>2 DEF RotationInv, WireOK
<1>8. Awaited' = {}
  <2>1. \A n \in Awaited : n = m
    BY <1>3 DEF RotationInv, LockOK
  <2> QED BY <1>1, <2>1 DEF Awaited
<1>9. LockOK'
  BY <1>4, <1>8 DEF LockOK
<1>10. RotationOK'
  <2>1. ~givenUp /\ Accepted(1) => Unused(m.token)
    BY <1>3 DEF RotationInv, RotationOK
  <2>2. Accepted(1)' <=> Accepted(1)
    BY <1>2 DEF Accepted
  <2>3. Unused(m.token)' <=> Unused(m.token)
    BY <1>2 DEF Unused
  <2>4. ~givenUp /\ Accepted(1) => Unused(jar.refresh)'
    BY <1>1, <1>2, <2>1 DEF Unused
  <2> QED BY <1>1, <1>2, <1>8, <2>2, <2>4 DEF RotationInv, RotationOK
<1> QED BY <1>5, <1>6, <1>7, <1>9, <1>10 DEF RotationInv

(* The API answers a refresh at most once, and nobody when its tab gave up. *)
LEMMA AnswerKeepsLock ==
    ASSUME RotationInv, UNCHANGED <<tabOf, jar, refreshing, queue, givenUp>>,
           NEW m \in wire, m.type = "refresh",
           Len(tokens') \in Nat, Len(tokens) <= Len(tokens'),
           NEW session \in {0, 1}, NEW token \in 0 .. Len(tokens'),
           wire' = (wire \ {m}) \cup RefreshAnswer(m, session, token)
    PROVE  /\ TabsOK' /\ WireOK' /\ LockOK'
           /\ \A n \in wire' : n.type = "refresh" => n \in wire
           /\ m.awaited => /\ \A n \in Awaited' : n.token = token
                           /\ \E n \in wire' : n.type = "refreshed"
<1> DEFINE answer == [type |-> "refreshed", tab |-> m.tab, session |-> session, token |-> token]
<1>1. /\ m \in Messages /\ m.tab \in Tabs /\ m.awaited \in BOOLEAN
      /\ Len(tokens) \in Nat
  <2>1. m \in Messages
    BY DEF RotationInv, WireOK
  <2>2. Len(tokens) \in Nat
    BY DEF RotationInv, AccountOK, AuthInv, AuthTypeOK
  <2> QED BY <2>1, <2>2, RefreshRow
<1>2. /\ answer \in Messages /\ answer.type = "refreshed" /\ answer.tab = m.tab
      /\ answer.session = session /\ answer.token = token
  BY <1>1 DEF Messages
<1>3. wire' = (wire \ {m}) \cup (IF m.awaited THEN {answer} ELSE {})
  BY DEF RefreshAnswer
<1> HIDE DEF answer
<1>4. \A k : k \in 0 .. Len(tokens) => k \in 0 .. Len(tokens')
  BY <1>1
<1>5. TabsOK'
  <2>1. jar.refresh \in 0 .. Len(tokens') /\ jar.access \in {0, 1}
    BY <1>4 DEF RotationInv, TabsOK
  <2>2. jar \in [access : {0, 1}, refresh : 0 .. Len(tokens')]
    BY <2>1 DEF RotationInv, TabsOK
  <2> QED BY <2>2 DEF RotationInv, TabsOK
<1>6. WireOK'
  BY <1>2, <1>3, <1>4 DEF RotationInv, WireOK
<1>7. m.awaited => Awaited' = {answer} /\ refreshing[m.tab] = "sent"
  <2> SUFFICES ASSUME m.awaited PROVE Awaited' = {answer} /\ refreshing[m.tab] = "sent"
    OBVIOUS
  <2>1. m \in Awaited
    BY DEF Awaited
  <2>2. \A n \in Awaited : n = m
    BY <2>1 DEF RotationInv, LockOK
  <2>3. refreshing[m.tab] = "sent"
    BY <2>1 DEF RotationInv, LockOK
  <2> QED BY <1>2, <1>3, <2>2, <2>3 DEF Awaited
<1>8. ~m.awaited => Awaited' = Awaited
  BY <1>3 DEF Awaited
<1>9. \A t \in Tabs : HoldsLock(t)' <=> HoldsLock(t)
  BY DEF HoldsLock
<1>10. LockOK'
  BY <1>1, <1>2, <1>7, <1>8, <1>9 DEF RotationInv, LockOK
<1> QED BY <1>2, <1>3, <1>5, <1>6, <1>7, <1>10

LEMMA ServeRefreshKeepsRotation ==
    ASSUME RotationInv, UNCHANGED tabOf, NEW m \in wire, ServeRefresh(m)
    PROVE  RotationInv'
<1>1. m.type = "refresh" /\ UNCHANGED <<jar, call, refreshing, queue, givenUp>>
  BY DEF ServeRefresh
<1>2. PICK k : k = m.token
  OBVIOUS
<1>3. /\ k \in 0 .. Len(tokens) /\ Len(tokens) \in Nat
      /\ DOMAIN tokens = 1 .. Len(tokens) /\ tokens \in Seq(TokenRows)
      /\ DOMAIN sessions = {1} /\ sessions \in Seq(SessionRows)
      /\ AuthInv
  BY <1>1, <1>2 DEF RotationInv, WireOK, AccountOK, AuthInv, AuthTypeOK
<1>4. \A t \in DOMAIN tokens : tokens[t].session = 1
  BY <1>3 DEF AuthInv, RefsOK
<1>5. ~givenUp /\ Accepted(1) => m.awaited /\ Unused(k)
  BY <1>1, <1>2 DEF RotationInv, RotationOK, Awaited
<1>6. ~givenUp => m.awaited /\ (\A n \in wire : n.type = "refresh" => n.awaited)
                            /\ sessions[1].revoked # "replay"
  BY <1>1 DEF RotationInv, RotationOK
<1> DEFINE answers(session, token) == wire' = (wire \ {m}) \cup RefreshAnswer(m, session, token)
<1>7. \/ UNCHANGED authVars /\ answers(0, 0) /\ ~(k # 0 /\ Accepted(tokens[k].session))
      \/ /\ k # 0 /\ Accepted(tokens[k].session) /\ Refresh(k)
         /\ tokens[k].used /\ answers(0, 0)
      \/ /\ k # 0 /\ Accepted(tokens[k].session) /\ Refresh(k)
         /\ ~tokens[k].used /\ answers(tokens[k].session, Len(tokens) + 1)
  BY <1>2 DEF ServeRefresh
<1>8. ASSUME UNCHANGED authVars, answers(0, 0), ~(k # 0 /\ Accepted(tokens[k].session))
      PROVE  RotationInv'
  <2>1. UNCHANGED <<user, sessions, tokens, links, owners, pending>>
    BY <1>8 DEF authVars
  <2>2. AccountOK'
    BY <2>1, SameAccount
  <2>3. TabsOK' /\ WireOK' /\ LockOK' /\ \A n \in wire' : n.type = "refresh" => n \in wire
    BY <1>1, <1>3, <1>8, <2>1, AnswerKeepsLock
  <2>4. ~givenUp => ~Accepted(1)
    BY <1>3, <1>4, <1>5, <1>8 DEF Unused
  <2>5. RotationOK'
    BY <1>1, <1>6, <2>1, <2>3, <2>4 DEF RotationOK, Accepted
  <2> QED BY <2>2, <2>3, <2>5 DEF RotationInv
<1>9. ASSUME k # 0, Accepted(tokens[k].session), Refresh(k), tokens[k].used, answers(0, 0)
      PROVE  RotationInv'
  <2>1. k \in DOMAIN tokens /\ tokens[k].session = 1
    BY <1>3, <1>4, <1>9
  <2>2. givenUp
    BY <1>5, <1>9, <2>1 DEF Unused
  <2>3. AuthInv'
    BY <1>3, <1>9, <2>1, RefreshKeepsInv
  <2>4. Revoke({1}, "replay") /\ UNCHANGED tokens
    BY <1>9, <2>1 DEF Refresh
  <2>5. sessions' \in Seq(SessionRows) /\ DOMAIN sessions' = DOMAIN sessions
    BY <1>3, <2>4, RevokeEnds
  <2>6. AccountOK'
    BY <1>3, <2>3, <2>5 DEF RotationInv, AccountOK
  <2>7. TabsOK' /\ WireOK' /\ LockOK'
    BY <1>1, <1>3, <1>9, <2>4, AnswerKeepsLock
  <2>8. RotationOK'
    BY <1>1, <2>2 DEF RotationOK
  <2> QED BY <2>6, <2>7, <2>8 DEF RotationInv
<1>10. ASSUME k # 0, Accepted(tokens[k].session), Refresh(k), ~tokens[k].used,
              answers(tokens[k].session, Len(tokens) + 1)
       PROVE  RotationInv'
  <2>0. PICK fresh : fresh = Len(tokens) + 1
    OBVIOUS
  <2> DEFINE row == [session |-> 1, used |-> FALSE]
             spent == [tokens EXCEPT ![k].used = TRUE]
  <2>1. k \in DOMAIN tokens /\ tokens[k].session = 1
    BY <1>3, <1>4, <1>10
  <2>2. AuthInv'
    BY <1>3, <1>10, <2>1, RefreshKeepsInv
  <2>3. tokens' = Append(spent, row) /\ UNCHANGED <<sessions, user>>
    BY <1>10, <2>1 DEF Refresh, Rotate
  <2>4. ~row.used
    OBVIOUS
  <2>5. Len(spent) = Len(tokens)
    BY <1>3, <2>1
  <2> HIDE DEF row, spent
  <2>6. Len(tokens') = fresh /\ fresh \in DOMAIN tokens' /\ tokens'[fresh] = row
    <3>1. tokens' \in Seq(TokenRows)
      BY <2>2 DEF AuthInv, AuthTypeOK
    <3>2. Len(Append(spent, row)) = Len(spent) + 1 /\ Append(spent, row)[Len(spent) + 1] = row
      BY <1>3, <2>1 DEF spent
    <3> QED BY <1>3, <2>0, <2>3, <2>5, <3>1, <3>2
  <2>7. AccountOK'
    BY <2>2, <2>3 DEF RotationInv, AccountOK
  <2>8. /\ TabsOK' /\ WireOK' /\ LockOK'
        /\ \A n \in wire' : n.type = "refresh" => n \in wire
        /\ m.awaited => /\ \A n \in Awaited' : n.token = fresh
                        /\ \E n \in wire' : n.type = "refreshed"
    <3>1. fresh \in Nat /\ fresh \in 0 .. Len(tokens') /\ Len(tokens) <= Len(tokens')
      BY <1>3, <2>0, <2>6
    <3>2. wire' = (wire \ {m}) \cup RefreshAnswer(m, 1, fresh)
      BY <1>10, <2>0, <2>1
    <3> HIDE DEF answers
    <3> QED BY <1>1, <2>6, <3>1, <3>2, AnswerKeepsLock
  <2>9. RotationOK'
    <3>1. Unused(fresh)'
      BY <2>4, <2>6 DEF Unused
    <3>2. (~givenUp)' => m.awaited
      BY <1>1, <1>6
    <3> QED BY <1>1, <1>6, <2>3, <2>8, <3>1, <3>2 DEF RotationOK, Unused
  <2> QED BY <2>7, <2>8, <2>9 DEF RotationInv
<1> QED BY <1>7, <1>8, <1>9, <1>10

(* Whichever cookie names the session, it is the browser's. *)
LEMMA SignOutEnds ==
    ASSUME RotationInv, SignOut
    PROVE  Logout(1)
<1>1. /\ jar \in [access : {0, 1}, refresh : 0 .. Len(tokens)]
      /\ DOMAIN tokens = 1 .. Len(tokens) /\ Len(tokens) \in Nat
      /\ DOMAIN sessions = {1} /\ AuthInv
  BY DEF RotationInv, TabsOK, AccountOK, AuthInv, AuthTypeOK
<1>2. /\ jar.access \in {0, 1} /\ jar.refresh \in 0 .. Len(tokens)
      /\ jar = [access |-> jar.access, refresh |-> jar.refresh]
  BY <1>1
<1>3. \A t \in DOMAIN tokens : tokens[t].session = 1
  BY <1>1 DEF AuthInv, RefsOK
<1>4. (IF jar.refresh # 0 THEN tokens[jar.refresh].session ELSE jar.access) = 1
  BY <1>1, <1>2, <1>3 DEF SignOut, EmptyJar
<1> QED BY <1>4 DEF SignOut

(* Signing out ends the session; the end of an access token leaves it be.  *)
LEMMA AccountKeepsRotation ==
    ASSUME RotationInv, UNCHANGED tabOf, AccountNext
    PROVE  RotationInv'
<1>1. /\ jar \in [access : {0, 1}, refresh : 0 .. Len(tokens)]
      /\ DOMAIN tokens = 1 .. Len(tokens) /\ Len(tokens) \in Nat
      /\ DOMAIN sessions = {1} /\ sessions \in Seq(SessionRows)
      /\ AuthInv
  BY DEF RotationInv, TabsOK, AccountOK, AuthInv, AuthTypeOK
<1>2. EmptyJar \in [access : {0, 1}, refresh : 0 .. Len(tokens)]
  BY <1>1 DEF EmptyJar
<1>3. ASSUME SignOut PROVE RotationInv'
  <2>1. /\ Logout(1) /\ UNCHANGED <<call, refreshing, queue, wire, givenUp>>
        /\ jar' \in {jar, EmptyJar}
    <3>1. Logout(1)
      BY <1>3, SignOutEnds
    <3>2. Here(EmptyJar) \/ Elsewhere
      BY <1>3 DEF SignOut
    <3> QED BY <3>1, <3>2 DEF Here, Elsewhere, webVars
  <2>2. Revoke({1}, "logout") /\ UNCHANGED <<user, tokens, links, owners, pending>>
    BY <2>1 DEF Logout
  <2>3. AuthInv'
    BY <1>1, <2>1, EndsKeepInv
  <2>4. DOMAIN sessions' = DOMAIN sessions /\ sessions' \in Seq(SessionRows)
    BY <1>1, <2>2, RevokeEnds
  <2>5. AccountOK'
    BY <1>1, <2>3, <2>4 DEF RotationInv, AccountOK
  <2>6. TabsOK'
    BY <1>1, <1>2, <2>1, <2>2 DEF RotationInv, TabsOK
  <2>7. WireOK'
    BY <2>1, <2>2 DEF RotationInv, WireOK
  <2>8. Awaited' = Awaited
    BY <2>1 DEF Awaited
  <2>9. LockOK'
    BY <2>1, <2>8 DEF RotationInv, LockOK, HoldsLock
  <2>10. /\ sessions'[1].revoked # "no"
         /\ sessions[1].revoked # "replay" => sessions'[1].revoked # "replay"
    <3>1. sessions[1] \in SessionRows
      BY <1>1
    <3>2. [sessions[1] EXCEPT !.revoked = "logout"].revoked = "logout"
      BY <3>1 DEF SessionRows
    <3>3. sessions'[1] = IF sessions[1].revoked = "no"
                         THEN [sessions[1] EXCEPT !.revoked = "logout"] ELSE sessions[1]
      BY <1>1, <2>2 DEF Revoke
    <3> QED BY <3>2, <3>3
  <2>11. RotationOK'
    BY <2>1, <2>10 DEF RotationInv, RotationOK, Accepted
  <2> QED BY <2>5, <2>6, <2>7, <2>9, <2>11 DEF RotationInv
<1>4. ASSUME ExpireAccess PROVE RotationInv'
  <2>1. /\ jar' = [jar EXCEPT !.access = 0]
        /\ UNCHANGED <<call, refreshing, queue, wire, givenUp, authVars>>
    BY <1>4 DEF ExpireAccess, Here
  <2>2. UNCHANGED <<user, sessions, tokens, links, owners, pending>>
    BY <2>1 DEF authVars
  <2>3. jar' \in [access : {0, 1}, refresh : 0 .. Len(tokens)] /\ jar'.refresh = jar.refresh
    BY <1>1, <2>1
  <2>4. AccountOK'
    BY <2>2, SameAccount
  <2>5. TabsOK'
    BY <2>1, <2>2, <2>3 DEF RotationInv, TabsOK
  <2>6. WireOK'
    BY <2>1, <2>2 DEF RotationInv, WireOK
  <2>7. Awaited' = Awaited
    BY <2>1 DEF Awaited
  <2>8. LockOK'
    BY <2>1, <2>7 DEF RotationInv, LockOK, HoldsLock
  <2>9. RotationOK'
    BY <2>1, <2>2, <2>3, <2>7 DEF RotationInv, RotationOK, Accepted, Unused
  <2> QED BY <2>4, <2>5, <2>6, <2>8, <2>9 DEF RotationInv
<1> QED BY <1>3, <1>4 DEF AccountNext

(* The gateway takes calls and adds answers, no refresh. *)
LEMMA AnswersKeepRotation ==
    ASSUME RotationInv, UNCHANGED tabOf, NEW c, NEW answer, Answer(c, answer),
           answer \subseteq Messages, \A m \in answer : m.type \notin {"refresh", "refreshed"}
    PROVE  RotationInv'
<1>1. /\ UNCHANGED <<authVars, jar, givenUp, refreshing, queue>>
      /\ wire' \in {wire, wire \cup answer}
  BY DEF Answer
<1>2. wire' \subseteq Messages
  BY <1>1 DEF RotationInv, WireOK
<1>3. \A m : m.type \in {"refresh", "refreshed"} => (m \in wire' <=> m \in wire)
  BY <1>1
<1> QED BY <1>1, <1>2, <1>3, WireKeepsRotation

LEMMA GatewayKeepsRotation ==
    ASSUME RotationInv, WebInv, UNCHANGED tabOf, GatewayNext
    PROVE  RotationInv'
<1>1. ASSUME NEW m \in wire, Arrive(m) PROVE RotationInv'
  <2>1. /\ m.type = "call" /\ wire' = wire \ {m}
        /\ UNCHANGED <<authVars, jar, givenUp, refreshing, queue>>
    BY <1>1 DEF Arrive
  <2>2. wire' \subseteq Messages
    BY <2>1 DEF RotationInv, WireOK
  <2>3. \A n : n.type \in {"refresh", "refreshed"} => (n \in wire' <=> n \in wire)
    BY <2>1
  <2> QED BY <2>1, <2>2, <2>3, WireKeepsRotation
<1>2. ASSUME NEW c \in Calls, NEW status \in Statuses
      PROVE  /\ Status(c, status) \subseteq Messages
             /\ \A m \in Status(c, status) : m.type \notin {"refresh", "refreshed"}
  BY DEF Status, Messages
<1>3. ASSUME NEW c \in Calls, Relay(c) PROVE RotationInv'
  <2>1. api[c] \in Statuses
    BY <1>3 DEF Relay, OnData, WebInv, CallOK, ExchangeOK
  <2>2. Answer(c, Status(c, api[c]))
    BY <1>3 DEF Relay
  <2> QED BY <1>2, <2>1, <2>2, AnswersKeepRotation
<1>4. ASSUME NEW c \in Calls, RelayEnd(c) PROVE RotationInv'
  <2> DEFINE answer == IF api[c] = "ok" THEN {[type |-> "body", call |-> c]} ELSE {}
  <2>1. Answer(c, answer)
    BY <1>4 DEF RelayEnd
  <2>2. answer \subseteq Messages /\ \A m \in answer : m.type \notin {"refresh", "refreshed"}
    BY DEF Messages
  <2> HIDE DEF answer
  <2> QED BY <2>1, <2>2, AnswersKeepRotation
<1>5. ASSUME UNCHANGED <<authVars, webVars>> PROVE RotationInv'
  <2>1. wire' \subseteq Messages
    BY <1>5 DEF RotationInv, WireOK, webVars
  <2>2. UNCHANGED <<jar, givenUp, refreshing, queue, wire>>
    BY <1>5 DEF webVars
  <2> QED BY <1>5, <2>1, <2>2, WireKeepsRotation
<1>6. ASSUME NEW c \in Calls, RelayError(c) PROVE RotationInv'
  <2>1. CASE ~Answering(c)
    BY <1>6, <1>5, <2>1 DEF RelayError
  <2>2. CASE Answering(c)
    <3>1. Answer(c, Status(c, "unavailable"))
      BY <1>6, <2>2 DEF RelayError
    <3>2. "unavailable" \in Statuses
      BY DEF Statuses
    <3> QED BY <1>2, <3>1, <3>2, AnswersKeepRotation
  <2> QED BY <2>1, <2>2
<1>7. ASSUME NEW c \in Calls, Respond(c) \/ Leave(c) PROVE RotationInv'
  BY <1>5, <1>7 DEF Respond, Leave
<1> QED BY <1>1, <1>3, <1>4, <1>6, <1>7 DEF GatewayNext

LEMMA RotationStep ==
    ASSUME RotationInv, WebInv, [Next]_vars
    PROVE  RotationInv'
<1>1. ASSUME UNCHANGED <<authVars, webVars>>, UNCHANGED tabOf PROVE RotationInv'
  <2>1. UNCHANGED <<jar, givenUp, refreshing, queue, wire>>
    BY <1>1 DEF webVars
  <2>2. wire' \subseteq Messages
    BY <2>1 DEF RotationInv, WireOK
  <2> QED BY <1>1, <2>1, <2>2, WireKeepsRotation
<1>2. ASSUME BrowserNext, UNCHANGED tabOf PROVE RotationInv'
  BY <1>2, CallStepKeepsRotation, SendRefreshKeepsRotation, GiveUpRefreshKeepsRotation,
     ReceiveRefreshKeepsRotation, ServeRefreshKeepsRotation, Zenon DEF BrowserNext
<1>3. CASE UNCHANGED vars
  BY <1>1, <1>3 DEF vars
<1>4. CASE Next
  <2>1. UNCHANGED tabOf
    BY <1>4 DEF Next
  <2>2. CASE BrowserNext
    BY <1>2, <2>1, <2>2
  <2>3. CASE AccountNext
    BY <2>1, <2>3, AccountKeepsRotation
  <2>4. CASE GatewayNext
    BY <2>1, <2>4, GatewayKeepsRotation
  <2>5. CASE ServiceNext
    BY <1>1, <2>1, <2>5 DEF ServiceNext
  <2> QED BY <1>4, <2>2, <2>3, <2>4, <2>5 DEF Next
<1> QED BY <1>3, <1>4

-----------------------------------------------------------------------------
LEMMA StepKeeps ==
    ASSUME WebInv, [Next]_vars
    PROVE  WebInv'
<1>1. CASE BrowserNext /\ UNCHANGED partyVars
  BY <1>1, RequestKeeps, ReceiveKeeps, SettleKeeps, RefreshStepKeeps, Zenon DEF BrowserNext
<1>2. CASE AccountNext /\ UNCHANGED partyVars
  BY <1>2, RefreshStepKeeps
<1>3. CASE GatewayNext
  BY <1>3, ArriveKeeps, QuietEventKeeps, RelayKeeps, RelayEndKeeps, RelayErrorKeeps
     DEF GatewayNext
<1>4. CASE ServiceNext
  BY <1>4, ServiceKeeps
<1>5. CASE UNCHANGED vars
  <2>1. UNCHANGED <<call, wire, gateway, api, party, customers>>
    BY <1>5 DEF vars, webVars, partyVars
  <2>2. ASSUME NEW c \in Calls
        PROVE  Asked(c)' = Asked(c) /\ Answered(c)' = Answered(c)
    BY <2>1 DEF Asked, Answered
  <2> QED BY <2>1, <2>2, SameCall, SameRows DEF WebInv, ShapeOK
<1> QED BY <1>1, <1>2, <1>3, <1>4, <1>5 DEF Next

LEMMA Always == Spec => []WebInv
<1> QED BY Initially, StepKeeps, PTL DEF Spec

(* A call makes one customer at most, though api() may send it twice and   *)
(* gateway, API and browser may each stop waiting while the row is made.   *)
THEOREM CallsCreateOnce == Spec => []OneRowPerCall
<1>1. WebInv => OneRowPerCall
  BY DEF WebInv, RowsOK
<1> QED BY <1>1, Always, PTL

(* A call that succeeds, even with a body cut off, has its row, and one    *)
(* that ends unauthorized has none.                                        *)
THEOREM AnswersAreTrue == Spec => []AnswersMatchRows
<1>1. WebInv => AnswersMatchRows
  BY DEF WebInv, RowsOK, HasRow, CallOK, PhaseOK, AnswersMatchRows
<1> QED BY <1>1, Always, PTL

(* Response, end, timeout and error of an exchange write one answer.       *)
THEOREM ExchangesAnswerOnce == Spec => []OneAnswer
<1>1. WebInv => OneAnswer
  BY DEF WebInv, CallOK, ExchangeOK, OneAnswer
<1> QED BY <1>1, Always, PTL

LEMMA RotationAlways == Spec => []RotationInv
<1> QED BY RotationInitially, RotationStep, Always, PTL DEF Spec

(* Every variable of browser, API, gateway and party service keeps its     *)
(* type, however the four race.                                            *)
THEOREM WebTypeOK == Spec => []TypeOK
<1>1. ASSUME WebInv, RotationInv PROVE TypeOK
  <2>1. AuthTypeOK
    BY <1>1 DEF RotationInv, AccountOK, AuthInv
  <2>2. BrowserTypeOK
    <3>1. Len(tokens) \in Nat
      BY <2>1 DEF AuthTypeOK
    <3>2. jar \in [access : {0, 1}, refresh : 0 .. Len(tokens)]
      BY <1>1 DEF RotationInv, TabsOK
    <3>3. jar \in [access : Nat, refresh : Nat]
      BY <3>1, <3>2
    <3>4. /\ tabOf \in [Calls -> Tabs] /\ refreshing \in [Tabs -> {"no", "queued", "sent"}]
          /\ queue \in Seq(Tabs) /\ givenUp \in BOOLEAN
      BY <1>1 DEF RotationInv, TabsOK
    <3>5. wire \subseteq Messages
      BY <1>1 DEF RotationInv, WireOK
    <3>6. call \in [Calls -> Settled \cup {"idle", "sent", "refreshing", "again", "resent",
                                           "reading"}]
      BY <1>1 DEF WebInv, ShapeOK
    <3> QED BY <3>3, <3>4, <3>5, <3>6 DEF BrowserTypeOK
  <2>3. PartiesTypeOK
    BY <1>1 DEF WebInv, ShapeOK, RowsOK, PartiesTypeOK
  <2> QED BY <2>1, <2>2, <2>3 DEF TypeOK
<1> QED BY <1>1, Always, RotationAlways, PTL

(* In a browser that has Web Locks, with the shared refresh of each tab,   *)
(* the rotation revokes the session of this browser as replayed only after *)
(* some refresh was given up, its answer lost; whatever number of calls    *)
(* and tabs meets the end of the access token.                             *)
THEOREM ReplaysMeanLostAnswers == Spec => []ReplayMeansGivenUp
<1>1. ASSUME RotationInv PROVE ReplayMeansGivenUp
  <2>1. DOMAIN sessions = {1}
    BY <1>1 DEF RotationInv, AccountOK, AuthInv, AuthTypeOK
  <2> QED BY <1>1, <2>1 DEF RotationInv, RotationOK, ReplayMeansGivenUp
<1> QED BY <1>1, RotationAlways, PTL

-----------------------------------------------------------------------------
(* What this browser does to its account is what any client of Auth does.  *)

LEMMA StepIsAuthStep ==
    ASSUME RotationInv, [Next]_vars
    PROVE  [AuthNext]_authVars
<1>1. DOMAIN sessions = {1} /\ DOMAIN tokens = 1 .. Len(tokens)
  BY DEF RotationInv, AccountOK, AuthInv, AuthTypeOK
<1>2. ASSUME NEW c \in Calls, Send(c) \/ SendAgain(c) \/ GiveUp(c)
      PROVE  UNCHANGED authVars
  BY <1>2 DEF Send, SendAgain, Request, GiveUp
<1>3. ASSUME NEW t \in Tabs, SendRefresh(t) \/ GiveUpRefresh(t)
      PROVE  UNCHANGED authVars
  BY <1>3 DEF SendRefresh, GiveUpRefresh
<1>4. ASSUME NEW m \in wire,
             \/ \E c \in Calls : Receive(c, m) \/ ReadBody(c, m)
             \/ \E t \in Tabs : ReceiveRefresh(t, m)
      PROVE  UNCHANGED authVars
  BY <1>4 DEF Receive, ReadBody, ReceiveRefresh
<1>5. ASSUME NEW m \in wire, ServeRefresh(m)
      PROVE  [AuthNext]_authVars
  <2>1. m.type = "refresh"
    BY <1>5 DEF ServeRefresh
  <2>2. m.token \in 0 .. Len(tokens)
    BY <2>1 DEF RotationInv, WireOK
  <2>3. UNCHANGED authVars \/ (m.token # 0 /\ Refresh(m.token))
    BY <1>5 DEF ServeRefresh
  <2>4. m.token # 0 => m.token \in DOMAIN tokens
    BY <1>1, <2>2
  <2> QED BY <2>3, <2>4 DEF AuthNext
<1>6. ASSUME AccountNext
      PROVE  [AuthNext]_authVars
  <2>1. CASE SignOut
    BY <1>1, <2>1, SignOutEnds DEF AuthNext
  <2>2. CASE ExpireAccess
    BY <2>2 DEF ExpireAccess
  <2> QED BY <1>6, <2>1, <2>2 DEF AccountNext
<1>7. ASSUME GatewayNext
      PROVE  UNCHANGED authVars
  BY <1>7 DEF GatewayNext, Arrive, Respond, Relay, RelayEnd, RelayError, Leave, Answer
<1>8. ASSUME ServiceNext
      PROVE  UNCHANGED authVars
  BY <1>8 DEF ServiceNext
<1>9. ASSUME BrowserNext
      PROVE  [AuthNext]_authVars
  BY <1>2, <1>3, <1>4, <1>5, <1>9, Zenon DEF BrowserNext
<1>10. CASE UNCHANGED vars
  BY <1>10 DEF vars
<1> QED BY <1>6, <1>7, <1>8, <1>9, <1>10 DEF Next

(* Composed with the browser, the accounts are still those of Auth: every  *)
(* step of Web is a step Auth allows an arbitrary client, or none of it.   *)
THEOREM BrowserIsAClient == Spec => [][AuthNext]_authVars
<1> QED BY StepIsAuthStep, RotationAlways, PTL DEF Spec

(* So the session of the browser, once signed out or revoked as replayed,  *)
(* is never accepted again, whatever refreshes are still on the wire.      *)
THEOREM BrowserSessionsAreOver == Spec => EndedSessionsStayEnded
<1>1. RotationInv /\ [Next]_vars
        => [\A s \in DOMAIN sessions : Accepted(s)' => Accepted(s)]_authVars
  BY StepIsAuthStep, NoSessionReturns DEF RotationInv, AccountOK
<1> QED BY <1>1, RotationAlways, PTL DEF Spec, EndedSessionsStayEnded

=============================================================================
