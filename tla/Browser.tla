------------------------------ MODULE Browser -------------------------------
(***************************************************************************)
(* One web browser in front of Auth (apps/web/lib/api.ts): several tabs    *)
(* with one cookie jar.  A call answered 401 refreshes the session and is  *)
(* sent once more; the calls of one tab share one refresh, and the tabs    *)
(* take turns under the Web Lock "gst-session-refresh".  A request is      *)
(* given up after fifteen seconds, while the servers may still serve it.   *)
(*                                                                         *)
(* The browser has Web Locks: without them api.ts falls back to refreshing *)
(* with no turn taken between tabs.  The calls pass no signal of their own *)
(* (api.ts would then set no timer), as creating a customer does not.      *)
(*                                                                         *)
(* Each call is made once.  The browser starts out signed in, and nobody   *)
(* else holds its cookies; what else may happen to the account is Auth's,  *)
(* and to a call it looks like signing out, or like giving up.  A lost     *)
(* message is one the network never delivers, and closing a tab looks like *)
(* giving up its requests; neither is a step of its own.  Of the refreshes *)
(* a tab gave up with one token, one at most is still on the wire.         *)
(***************************************************************************)
EXTENDS Auth, Parties

CONSTANTS Tabs

VARIABLES tabOf,      \* the tab each call of api() is made in
          jar,        \* the access and the refresh cookie, 0 when absent
          call,       \* where each call of api() is
          refreshing, \* where the refresh of each tab is
          queue,      \* tabs holding (the first) and awaiting the Web Lock
          wire,       \* messages between the browser and the API
          givenUp     \* whether any refresh was given up (not in the code)

(* tabOf never changes *)
webVars == <<jar, call, refreshing, queue, wire, givenUp>>

Statuses == {"ok", "unauthorized", "unavailable"}
(* A call that returned: the answer, an empty object in its place, or the  *)
(* ApiError thrown.                                                        *)
Settled == {"ok", "blank", "unauthorized", "unavailable", "unreachable"}
EmptyJar == [access |-> 0, refresh |-> 0]

Messages ==
    [type : {"call"}, call : Calls, session : Nat]
    \cup [type : {"answer"}, call : Calls, status : Statuses]
    \cup [type : {"body"}, call : Calls]
    \cup [type : {"refresh"}, tab : Tabs, awaited : BOOLEAN, token : Nat]
    \cup [type : {"refreshed"}, tab : Tabs, session : Nat, token : Nat]

BrowserTypeOK ==
    /\ tabOf \in [Calls -> Tabs]
    /\ jar \in [access : Nat, refresh : Nat]
    /\ call \in [Calls -> Settled \cup {"idle", "sent", "refreshing", "again", "resent",
                                     "reading"}]
    /\ refreshing \in [Tabs -> {"no", "queued", "sent"}]
    /\ queue \in Seq(Tabs)
    /\ wire \subseteq Messages
    /\ givenUp \in BOOLEAN

BrowserInit(cookies) ==
    /\ tabOf \in [Calls -> Tabs]
    /\ jar = cookies
    /\ call = [c \in Calls |-> "idle"]
    /\ refreshing = [t \in Tabs |-> "no"]
    /\ queue = << >>
    /\ wire = {}
    /\ givenUp = FALSE

-----------------------------------------------------------------------------
(* api().                                                                  *)

Request(c, phase) ==
    /\ call' = [call EXCEPT ![c] = phase]
    /\ wire' = wire \cup {[type |-> "call", call |-> c, session |-> jar.access]}
    /\ UNCHANGED <<authVars, jar, refreshing, queue, givenUp>>

Send(c) == call[c] = "idle" /\ Request(c, "sent")
SendAgain(c) == call[c] = "again" /\ Request(c, "resent")

(* Mutant of Retries: any failure is retried. *)
RetriesFailures(status) == status # "ok"

(* The answers after which api() refreshes and sends the request again. *)
Retries(status) == status = "unauthorized"

(* `refreshing ??= refreshSession()`: join the tab's refresh or start it. *)
AwaitRefresh(c) ==
    /\ call' = [call EXCEPT ![c] = "refreshing"]
    /\ IF refreshing[tabOf[c]] = "no"
       THEN /\ refreshing' = [refreshing EXCEPT ![tabOf[c]] = "queued"]
            /\ queue' = Append(queue, tabOf[c])
       ELSE UNCHANGED <<refreshing, queue>>

(* The status decides; of the body, only the one of a success matters. *)
Receive(c, m) ==
    /\ m.type = "answer"
    /\ m.call = c
    /\ call[c] \in {"sent", "resent"}
    /\ wire' = wire \ {m}
    /\ IF call[c] = "sent" /\ Retries(m.status)
       THEN AwaitRefresh(c)
       ELSE /\ call' = [call EXCEPT ![c] = IF m.status = "ok" THEN "reading" ELSE m.status]
            /\ UNCHANGED <<refreshing, queue>>
    /\ UNCHANGED <<authVars, jar, givenUp>>

ReadBody(c, m) ==
    /\ m.type = "body"
    /\ m.call = c
    /\ call[c] = "reading"
    /\ call' = [call EXCEPT ![c] = "ok"]
    /\ wire' = wire \ {m}
    /\ UNCHANGED <<authVars, jar, refreshing, queue, givenUp>>

(* AbortSignal.timeout, which a call has that passes no signal itself: the *)
(* request may still be served, nobody reads the answer.  Once the status  *)
(* is in, `response.json().catch` turns the abort into an empty object.    *)
GiveUp(c) ==
    /\ \/ /\ call[c] \in {"sent", "resent"}
          /\ call' = [call EXCEPT ![c] = "unreachable"]
       \/ /\ call[c] = "reading"
          /\ call' = [call EXCEPT ![c] = "blank"]
    /\ wire' = {m \in wire : m.type \in {"answer", "body"} => m.call # c}
    /\ UNCHANGED <<authVars, jar, refreshing, queue, givenUp>>

-----------------------------------------------------------------------------
(* refreshSession().                                                       *)

(* Mutant of HoldsLock: the tabs do not wait for each other. *)
HoldsLockAlways(t) == TRUE

(* navigator.locks grants the lock in the order it was asked for.  Where  *)
(* there is no navigator.locks, nobody waits; that is not modelled.        *)
HoldsLock(t) == queue # << >> /\ Head(queue) = t

SendRefresh(t) ==
    /\ refreshing[t] = "queued"
    /\ HoldsLock(t)
    /\ refreshing' = [refreshing EXCEPT ![t] = "sent"]
    /\ wire' = wire \cup {[type |-> "refresh", tab |-> t, awaited |-> TRUE,
                           token |-> jar.refresh]}
    /\ UNCHANGED <<authVars, jar, call, queue, givenUp>>

Waiting(t) == {c \in Calls : tabOf[c] = t /\ call[c] = "refreshing"}

(* Mutant of Resume: the lock is kept when the refresh failed. *)
ResumeHolding(t, phase) ==
    /\ call' = [c \in Calls |-> IF c \in Waiting(t) THEN phase ELSE call[c]]
    /\ refreshing' = [refreshing EXCEPT ![t] = "no"]
    /\ queue' = IF phase = "again" THEN Tail(queue) ELSE queue

(* The refresh settles: the lock, which its tab holds, passes on,          *)
(* `refreshing` is reset and the calls awaiting it go on, or fail with it. *)
Resume(t, phase) ==
    /\ call' = [c \in Calls |-> IF c \in Waiting(t) THEN phase ELSE call[c]]
    /\ refreshing' = [refreshing EXCEPT ![t] = "no"]
    /\ queue' = Tail(queue)

ReceiveRefresh(t, m) ==
    /\ m.type = "refreshed"
    /\ m.tab = t
    /\ wire' = wire \ {m}
    /\ jar' = [access |-> m.session, refresh |-> m.token]
    /\ Resume(t, IF m.token = 0 THEN "unauthorized" ELSE "again")
    /\ UNCHANGED <<authVars, givenUp>>

(* The request may still be served; an answer on its way is dropped. *)
GiveUpRefresh(t) ==
    /\ refreshing[t] = "sent"
    /\ LET mine == {m \in wire : m.type \in {"refresh", "refreshed"} /\ m.tab = t}
           asked == {m \in mine : m.type = "refresh"}
       IN wire' = (wire \ mine) \cup {[m EXCEPT !.awaited = FALSE] : m \in asked}
    /\ Resume(t, "unreachable")
    /\ givenUp' = TRUE
    /\ UNCHANGED <<authVars, jar>>

-----------------------------------------------------------------------------
(* The API serves a refresh that is on the wire, awaited or not.           *)

RefreshAnswer(m, session, token) ==
    IF m.awaited
    THEN {[type |-> "refreshed", tab |-> m.tab, session |-> session, token |-> token]}
    ELSE {}

ServeRefresh(m) ==
    /\ m.type = "refresh"
    /\ LET fails == (wire \ {m}) \cup RefreshAnswer(m, 0, 0)
           rotates == (wire \ {m}) \cup RefreshAnswer(m, tokens[m.token].session,
                                                     Len(tokens) + 1)
       IN  IF m.token # 0 /\ Accepted(tokens[m.token].session)
           THEN /\ Refresh(m.token)
                /\ wire' = IF tokens[m.token].used THEN fails ELSE rotates
           ELSE wire' = fails /\ UNCHANGED authVars
    /\ UNCHANGED <<jar, call, refreshing, queue, givenUp>>

-----------------------------------------------------------------------------
(* Signing out in this browser, and the end of an access token.            *)

Elsewhere == UNCHANGED webVars

Here(cookies) == jar' = cookies /\ UNCHANGED <<call, refreshing, queue, wire, givenUp>>

(* The session is the refresh cookie's, or else the access cookie's; when  *)
(* the answer is lost the cookies stay.                                    *)
SignOut ==
    /\ jar # EmptyJar
    /\ Logout(IF jar.refresh # 0 THEN tokens[jar.refresh].session ELSE jar.access)
    /\ Here(EmptyJar) \/ Elsewhere

(* After fifteen minutes the access cookie and the JWT in it expire. *)
ExpireAccess ==
    /\ jar.access # 0
    /\ Here([jar EXCEPT !.access = 0])
    /\ UNCHANGED authVars

-----------------------------------------------------------------------------
BrowserNext ==
    \/ \E c \in Calls : Send(c) \/ SendAgain(c) \/ GiveUp(c)
    \/ \E t \in Tabs : SendRefresh(t) \/ GiveUpRefresh(t)
    \/ \E m \in wire :
          \/ \E c \in Calls : Receive(c, m) \/ ReadBody(c, m)
          \/ \E t \in Tabs : ReceiveRefresh(t, m)
          \/ ServeRefresh(m)

AccountNext == SignOut \/ ExpireAccess

-----------------------------------------------------------------------------
(* Properties.                                                             *)

(* The rotation never turns against its own browser: with the Web Lock and *)
(* the shared refresh, a session of this browser is revoked as replayed    *)
(* only after some refresh was given up, its answer lost.  Of a browser    *)
(* that has no Web Locks nothing is claimed.                               *)
ReplayMeansGivenUp ==
    (\E s \in DOMAIN sessions : sessions[s].revoked = "replay") => givenUp

=============================================================================
