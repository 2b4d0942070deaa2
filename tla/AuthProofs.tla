----------------------------- MODULE AuthProofs -----------------------------
(***************************************************************************)
(* Auth for any number of users, passwords and running requests, and any   *)
(* bounds on the tables.                                                   *)
(*                                                                         *)
(* The inductive invariant AuthInv adds to the properties what they rest   *)
(* on: ids point at rows (RefsOK), and what a session or a running login   *)
(* remembers of its user is not ahead of the user, and as long as the      *)
(* versions agree so do the passwords (CredentialsOK).  Each helper of the *)
(* module has a lemma that says what it leaves of a table.                 *)
(***************************************************************************)
EXTENDS Auth, TLAPS

RefsOK ==
    /\ \A s \in DOMAIN sessions : Exists(sessions[s].user)
    /\ \A t \in DOMAIN tokens : tokens[t].session \in DOMAIN sessions
    /\ \A l \in DOMAIN links : Exists(links[l].user)
    /\ \A b \in DOMAIN owners : Exists(owners[b])
    /\ \A r \in Requests : pending[r] # Idle => Exists(pending[r].user)

(* A version and a password the account had at some time. *)
Credential(account, version, password) ==
    /\ version <= account.version
    /\ version = account.version => password = account.password

CredentialsOK ==
    /\ \A s \in DOMAIN sessions :
          Credential(user[sessions[s].user], sessions[s].version, sessions[s].openedWith)
    /\ \A r \in Requests : pending[r].op = "login" =>
          Credential(user[pending[r].user], pending[r].version, pending[r].password)

AuthInv == /\ AuthTypeOK /\ RefsOK /\ CredentialsOK
           /\ OneLiveToken /\ OneUsableLink /\ OneBusinessPerUser

-----------------------------------------------------------------------------
(* Rows of users and handlers.                                             *)

LEMMA UserRow ==
    ASSUME AuthTypeOK, NEW u \in Users
    PROVE  /\ user[u] \in UserRows \cup {NoUser}
           /\ Exists(u) <=> user[u] \in UserRows
<1>1. NoUser \notin UserRows
  BY DEF NoUser, UserRows
<1> QED BY <1>1 DEF AuthTypeOK, Exists

LEMMA HandlerRow ==
    ASSUME AuthTypeOK, NEW r \in Requests
    PROVE  /\ pending[r] # Idle => pending[r].user \in Users
           /\ pending[r].op # "idle" => pending[r] # Idle
           /\ pending[r].op = "login" =>
                 pending[r].version \in Nat /\ pending[r].password \in Passwords
           /\ pending[r].op = "create" => pending[r].business \in Nat
BY DEF AuthTypeOK, Handlers, Idle

LEMMA RowUsers ==
    ASSUME AuthTypeOK
    PROVE  /\ \A s \in DOMAIN sessions : /\ sessions[s] \in SessionRows
                                        /\ sessions[s].user \in Users
                                        /\ sessions[s].version \in Nat
           /\ \A l \in DOMAIN links : links[l] \in LinkRows /\ links[l].user \in Users
           /\ \A b \in DOMAIN owners : owners[b] \in Users
<1>1. \A s \in DOMAIN sessions : sessions[s] \in SessionRows
  BY DEF AuthTypeOK
<1>2. \A l \in DOMAIN links : links[l] \in LinkRows
  BY DEF AuthTypeOK
<1>3. \A b \in DOMAIN owners : owners[b] \in Users
  BY DEF AuthTypeOK
<1>4. \A row \in SessionRows : row.user \in Users /\ row.version \in Nat
  BY DEF SessionRows
<1>5. \A row \in LinkRows : row.user \in Users
  BY DEF LinkRows
<1> QED BY <1>1, <1>2, <1>3, <1>4, <1>5

(* Session adds one row and its only token. *)
LEMMA SessionAdds ==
    ASSUME AuthInv, NEW u \in Users, NEW version \in Nat, NEW password \in Passwords,
           Session(u, version, password)
    PROVE  /\ sessions' \in Seq(SessionRows)
           /\ tokens' \in Seq(TokenRows)
           /\ \A t \in DOMAIN tokens' : tokens'[t].session \in DOMAIN sessions'
           /\ OneLiveToken'
           /\ \A s \in DOMAIN sessions : s \in DOMAIN sessions' /\ sessions'[s] = sessions[s]
           /\ \A s \in DOMAIN sessions' :
                 \/ s \in DOMAIN sessions /\ sessions'[s] = sessions[s]
                 \/ /\ sessions'[s].user = u
                    /\ sessions'[s].version = version
                    /\ sessions'[s].openedWith = password
<1> DEFINE row == [user |-> u, version |-> version, expired |-> FALSE,
                   openedWith |-> password, revoked |-> "no"]
           new == [session |-> Len(sessions) + 1, used |-> FALSE]
<1>1. sessions \in Seq(SessionRows) /\ tokens \in Seq(TokenRows)
  BY DEF AuthInv, AuthTypeOK
<1>2. row \in SessionRows
  BY DEF SessionRows
<1>3. new \in TokenRows /\ new.session = Len(sessions) + 1 /\ ~new.used
  BY <1>1 DEF TokenRows
<1>4. sessions' = Append(sessions, row) /\ tokens' = Append(tokens, new)
  BY DEF Session
<1>5. row.user = u /\ row.version = version /\ row.openedWith = password
  OBVIOUS
<1> HIDE DEF row, new
<1>6. /\ sessions' \in Seq(SessionRows)
      /\ Len(sessions) \in Nat
      /\ DOMAIN sessions = 1 .. Len(sessions)
      /\ DOMAIN sessions' = 1 .. (Len(sessions) + 1)
      /\ sessions'[Len(sessions) + 1] = row
      /\ \A s \in DOMAIN sessions : sessions'[s] = sessions[s]
  BY <1>1, <1>2, <1>4
<1>7. /\ tokens' \in Seq(TokenRows)
      /\ Len(tokens) \in Nat
      /\ DOMAIN tokens = 1 .. Len(tokens)
      /\ DOMAIN tokens' = 1 .. (Len(tokens) + 1)
      /\ tokens'[Len(tokens) + 1] = new
      /\ \A t \in DOMAIN tokens : tokens'[t] = tokens[t]
  BY <1>1, <1>3, <1>4
<1>8. \A t \in DOMAIN tokens : tokens[t].session \in DOMAIN sessions
  BY DEF AuthInv, RefsOK
<1>9. \A t \in DOMAIN tokens' : tokens'[t].session \in DOMAIN sessions'
  BY <1>3, <1>6, <1>7, <1>8
<1>10. OneLiveToken'
  <2>1. \A s \in DOMAIN sessions' : s \in DOMAIN sessions \/ s = Len(sessions) + 1
    BY <1>6
  <2>2. ASSUME NEW s \in DOMAIN sessions
        PROVE  /\ \E t \in DOMAIN tokens' : tokens'[t].session = s /\ ~tokens'[t].used
               /\ \A t1, t2 \in DOMAIN tokens' :
                     /\ tokens'[t1].session = s /\ ~tokens'[t1].used
                     /\ tokens'[t2].session = s /\ ~tokens'[t2].used
                     => t1 = t2
    <3>1. s # new.session
      BY <1>3, <1>6
    <3>2. \A t \in DOMAIN tokens' : tokens'[t].session = s => t \in DOMAIN tokens
      BY <1>7, <3>1
    <3>3. \A t \in DOMAIN tokens : t \in DOMAIN tokens'
      BY <1>7
    <3> QED BY <1>7, <3>2, <3>3 DEF AuthInv, OneLiveToken
  <2>3. \A t \in DOMAIN tokens' : tokens'[t].session = Len(sessions) + 1 => t = Len(tokens) + 1
    BY <1>6, <1>7, <1>8
  <2>4. Len(tokens) + 1 \in DOMAIN tokens'
    BY <1>7
  <2> QED BY <1>3, <1>7, <2>1, <2>2, <2>3, <2>4 DEF OneLiveToken
<1>11. \A s \in DOMAIN sessions : s \in DOMAIN sessions'
  BY <1>6
<1>12. \A s \in DOMAIN sessions' : s \in DOMAIN sessions \/ s = Len(sessions) + 1
  BY <1>6
<1> QED BY <1>5, <1>6, <1>7, <1>9, <1>10, <1>11, <1>12

(* Revoke ends sessions and changes nothing else of them. *)
LEMMA RevokeEnds ==
    ASSUME sessions \in Seq(SessionRows), NEW ended, NEW cause \in {"logout", "reset", "replay"},
           Revoke(ended, cause)
    PROVE  /\ sessions' \in Seq(SessionRows)
           /\ DOMAIN sessions' = DOMAIN sessions
           /\ \A s \in DOMAIN sessions :
                 /\ sessions'[s].user = sessions[s].user
                 /\ sessions'[s].version = sessions[s].version
                 /\ sessions'[s].openedWith = sessions[s].openedWith
                 /\ sessions'[s].expired = sessions[s].expired
                 /\ sessions'[s].revoked = "no" => sessions[s].revoked = "no"
<1>1. ASSUME NEW row \in SessionRows
      PROVE  /\ [row EXCEPT !.revoked = cause] \in SessionRows
             /\ [row EXCEPT !.revoked = cause].user = row.user
             /\ [row EXCEPT !.revoked = cause].version = row.version
             /\ [row EXCEPT !.revoked = cause].openedWith = row.openedWith
             /\ [row EXCEPT !.revoked = cause].expired = row.expired
             /\ [row EXCEPT !.revoked = cause].revoked # "no"
  BY DEF SessionRows
<1>2. /\ Len(sessions) \in Nat /\ DOMAIN sessions = 1 .. Len(sessions)
      /\ \A s \in DOMAIN sessions : sessions[s] \in SessionRows
  OBVIOUS
<1>3. /\ DOMAIN sessions' = DOMAIN sessions
      /\ \A s \in DOMAIN sessions :
            sessions'[s] \in {sessions[s], [sessions[s] EXCEPT !.revoked = cause]}
  BY DEF Revoke
<1>4. sessions' \in [1 .. Len(sessions) -> SessionRows]
  <2>1. sessions' = [s \in 1 .. Len(sessions) |-> sessions'[s]]
    BY <1>2 DEF Revoke
  <2> QED BY <1>1, <1>2, <1>3, <2>1
<1>5. sessions' \in Seq(SessionRows)
  BY <1>2, <1>4
<1>6. ASSUME NEW s \in DOMAIN sessions
      PROVE  /\ sessions'[s].user = sessions[s].user
             /\ sessions'[s].version = sessions[s].version
             /\ sessions'[s].openedWith = sessions[s].openedWith
             /\ sessions'[s].expired = sessions[s].expired
             /\ sessions'[s].revoked = "no" => sessions[s].revoked = "no"
  <2>1. CASE sessions'[s] = sessions[s]
    BY <2>1
  <2>2. CASE sessions'[s] = [sessions[s] EXCEPT !.revoked = cause]
    BY <1>1, <1>2, <2>2
  <2> QED BY <1>3, <2>1, <2>2
<1> QED BY <1>3, <1>5, <1>6

(* Burnt leaves no live link of the user and purpose, and adds none. *)
LEMMA BurntLinks ==
    ASSUME NEW table \in Seq(LinkRows), NEW u, NEW purpose, NEW but
    PROVE  /\ Burnt(table, u, purpose, but) \in Seq(LinkRows)
           /\ DOMAIN Burnt(table, u, purpose, but) = DOMAIN table
           /\ \A l \in DOMAIN table :
                 /\ Burnt(table, u, purpose, but)[l].user = table[l].user
                 /\ Burnt(table, u, purpose, but)[l].purpose = table[l].purpose
                 /\ Burnt(table, u, purpose, but)[l].state = "live" =>
                       /\ table[l].state = "live"
                       /\ ~(table[l].user = u /\ table[l].purpose = purpose)
<1> DEFINE burnt == Burnt(table, u, purpose, but)
<1>1. ASSUME NEW row \in LinkRows
      PROVE  /\ [row EXCEPT !.state = "used"] \in LinkRows
             /\ [row EXCEPT !.state = "used"].user = row.user
             /\ [row EXCEPT !.state = "used"].purpose = row.purpose
             /\ [row EXCEPT !.state = "used"].state # "live"
  BY DEF LinkRows
<1>2. /\ Len(table) \in Nat /\ DOMAIN table = 1 .. Len(table)
      /\ \A l \in DOMAIN table : table[l] \in LinkRows
  OBVIOUS
<1>3. /\ DOMAIN burnt = DOMAIN table
      /\ \A l \in DOMAIN table :
            burnt[l] = IF l = but \/ (table[l].user = u /\ table[l].purpose = purpose
                                      /\ table[l].state = "live")
                       THEN [table[l] EXCEPT !.state = "used"] ELSE table[l]
  BY DEF Burnt
<1>4. burnt \in [1 .. Len(table) -> LinkRows]
  <2>1. burnt = [l \in 1 .. Len(table) |-> burnt[l]]
    BY <1>2 DEF Burnt
  <2> HIDE DEF burnt
  <2> QED BY <1>1, <1>2, <1>3, <2>1
<1>5. burnt \in Seq(LinkRows)
  BY <1>2, <1>4
<1> HIDE DEF burnt
<1> QED BY <1>1, <1>2, <1>3, <1>5 DEF burnt

(* Issue leaves one live link of its user and purpose, the new one. *)
LEMMA IssueAdds ==
    ASSUME AuthInv, NEW u \in Users, NEW purpose \in Purposes, Issue(u, purpose)
    PROVE  /\ links' \in Seq(LinkRows)
           /\ OneUsableLink'
           /\ \A l \in DOMAIN links' :
                 \/ links'[l].user = u
                 \/ l \in DOMAIN links /\ links'[l].user = links[l].user
<1> DEFINE burnt == Burnt(links, u, purpose, 0)
           new == [user |-> u, purpose |-> purpose, state |-> "live"]
<1>1. links \in Seq(LinkRows)
  BY DEF AuthInv, AuthTypeOK
<1>2. new \in LinkRows /\ new.user = u /\ new.purpose = purpose
  BY DEF LinkRows
<1>3. /\ burnt \in Seq(LinkRows)
      /\ DOMAIN burnt = DOMAIN links
      /\ \A l \in DOMAIN links :
            /\ burnt[l].user = links[l].user
            /\ burnt[l].purpose = links[l].purpose
            /\ burnt[l].state = "live" =>
                  links[l].state = "live" /\ ~(links[l].user = u /\ links[l].purpose = purpose)
  BY <1>1, BurntLinks
<1>4. links' = Append(burnt, new)
  BY DEF Issue
<1> HIDE DEF burnt, new
<1>5. /\ links' \in Seq(LinkRows)
      /\ \A l \in DOMAIN links' :
            \/ l \in DOMAIN links /\ links'[l] = burnt[l]
            \/ l = Len(burnt) + 1 /\ links'[l] = new
  BY <1>2, <1>3, <1>4
<1>6. OneUsableLink'
  BY <1>2, <1>3, <1>5 DEF AuthInv, OneUsableLink
<1> QED BY <1>2, <1>3, <1>5, <1>6

-----------------------------------------------------------------------------
LEMMA InvInitially == AuthInit => AuthInv
<1> SUFFICES ASSUME AuthInit PROVE AuthInv
  OBVIOUS
<1>1. /\ sessions = << >> /\ tokens = << >> /\ links = << >> /\ owners = << >>
      /\ \A r \in Requests : pending[r] = Idle
  BY DEF AuthInit
<1>2. AuthTypeOK
  <2>1. << >> \in Seq(SessionRows) /\ << >> \in Seq(TokenRows) /\ << >> \in Seq(LinkRows)
        /\ << >> \in Seq(Users)
    OBVIOUS
  <2> QED BY <2>1 DEF AuthInit, AuthTypeOK
<1>3. RefsOK
  BY <1>1 DEF RefsOK
<1>4. CredentialsOK
  BY <1>1 DEF CredentialsOK, Idle
<1>5. OneLiveToken /\ OneUsableLink /\ OneBusinessPerUser
  BY <1>1 DEF OneLiveToken, OneUsableLink, OneBusinessPerUser
<1> QED BY <1>2, <1>3, <1>4, <1>5 DEF AuthInv

LEMMA SignupKeepsInv ==
    ASSUME AuthInv, NEW u \in Users, NEW password \in Passwords, Signup(u, password)
    PROVE  AuthInv'
<1> DEFINE row == [password |-> password, version |-> 0, verified |-> FALSE, business |-> 0]
           link == [user |-> u, purpose |-> "verify", state |-> "live"]
<1>1. row \in UserRows /\ row # NoUser /\ row.version = 0 /\ row.password = password
  BY DEF UserRows, NoUser
<1>2. link \in LinkRows /\ link.user = u
  BY DEF LinkRows, Purposes
<1>3. /\ ~Exists(u)
      /\ user' = [user EXCEPT ![u] = row]
      /\ Session(u, 0, password)
      /\ links' = Append(links, link)
      /\ UNCHANGED <<owners, pending>>
  BY DEF Signup
<1> HIDE DEF row, link
<1>4. /\ user' \in [Users -> UserRows \cup {NoUser}]
      /\ user'[u] = row
      /\ \A v \in Users : v # u => user'[v] = user[v]
  BY <1>1, <1>3 DEF AuthInv, AuthTypeOK
<1>5. \A v \in Users : Exists(v) => v # u /\ Exists(v)'
  BY <1>3, <1>4 DEF Exists
<1>6. Exists(u)'
  BY <1>1, <1>4 DEF Exists
<1>7. /\ sessions' \in Seq(SessionRows) /\ tokens' \in Seq(TokenRows)
      /\ \A t \in DOMAIN tokens' : tokens'[t].session \in DOMAIN sessions'
      /\ OneLiveToken'
      /\ \A s \in DOMAIN sessions' :
            \/ s \in DOMAIN sessions /\ sessions'[s] = sessions[s]
            \/ /\ sessions'[s].user = u /\ sessions'[s].version = 0
               /\ sessions'[s].openedWith = password
  BY <1>3, SessionAdds
<1>8. /\ links' \in Seq(LinkRows)
      /\ \A l \in DOMAIN links' :
            \/ l \in DOMAIN links /\ links'[l] = links[l]
            \/ l = Len(links) + 1 /\ links'[l] = link
  BY <1>2, <1>3 DEF AuthInv, AuthTypeOK
<1>9. AuthTypeOK'
  BY <1>3, <1>4, <1>7, <1>8 DEF AuthInv, AuthTypeOK
<1>10. \A s \in DOMAIN sessions : sessions[s].user \in Users /\ sessions[s].user # u
  BY <1>3, RowUsers DEF AuthInv, RefsOK
<1>11. \A l \in DOMAIN links : links[l].user \in Users /\ links[l].user # u
  BY <1>3, RowUsers DEF AuthInv, RefsOK
<1>12. \A b \in DOMAIN owners : owners[b] \in Users /\ owners[b] # u
  BY <1>3 DEF AuthInv, AuthTypeOK, RefsOK
<1>13. \A r \in Requests : pending[r] # Idle => pending[r].user \in Users /\ pending[r].user # u
  BY <1>3, HandlerRow DEF AuthInv, RefsOK
<1>14. RefsOK'
  <2>1. \A s \in DOMAIN sessions' : user'[sessions'[s].user] # NoUser
    BY <1>5, <1>6, <1>7, <1>10 DEF AuthInv, RefsOK, Exists
  <2>2. \A l \in DOMAIN links' : user'[links'[l].user] # NoUser
    BY <1>2, <1>5, <1>6, <1>8, <1>11 DEF AuthInv, RefsOK, Exists
  <2>3. \A b \in DOMAIN owners' : user'[owners'[b]] # NoUser
    BY <1>3, <1>5, <1>12 DEF AuthInv, RefsOK, Exists
  <2>4. \A r \in Requests : pending'[r] # Idle => user'[pending'[r].user] # NoUser
    BY <1>3, <1>5, <1>13 DEF AuthInv, RefsOK, Exists
  <2> QED BY <1>7, <2>1, <2>2, <2>3, <2>4 DEF RefsOK, Exists
<1>15. CredentialsOK'
  <2>1. \A s \in DOMAIN sessions' :
           Credential(user'[sessions'[s].user], sessions'[s].version, sessions'[s].openedWith)
    BY <1>1, <1>4, <1>7, <1>10 DEF AuthInv, CredentialsOK, Credential
  <2>2. \A r \in Requests : pending'[r].op = "login" =>
           Credential(user'[pending'[r].user], pending'[r].version, pending'[r].password)
    BY <1>3, <1>4, <1>13 DEF AuthInv, CredentialsOK, Credential, Idle
  <2> QED BY <2>1, <2>2 DEF CredentialsOK, Credential
<1>16. OneUsableLink'
  BY <1>2, <1>8, <1>11 DEF AuthInv, OneUsableLink
<1>17. OneBusinessPerUser'
  BY <1>3, <1>4, <1>12 DEF AuthInv, OneBusinessPerUser
<1> QED BY <1>7, <1>9, <1>14, <1>15, <1>16, <1>17 DEF AuthInv

(* A handler that starts with what was read of an existing user. *)
LEMMA StartKeepsInv ==
    ASSUME AuthInv, NEW r \in Requests, NEW h \in Handlers, Start(r, h), Exists(h.user),
           h.op = "login" => Credential(user[h.user], h.version, h.password),
           UNCHANGED <<user, sessions, tokens, links, owners>>
    PROVE  AuthInv'
<1>1. pending' = [pending EXCEPT ![r] = h]
  BY DEF Start
<1>2. AuthTypeOK'
  BY <1>1 DEF AuthInv, AuthTypeOK
<1>3. RefsOK'
  BY <1>1 DEF AuthInv, AuthTypeOK, RefsOK, Exists
<1>4. CredentialsOK'
  BY <1>1 DEF AuthInv, AuthTypeOK, CredentialsOK, Credential
<1>5. OneLiveToken' /\ OneUsableLink' /\ OneBusinessPerUser'
  BY DEF AuthInv, OneLiveToken, OneUsableLink, OneBusinessPerUser
<1> QED BY <1>2, <1>3, <1>4, <1>5 DEF AuthInv

(* A handler that ends leaves the handlers that run as they are. *)
LEMMA FinishLeaves ==
    ASSUME AuthInv, NEW r \in Requests, Finish(r)
    PROVE  /\ pending' \in [Requests -> Handlers \cup {Idle}]
           /\ \A q \in Requests : pending'[q] # Idle => pending'[q] = pending[q]
           /\ \A q \in Requests : pending'[q].op = "login" => pending'[q] = pending[q]
BY DEF Finish, AuthInv, AuthTypeOK, Idle

LEMMA LoginKeepsInv ==
    ASSUME AuthInv, NEW r \in Requests, Login(r)
    PROVE  AuthInv'
<1> DEFINE u == pending[r].user
           version == pending[r].version
           password == pending[r].password
<1>1. /\ u \in Users /\ version \in Nat /\ password \in Passwords
      /\ Exists(u) /\ Credential(user[u], version, password)
  BY HandlerRow DEF Login, AuthInv, RefsOK, CredentialsOK
<1>2. Session(u, version, password) /\ Finish(r) /\ UNCHANGED <<user, links, owners>>
  BY DEF Login
<1> HIDE DEF u, version, password
<1>3. /\ sessions' \in Seq(SessionRows) /\ tokens' \in Seq(TokenRows)
      /\ \A t \in DOMAIN tokens' : tokens'[t].session \in DOMAIN sessions'
      /\ OneLiveToken'
      /\ \A s \in DOMAIN sessions' :
            \/ s \in DOMAIN sessions /\ sessions'[s] = sessions[s]
            \/ /\ sessions'[s].user = u /\ sessions'[s].version = version
               /\ sessions'[s].openedWith = password
  BY <1>1, <1>2, SessionAdds
<1>4. /\ pending' \in [Requests -> Handlers \cup {Idle}]
      /\ \A q \in Requests : pending'[q] # Idle => pending'[q] = pending[q]
      /\ \A q \in Requests : pending'[q].op = "login" => pending'[q] = pending[q]
  BY <1>2, FinishLeaves
<1>5. AuthTypeOK'
  BY <1>2, <1>3, <1>4 DEF AuthInv, AuthTypeOK
<1>6. RefsOK'
  BY <1>1, <1>2, <1>3, <1>4 DEF AuthInv, RefsOK, Exists
<1>7. CredentialsOK'
  BY <1>1, <1>2, <1>3, <1>4 DEF AuthInv, CredentialsOK, Credential
<1>8. OneUsableLink' /\ OneBusinessPerUser'
  BY <1>2 DEF AuthInv, OneUsableLink, OneBusinessPerUser
<1> QED BY <1>3, <1>5, <1>6, <1>7, <1>8 DEF AuthInv

(* Reads: of an account with its password, of an unverified one, and by    *)
(* the guard.                                                              *)
LEMMA ReadsKeepInv ==
    ASSUME AuthInv, NEW r \in Requests,
           \/ \E u \in Users, password \in Passwords : ReadForLogin(r, u, password)
           \/ \E u \in Users : ReadForVerification(r, u)
           \/ \E s \in DOMAIN sessions : Admit(r, s)
    PROVE  AuthInv'
<1>1. ASSUME NEW u \in Users, NEW password \in Passwords, ReadForLogin(r, u, password)
      PROVE  AuthInv'
  <2> DEFINE h == [op |-> "login", user |-> u, version |-> user[u].version,
                   password |-> password]
  <2>1. Exists(u) /\ user[u].password = password /\ user[u].version \in Nat
    BY <1>1, UserRow DEF ReadForLogin, AuthInv, UserRows
  <2>2. h \in Handlers
    BY <2>1 DEF Handlers
  <2>3. Exists(h.user) /\ Credential(user[h.user], h.version, h.password)
    BY <2>1 DEF Credential
  <2>4. Start(r, h) /\ UNCHANGED <<user, sessions, tokens, links, owners>>
    BY <1>1 DEF ReadForLogin
  <2> HIDE DEF h
  <2> QED BY <2>2, <2>3, <2>4, StartKeepsInv
<1>2. ASSUME NEW u \in Users, ReadForVerification(r, u)
      PROVE  AuthInv'
  <2> DEFINE h == [op |-> "link", user |-> u]
  <2>1. h \in Handlers /\ h.op # "login" /\ h.user = u
    BY DEF Handlers
  <2>2. Start(r, h) /\ Exists(u) /\ UNCHANGED <<user, sessions, tokens, links, owners>>
    BY <1>2 DEF ReadForVerification
  <2> HIDE DEF h
  <2> QED BY <2>1, <2>2, StartKeepsInv
<1>3. ASSUME NEW s \in DOMAIN sessions, Admit(r, s)
      PROVE  AuthInv'
  <2> DEFINE u == sessions[s].user
             h == [op |-> "create", user |-> u, business |-> user[u].business]
  <2>1. u \in Users /\ Exists(u)
    BY RowUsers DEF AuthInv, RefsOK
  <2>2. user[u].business \in Nat
    BY <2>1, UserRow DEF AuthInv, UserRows
  <2> HIDE DEF u
  <2>3. h \in Handlers /\ h.op # "login" /\ h.user = u
    BY <2>1, <2>2 DEF Handlers
  <2>4. Start(r, h) /\ UNCHANGED <<user, sessions, tokens, links, owners>>
    BY <1>3 DEF Admit, u
  <2> HIDE DEF h
  <2> QED BY <2>1, <2>3, <2>4, StartKeepsInv
<1> QED BY <1>1, <1>2, <1>3

(* What changes of the sessions when none is added: whether they go on. *)
LEMMA EndKeepsInv ==
    ASSUME AuthInv, sessions' \in Seq(SessionRows), DOMAIN sessions' = DOMAIN sessions,
           \A s \in DOMAIN sessions :
              /\ sessions'[s].user = sessions[s].user
              /\ sessions'[s].version = sessions[s].version
              /\ sessions'[s].openedWith = sessions[s].openedWith,
           UNCHANGED <<user, tokens, links, owners, pending>>
    PROVE  AuthInv'
<1>1. AuthTypeOK'
  BY DEF AuthInv, AuthTypeOK
<1>2. RefsOK'
  BY DEF AuthInv, RefsOK, Exists
<1>3. CredentialsOK'
  BY DEF AuthInv, CredentialsOK
<1>4. OneLiveToken' /\ OneUsableLink' /\ OneBusinessPerUser'
  BY DEF AuthInv, OneLiveToken, OneUsableLink, OneBusinessPerUser
<1> QED BY <1>1, <1>2, <1>3, <1>4 DEF AuthInv

(* Thirty days end a session and change nothing else of it. *)
LEMMA ExpiryEnds ==
    ASSUME sessions \in Seq(SessionRows), NEW s \in DOMAIN sessions, ExpireSession(s)
    PROVE  /\ sessions' \in Seq(SessionRows)
           /\ DOMAIN sessions' = DOMAIN sessions
           /\ \A q \in DOMAIN sessions :
                 /\ sessions'[q].user = sessions[q].user
                 /\ sessions'[q].version = sessions[q].version
                 /\ sessions'[q].openedWith = sessions[q].openedWith
                 /\ sessions'[q].revoked = sessions[q].revoked
                 /\ ~sessions'[q].expired => ~sessions[q].expired
<1> DEFINE row == [sessions[s] EXCEPT !.expired = TRUE]
<1>1. /\ row \in SessionRows
      /\ row.user = sessions[s].user /\ row.version = sessions[s].version
      /\ row.openedWith = sessions[s].openedWith /\ row.revoked = sessions[s].revoked
      /\ row.expired
  <2>1. sessions[s] \in SessionRows
    OBVIOUS
  <2> QED BY <2>1 DEF SessionRows
<1>2. sessions' = [sessions EXCEPT ![s] = row]
  BY DEF ExpireSession
<1> HIDE DEF row
<1> QED BY <1>1, <1>2

LEMMA RefreshKeepsInv ==
    ASSUME AuthInv, NEW t \in DOMAIN tokens, Refresh(t)
    PROVE  AuthInv'
<1> DEFINE s == tokens[t].session
<1>1. tokens \in Seq(TokenRows) /\ sessions \in Seq(SessionRows) /\ s \in DOMAIN sessions
  BY DEF AuthInv, AuthTypeOK, RefsOK
<1>2. CASE tokens[t].used
  <2>1. Revoke({s}, "replay") /\ UNCHANGED <<user, tokens, links, owners, pending>>
    BY <1>2 DEF Refresh
  <2> QED BY <1>1, <2>1, RevokeEnds, EndKeepsInv
<1>3. CASE ~tokens[t].used
  <2> DEFINE old == [tokens[t] EXCEPT !.used = TRUE]
             new == [session |-> s, used |-> FALSE]
  <2>1. tokens[t] \in TokenRows
    BY <1>1
  <2>2. /\ old \in TokenRows /\ old.session = s /\ old.used
        /\ new \in TokenRows /\ new.session = s /\ ~new.used
    BY <2>1 DEF TokenRows
  <2>3. /\ tokens' = Append([tokens EXCEPT ![t] = old], new)
        /\ UNCHANGED <<user, sessions, links, owners, pending>>
    BY <1>3 DEF Refresh, Rotate
  <2> HIDE DEF old, new, s
  <2>4. /\ tokens' \in Seq(TokenRows)
        /\ Len(tokens) \in Nat
        /\ DOMAIN tokens = 1 .. Len(tokens)
        /\ DOMAIN tokens' = 1 .. (Len(tokens) + 1)
        /\ tokens'[t] = old
        /\ tokens'[Len(tokens) + 1] = new
        /\ \A q \in DOMAIN tokens : q # t => tokens'[q] = tokens[q]
    BY <1>1, <2>2, <2>3
  <2>5. AuthTypeOK'
    BY <2>3, <2>4 DEF AuthInv, AuthTypeOK
  <2>6. RefsOK'
    <3>1. \A q \in DOMAIN tokens' : tokens'[q].session \in DOMAIN sessions'
      BY <1>1, <2>2, <2>3, <2>4 DEF AuthInv, RefsOK
    <3> QED BY <2>3, <3>1 DEF AuthInv, RefsOK, Exists
  <2>7. CredentialsOK'
    BY <2>3 DEF AuthInv, CredentialsOK
  <2>8. OneLiveToken'
    <3>1. \A q \in DOMAIN tokens' : q \in DOMAIN tokens \/ q = Len(tokens) + 1
      BY <2>4
    <3>2. DOMAIN tokens \subseteq DOMAIN tokens' /\ Len(tokens) + 1 \in DOMAIN tokens'
      BY <2>4
    <3>3. \A q \in DOMAIN tokens : tokens[q].session = s /\ ~tokens[q].used => q = t
      BY <1>1, <1>3 DEF AuthInv, OneLiveToken, s
    <3>4. \A q \in DOMAIN tokens' :
             tokens'[q].session = s /\ ~tokens'[q].used => q = Len(tokens) + 1
      BY <2>2, <2>4, <3>1, <3>3
    <3>5. \A q \in DOMAIN tokens' :
             tokens'[q].session # s =>
                q \in DOMAIN tokens /\ q # t /\ tokens'[q] = tokens[q]
      BY <2>2, <2>4, <3>1
    <3>6. \A q \in DOMAIN tokens : tokens[q].session # s => tokens'[q] = tokens[q]
      BY <2>4 DEF s
    <3>7. ASSUME NEW x \in DOMAIN sessions, x # s
          PROVE  /\ \E q \in DOMAIN tokens' : tokens'[q].session = x /\ ~tokens'[q].used
                 /\ \A t1, t2 \in DOMAIN tokens' :
                       /\ tokens'[t1].session = x /\ ~tokens'[t1].used
                       /\ tokens'[t2].session = x /\ ~tokens'[t2].used
                       => t1 = t2
      BY <3>2, <3>5, <3>6, <3>7 DEF AuthInv, OneLiveToken
    <3>8. /\ tokens'[Len(tokens) + 1].session = s
          /\ ~tokens'[Len(tokens) + 1].used
      BY <2>2, <2>4
    <3> QED BY <2>3, <3>2, <3>4, <3>7, <3>8 DEF OneLiveToken
  <2>9. OneUsableLink' /\ OneBusinessPerUser'
    BY <2>3 DEF AuthInv, OneUsableLink, OneBusinessPerUser
  <2> QED BY <2>5, <2>6, <2>7, <2>8, <2>9 DEF AuthInv
<1> QED BY <1>2, <1>3

LEMMA EndsKeepInv ==
    ASSUME AuthInv, NEW s \in DOMAIN sessions, Logout(s) \/ ExpireSession(s)
    PROVE  AuthInv'
<1>1. sessions \in Seq(SessionRows)
  BY DEF AuthInv, AuthTypeOK
<1>2. CASE Logout(s)
  BY <1>1, <1>2, RevokeEnds, EndKeepsInv DEF Logout
<1>3. CASE ExpireSession(s)
  <2>1. UNCHANGED <<user, tokens, links, owners, pending>>
    BY <1>3 DEF ExpireSession
  <2> QED BY <1>1, <1>3, <2>1, ExpiryEnds, EndKeepsInv
<1> QED BY <1>2, <1>3

-----------------------------------------------------------------------------
(* Links that are added for an account, spent or expired.                  *)
LEMMA LinksKeepInv ==
    ASSUME AuthInv, links' \in Seq(LinkRows), OneUsableLink',
           \A l \in DOMAIN links' : Exists(links'[l].user),
           pending' \in [Requests -> Handlers \cup {Idle}],
           \A r \in Requests : pending'[r] # Idle => pending'[r] = pending[r],
           \A r \in Requests : pending'[r].op = "login" => pending'[r] = pending[r],
           UNCHANGED <<user, sessions, tokens, owners>>
    PROVE  AuthInv'
<1>1. AuthTypeOK'
  BY DEF AuthInv, AuthTypeOK
<1>2. RefsOK'
  BY DEF AuthInv, RefsOK, Exists
<1>3. CredentialsOK'
  BY DEF AuthInv, CredentialsOK
<1>4. OneLiveToken' /\ OneBusinessPerUser'
  BY DEF AuthInv, OneLiveToken, OneBusinessPerUser
<1> QED BY <1>1, <1>2, <1>3, <1>4 DEF AuthInv

LEMMA RequestsKeepInv ==
    ASSUME AuthInv,
           \/ \E u \in Users : RequestReset(u)
           \/ \E r \in Requests : RequestVerification(r)
    PROVE  AuthInv'
<1>1. pending \in [Requests -> Handlers \cup {Idle}]
  BY DEF AuthInv, AuthTypeOK
<1>2. ASSUME NEW u \in Users, NEW purpose \in Purposes, Exists(u), Issue(u, purpose)
      PROVE  /\ links' \in Seq(LinkRows) /\ OneUsableLink'
             /\ \A l \in DOMAIN links' : Exists(links'[l].user)
  BY <1>2, IssueAdds DEF AuthInv, RefsOK
<1>3. ASSUME NEW u \in Users, RequestReset(u)
      PROVE  AuthInv'
  <2>1. /\ Exists(u) /\ Issue(u, "reset") /\ "reset" \in Purposes
        /\ UNCHANGED <<user, sessions, tokens, owners, pending>>
    BY <1>3 DEF RequestReset, Purposes
  <2> QED BY <1>1, <1>2, <2>1, LinksKeepInv
<1>4. ASSUME NEW r \in Requests, RequestVerification(r)
      PROVE  AuthInv'
  <2>1. /\ Issue(pending[r].user, "verify") /\ "verify" \in Purposes /\ Finish(r)
        /\ UNCHANGED <<user, sessions, tokens, owners>>
    BY <1>4 DEF RequestVerification, Purposes
  <2>2. pending[r].user \in Users /\ Exists(pending[r].user)
    BY <1>4, HandlerRow DEF RequestVerification, AuthInv, RefsOK
  <2> QED BY <1>2, <2>1, <2>2, FinishLeaves, LinksKeepInv
<1> QED BY <1>3, <1>4

LEMMA ExpireLinkKeepsInv ==
    ASSUME AuthInv, NEW l \in DOMAIN links, ExpireLink(l)
    PROVE  AuthInv'
<1> DEFINE row == [links[l] EXCEPT !.state = "expired"]
<1>1. links \in Seq(LinkRows) /\ links[l] \in LinkRows
  BY DEF AuthInv, AuthTypeOK
<1>2. row \in LinkRows /\ row.user = links[l].user /\ row.state # "live"
  BY <1>1 DEF LinkRows
<1>3. links' = [links EXCEPT ![l] = row]
  BY DEF ExpireLink
<1> HIDE DEF row
<1>4. /\ links' \in Seq(LinkRows) /\ DOMAIN links' = DOMAIN links
      /\ links'[l] = row
      /\ \A k \in DOMAIN links : k # l => links'[k] = links[k]
  BY <1>1, <1>2, <1>3
<1>5. OneUsableLink'
  BY <1>2, <1>4 DEF AuthInv, OneUsableLink
<1>6. \A k \in DOMAIN links' : Exists(links'[k].user)
  BY <1>2, <1>4 DEF AuthInv, RefsOK
<1>7. pending' = pending /\ pending \in [Requests -> Handlers \cup {Idle}]
  BY DEF ExpireLink, AuthInv, AuthTypeOK
<1> QED BY <1>4, <1>5, <1>6, <1>7, LinksKeepInv DEF ExpireLink

(* What opening a link does to the links. *)
LEMMA OpenedLink ==
    ASSUME AuthInv, NEW l \in DOMAIN links, NEW purpose,
           links' = Burnt(links, links[l].user, purpose, l)
    PROVE  /\ links' \in Seq(LinkRows)
           /\ DOMAIN links' = DOMAIN links
           /\ \A k \in DOMAIN links : links'[k].user = links[k].user
           /\ OneUsableLink'
<1>1. links \in Seq(LinkRows)
  BY DEF AuthInv, AuthTypeOK
<1>2. /\ links' \in Seq(LinkRows)
      /\ DOMAIN links' = DOMAIN links
      /\ \A k \in DOMAIN links :
            /\ links'[k].user = links[k].user
            /\ links'[k].purpose = links[k].purpose
            /\ links'[k].state = "live" => links[k].state = "live"
  BY <1>1, BurntLinks
<1>3. OneUsableLink'
  BY <1>2 DEF AuthInv, OneUsableLink
<1> QED BY <1>2, <1>3

(* The reset raises the version past every session and running login, so   *)
(* the new password is nobody's credential yet.                            *)
LEMMA ResetKeepsInv ==
    ASSUME AuthInv, NEW l \in DOMAIN links, NEW password \in Passwords,
           ResetPassword(l, password)
    PROVE  AuthInv'
<1> DEFINE u == links[l].user
           row == [user[u] EXCEPT !.password = password, !.version = @ + 1]
<1>1. u \in Users /\ Exists(u) /\ user[u] \in UserRows
  BY RowUsers, UserRow DEF AuthInv, RefsOK
<1>2. /\ row \in UserRows
      /\ row.version = user[u].version + 1 /\ row.password = password
      /\ row.business = user[u].business
  <2>1. ASSUME NEW a \in UserRows, NEW v \in Nat
        PROVE  /\ [a EXCEPT !.password = password, !.version = v] \in UserRows
               /\ [a EXCEPT !.password = password, !.version = v].version = v
               /\ [a EXCEPT !.password = password, !.version = v].password = password
               /\ [a EXCEPT !.password = password, !.version = v].business = a.business
    BY DEF UserRows
  <2>2. user[u].version \in Nat
    BY <1>1 DEF UserRows
  <2>3. user[u].version + 1 \in Nat
    BY <2>2
  <2>4. row = [user[u] EXCEPT !.password = password, !.version = user[u].version + 1]
    OBVIOUS
  <2> HIDE DEF row, u
  <2> QED BY <1>1, <2>1, <2>3, <2>4
<1>3. user[u].version \in Nat
  BY <1>1 DEF UserRows
<1>4. row # NoUser
  BY <1>2 DEF UserRows, NoUser
<1>5. user \in [Users -> UserRows \cup {NoUser}]
  BY DEF AuthInv, AuthTypeOK
<1>6. user' = [user EXCEPT ![u] = row]
  BY <1>1, <1>5 DEF ResetPassword
<1>7. /\ Revoke({s \in DOMAIN sessions : sessions[s].user = u}, "reset")
      /\ links' = Burnt(links, u, "reset", l)
      /\ UNCHANGED <<tokens, owners, pending>>
  BY DEF ResetPassword
<1>8. /\ links' \in Seq(LinkRows) /\ DOMAIN links' = DOMAIN links
      /\ \A k \in DOMAIN links : links'[k].user = links[k].user
      /\ OneUsableLink'
  BY <1>7, OpenedLink
<1> HIDE DEF u, row
<1>9. /\ user' \in [Users -> UserRows \cup {NoUser}]
      /\ user'[u] = row
      /\ \A v \in Users : v # u => user'[v] = user[v]
  BY <1>1, <1>2, <1>5, <1>6
<1>10. \A v \in Users : Exists(v) => user'[v] # NoUser
  BY <1>4, <1>9 DEF Exists
<1>11. /\ sessions' \in Seq(SessionRows) /\ DOMAIN sessions' = DOMAIN sessions
       /\ \A s \in DOMAIN sessions :
             /\ sessions'[s].user = sessions[s].user
             /\ sessions'[s].version = sessions[s].version
             /\ sessions'[s].openedWith = sessions[s].openedWith
  BY <1>7, RevokeEnds DEF AuthInv, AuthTypeOK
<1>12. AuthTypeOK'
  BY <1>7, <1>8, <1>9, <1>11 DEF AuthInv, AuthTypeOK
<1>13. RefsOK'
  <2>1. \A s \in DOMAIN sessions' : user'[sessions'[s].user] # NoUser
    BY <1>10, <1>11, RowUsers DEF AuthInv, RefsOK
  <2>2. \A k \in DOMAIN links' : user'[links'[k].user] # NoUser
    BY <1>8, <1>10, RowUsers DEF AuthInv, RefsOK
  <2>3. \A b \in DOMAIN owners' : user'[owners'[b]] # NoUser
    BY <1>7, <1>10, RowUsers DEF AuthInv, RefsOK
  <2>4. \A r \in Requests : pending'[r] # Idle => user'[pending'[r].user] # NoUser
    BY <1>7, <1>10, HandlerRow DEF AuthInv, RefsOK
  <2> QED BY <1>7, <1>11, <2>1, <2>2, <2>3, <2>4 DEF AuthInv, RefsOK, Exists
<1>14. CredentialsOK'
  <2>1. ASSUME NEW v \in Users, NEW version \in Nat, NEW pw, Credential(user[v], version, pw)
        PROVE  Credential(user'[v], version, pw)
    BY <1>2, <1>3, <1>9, <2>1 DEF Credential
  <2>2. \A s \in DOMAIN sessions' :
           Credential(user'[sessions'[s].user], sessions'[s].version, sessions'[s].openedWith)
    BY <1>11, <2>1, RowUsers DEF AuthInv, CredentialsOK
  <2>3. \A r \in Requests : pending'[r].op = "login" =>
           Credential(user'[pending'[r].user], pending'[r].version, pending'[r].password)
    BY <1>7, <2>1, HandlerRow DEF AuthInv, CredentialsOK
  <2> QED BY <2>2, <2>3 DEF CredentialsOK
<1>15. OneLiveToken'
  BY <1>7, <1>11 DEF AuthInv, OneLiveToken
<1>16. OneBusinessPerUser'
  BY <1>2, <1>7, <1>9, RowUsers DEF AuthInv, OneBusinessPerUser
<1> QED BY <1>8, <1>12, <1>13, <1>14, <1>15, <1>16 DEF AuthInv

(* An account that changes, but not in what its credentials rest on. *)
LEMMA VerifyKeepsInv ==
    ASSUME AuthInv, NEW l \in DOMAIN links, VerifyEmail(l)
    PROVE  AuthInv'
<1> DEFINE u == links[l].user
           row == [user[u] EXCEPT !.verified = TRUE]
<1>1. u \in Users /\ Exists(u) /\ user[u] \in UserRows
  BY RowUsers, UserRow DEF AuthInv, RefsOK
<1>2. /\ row \in UserRows
      /\ row.version = user[u].version /\ row.password = user[u].password
      /\ row.business = user[u].business
  BY <1>1 DEF UserRows
<1>3. row # NoUser
  BY <1>2 DEF UserRows, NoUser
<1>4. user \in [Users -> UserRows \cup {NoUser}]
  BY DEF AuthInv, AuthTypeOK
<1>5. /\ user' = [user EXCEPT ![u] = row]
      /\ links' = Burnt(links, u, "verify", l)
      /\ UNCHANGED <<sessions, tokens, owners, pending>>
  BY DEF VerifyEmail
<1>6. /\ links' \in Seq(LinkRows) /\ DOMAIN links' = DOMAIN links
      /\ \A k \in DOMAIN links : links'[k].user = links[k].user
      /\ OneUsableLink'
  BY <1>5, OpenedLink
<1> HIDE DEF u, row
<1>7. /\ user' \in [Users -> UserRows \cup {NoUser}]
      /\ user'[u] = row
      /\ \A v \in Users : v # u => user'[v] = user[v]
  BY <1>1, <1>2, <1>4, <1>5
<1>8. \A v \in Users :
         /\ Exists(v) => user'[v] # NoUser
         /\ user'[v].version = user[v].version /\ user'[v].password = user[v].password
         /\ user'[v].business = user[v].business
  BY <1>2, <1>3, <1>7 DEF Exists
<1>9. AuthTypeOK'
  BY <1>5, <1>6, <1>7 DEF AuthInv, AuthTypeOK
<1>10. RefsOK'
  <2>1. \A s \in DOMAIN sessions' : user'[sessions'[s].user] # NoUser
    BY <1>5, <1>8, RowUsers DEF AuthInv, RefsOK
  <2>2. \A k \in DOMAIN links' : user'[links'[k].user] # NoUser
    BY <1>6, <1>8, RowUsers DEF AuthInv, RefsOK
  <2>3. \A b \in DOMAIN owners' : user'[owners'[b]] # NoUser
    BY <1>5, <1>8, RowUsers DEF AuthInv, RefsOK
  <2>4. \A r \in Requests : pending'[r] # Idle => user'[pending'[r].user] # NoUser
    BY <1>5, <1>8, HandlerRow DEF AuthInv, RefsOK
  <2> QED BY <1>5, <2>1, <2>2, <2>3, <2>4 DEF AuthInv, RefsOK, Exists
<1>11. CredentialsOK'
  <2>1. \A r \in Requests : pending[r].op = "login" => pending[r].user \in Users
    BY HandlerRow DEF AuthInv
  <2> QED BY <1>5, <1>8, <2>1, RowUsers DEF AuthInv, CredentialsOK, Credential
<1>12. OneLiveToken'
  BY <1>5 DEF AuthInv, OneLiveToken
<1>13. OneBusinessPerUser'
  BY <1>5, <1>8, RowUsers DEF AuthInv, OneBusinessPerUser
<1> QED BY <1>6, <1>9, <1>10, <1>11, <1>12, <1>13 DEF AuthInv

(* The owner of an earlier business has one, so the new one is its first. *)
LEMMA CreateKeepsInv ==
    ASSUME AuthInv, NEW r \in Requests, CreateBusiness(r)
    PROVE  AuthInv'
<1> DEFINE u == pending[r].user
<1>1. u \in Users /\ Exists(u) /\ user[u] \in UserRows
  BY HandlerRow, UserRow DEF CreateBusiness, AuthInv, RefsOK
<1>2. Finish(r) /\ UNCHANGED <<sessions, tokens, links>>
  BY DEF CreateBusiness
<1>3. /\ pending' \in [Requests -> Handlers \cup {Idle}]
      /\ \A q \in Requests : pending'[q] # Idle => pending'[q] = pending[q]
      /\ \A q \in Requests : pending'[q].op = "login" => pending'[q] = pending[q]
  BY <1>2, FinishLeaves
<1>4. OneLiveToken' /\ OneUsableLink'
  BY <1>2 DEF AuthInv, OneLiveToken, OneUsableLink
<1>5. CASE UNCHANGED <<owners, user>>
  <2>1. AuthTypeOK'
    BY <1>2, <1>3, <1>5 DEF AuthInv, AuthTypeOK
  <2>2. RefsOK'
    BY <1>2, <1>3, <1>5 DEF AuthInv, RefsOK, Exists
  <2>3. CredentialsOK'
    BY <1>2, <1>3, <1>5 DEF AuthInv, CredentialsOK
  <2>4. OneBusinessPerUser'
    BY <1>5 DEF AuthInv, OneBusinessPerUser
  <2> QED BY <1>4, <2>1, <2>2, <2>3, <2>4 DEF AuthInv
<1>6. CASE /\ user[u].business = 0
           /\ owners' = Append(owners, u)
           /\ user' = [user EXCEPT ![u].business = Len(owners) + 1]
  <2> DEFINE b == Len(owners) + 1
             row == [user[u] EXCEPT !.business = b]
  <2>1. owners \in Seq(Users) /\ Len(owners) \in Nat /\ b \in Nat
    BY DEF AuthInv, AuthTypeOK
  <2>2. user \in [Users -> UserRows \cup {NoUser}]
    BY DEF AuthInv, AuthTypeOK
  <2>3. user' = [user EXCEPT ![u] = row]
    BY <1>1, <1>6, <2>2
  <2> HIDE DEF b
  <2>4. /\ row \in UserRows
        /\ row.version = user[u].version /\ row.password = user[u].password
        /\ row.business = b
    BY <1>1, <2>1 DEF UserRows
  <2>5. row # NoUser
    BY <2>4 DEF UserRows, NoUser
  <2> HIDE DEF row, u
  <2>6. /\ user' \in [Users -> UserRows \cup {NoUser}]
        /\ user'[u] = row
        /\ \A v \in Users : v # u => user'[v] = user[v]
    BY <1>1, <2>2, <2>3, <2>4
  <2>7. \A v \in Users :
           /\ Exists(v) => user'[v] # NoUser
           /\ user'[v].version = user[v].version /\ user'[v].password = user[v].password
    BY <2>4, <2>5, <2>6 DEF Exists
  <2>8. /\ owners' \in Seq(Users)
        /\ DOMAIN owners = 1 .. Len(owners)
        /\ \A k \in DOMAIN owners' :
              \/ k \in DOMAIN owners /\ owners'[k] = owners[k]
              \/ k = b /\ owners'[k] = u
    BY <1>1, <1>6, <2>1 DEF b
  <2>9. AuthTypeOK'
    BY <1>2, <1>3, <2>6, <2>8 DEF AuthInv, AuthTypeOK
  <2>10. RefsOK'
    <3>1. \A s \in DOMAIN sessions' : user'[sessions'[s].user] # NoUser
      BY <1>2, <2>7, RowUsers DEF AuthInv, RefsOK
    <3>2. \A k \in DOMAIN links' : user'[links'[k].user] # NoUser
      BY <1>2, <2>7, RowUsers DEF AuthInv, RefsOK
    <3>3. \A k \in DOMAIN owners' : user'[owners'[k]] # NoUser
      BY <1>1, <2>7, <2>8, RowUsers DEF AuthInv, RefsOK
    <3>4. \A q \in Requests : pending'[q] # Idle => user'[pending'[q].user] # NoUser
      BY <1>3, <2>7, HandlerRow DEF AuthInv, RefsOK
    <3> QED BY <1>2, <3>1, <3>2, <3>3, <3>4 DEF AuthInv, RefsOK, Exists
  <2>11. CredentialsOK'
    <3>1. \A q \in Requests : pending[q].op = "login" => pending[q].user \in Users
      BY HandlerRow DEF AuthInv
    <3> QED BY <1>2, <1>3, <2>7, <3>1, RowUsers DEF AuthInv, CredentialsOK, Credential
  <2>12. OneBusinessPerUser'
    <3>1. \A k \in DOMAIN owners : owners[k] # u
      BY <1>6, <2>1, <2>8 DEF AuthInv, OneBusinessPerUser, u
    <3> QED BY <2>4, <2>6, <2>8, <3>1, RowUsers DEF AuthInv, OneBusinessPerUser
  <2> QED BY <1>4, <2>9, <2>10, <2>11, <2>12 DEF AuthInv
<1> QED BY <1>5, <1>6, Zenon DEF CreateBusiness, Assign

LEMMA DieKeepsInv ==
    ASSUME AuthInv, NEW r \in Requests, Die(r)
    PROVE  AuthInv'
<1>1. Finish(r) /\ UNCHANGED <<user, sessions, tokens, links, owners>>
  BY DEF Die
<1>2. /\ links' \in Seq(LinkRows) /\ OneUsableLink'
      /\ \A l \in DOMAIN links' : Exists(links'[l].user)
  BY <1>1 DEF AuthInv, AuthTypeOK, RefsOK, OneUsableLink
<1> QED BY <1>1, <1>2, FinishLeaves, LinksKeepInv

-----------------------------------------------------------------------------
LEMMA StepKeepsInv ==
    ASSUME AuthInv, [AuthNext]_authVars
    PROVE  AuthInv'
<1>1. ASSUME NEW u \in Users, RequestReset(u) \/ \E password \in Passwords : Signup(u, password)
      PROVE  AuthInv'
  BY <1>1, SignupKeepsInv, RequestsKeepInv
<1>2. ASSUME NEW t \in DOMAIN tokens, Refresh(t)
      PROVE  AuthInv'
  BY <1>2, RefreshKeepsInv
<1>3. ASSUME NEW s \in DOMAIN sessions, Logout(s) \/ ExpireSession(s)
      PROVE  AuthInv'
  BY <1>3, EndsKeepInv
<1>4. ASSUME NEW l \in DOMAIN links,
             \/ \E password \in Passwords : ResetPassword(l, password)
             \/ VerifyEmail(l)
             \/ ExpireLink(l)
      PROVE  AuthInv'
  BY <1>4, ResetKeepsInv, VerifyKeepsInv, ExpireLinkKeepsInv
<1>5. ASSUME NEW r \in Requests,
             \/ \E u \in Users, password \in Passwords : ReadForLogin(r, u, password)
             \/ \E u \in Users : ReadForVerification(r, u)
             \/ \E s \in DOMAIN sessions : Admit(r, s)
      PROVE  AuthInv'
  BY <1>5, ReadsKeepInv
<1>6. ASSUME NEW r \in Requests,
             Login(r) \/ RequestVerification(r) \/ CreateBusiness(r) \/ Die(r)
      PROVE  AuthInv'
  BY <1>6, LoginKeepsInv, RequestsKeepInv, CreateKeepsInv, DieKeepsInv
<1>7. CASE UNCHANGED authVars
  <2>1. AuthTypeOK' /\ RefsOK' /\ CredentialsOK'
    BY <1>7 DEF authVars, AuthInv, AuthTypeOK, RefsOK, CredentialsOK, Exists
  <2>2. OneLiveToken' /\ OneUsableLink' /\ OneBusinessPerUser'
    BY <1>7 DEF authVars, AuthInv, OneLiveToken, OneUsableLink, OneBusinessPerUser
  <2> QED BY <2>1, <2>2 DEF AuthInv
<1> QED BY <1>1, <1>2, <1>3, <1>4, <1>5, <1>6, <1>7, Zenon DEF AuthNext

LEMMA InvAlways == AuthSpec => []AuthInv
<1> QED BY InvInitially, StepKeepsInv, PTL DEF AuthSpec

(* A session the guard accepts was opened with the present password, even  *)
(* one whose login read the user before a reset and was written after it.  *)
THEOREM ResetsEndOldPasswords == AuthSpec => []SessionsHonourPassword
<1>1. AuthInv => SessionsHonourPassword
  BY DEF AuthInv, CredentialsOK, Credential, SessionsHonourPassword, Accepted
<1> QED BY <1>1, InvAlways, PTL

(* Rotation leaves every session exactly one refresh token that was never  *)
(* used, in whatever order tokens are presented.                           *)
THEOREM RotationKeepsOneToken == AuthSpec => []OneLiveToken
<1>1. AuthInv => OneLiveToken
  BY DEF AuthInv
<1> QED BY <1>1, InvAlways, PTL

(* Of the links of one purpose a user was sent, one at most works.         *)
THEOREM LinksWorkOnce == AuthSpec => []OneUsableLink
<1>1. AuthInv => OneUsableLink
  BY DEF AuthInv
<1> QED BY <1>1, InvAlways, PTL

(* Concurrent onboarding leaves each user at most one business, and each   *)
(* business current for its owner.                                         *)
THEOREM OnboardingCreatesOne == AuthSpec => []OneBusinessPerUser
<1>1. AuthInv => OneBusinessPerUser
  BY DEF AuthInv
<1> QED BY <1>1, InvAlways, PTL

-----------------------------------------------------------------------------
(* Nothing moves a session backwards, and no account's version falls.      *)
LEMMA SessionsOnlyEnd ==
    ASSUME AuthInv, [AuthNext]_authVars, NEW s \in DOMAIN sessions
    PROVE  /\ sessions'[s].user = sessions[s].user
           /\ sessions'[s].version = sessions[s].version
           /\ sessions'[s].revoked = "no" => sessions[s].revoked = "no"
           /\ ~sessions'[s].expired => ~sessions[s].expired
<1>1. sessions \in Seq(SessionRows)
  BY DEF AuthInv, AuthTypeOK
<1>2. ASSUME NEW u \in Users, NEW version \in Nat, NEW password \in Passwords,
             Session(u, version, password)
      PROVE  sessions'[s] = sessions[s]
  BY <1>2, SessionAdds
<1>3. ASSUME NEW u \in Users, RequestReset(u) \/ \E password \in Passwords : Signup(u, password)
      PROVE  sessions'[s] = sessions[s]
  BY <1>2, <1>3 DEF RequestReset, Signup
<1>4. CASE \E t \in DOMAIN tokens : Refresh(t)
  BY <1>1, <1>4, RevokeEnds DEF Refresh
<1>5. CASE \E q \in DOMAIN sessions : Logout(q) \/ ExpireSession(q)
  BY <1>1, <1>5, RevokeEnds, ExpiryEnds DEF Logout
<1>6. CASE \E l \in DOMAIN links :
             \/ \E password \in Passwords : ResetPassword(l, password)
             \/ VerifyEmail(l)
             \/ ExpireLink(l)
  BY <1>1, <1>6, RevokeEnds DEF ResetPassword, VerifyEmail, ExpireLink
<1>7. ASSUME NEW r \in Requests, Login(r)
      PROVE  sessions'[s] = sessions[s]
  <2>1. /\ pending[r].user \in Users /\ pending[r].version \in Nat
        /\ pending[r].password \in Passwords
    BY <1>7, HandlerRow DEF Login, AuthInv
  <2> QED BY <1>2, <1>7, <2>1 DEF Login
<1>8. ASSUME NEW r \in Requests,
             \/ \E u \in Users, password \in Passwords : ReadForLogin(r, u, password)
             \/ \E u \in Users : ReadForVerification(r, u)
             \/ \E q \in DOMAIN sessions : Admit(r, q)
             \/ RequestVerification(r) \/ CreateBusiness(r) \/ Die(r)
      PROVE  sessions'[s] = sessions[s]
  BY <1>8 DEF ReadForLogin, ReadForVerification, Admit, RequestVerification,
              CreateBusiness, Die
<1>9. CASE UNCHANGED authVars
  BY <1>9 DEF authVars
<1> QED BY <1>3, <1>4, <1>5, <1>6, <1>7, <1>8, <1>9, Zenon DEF AuthNext

LEMMA VersionsOnlyRise ==
    ASSUME AuthInv, [AuthNext]_authVars, NEW u \in Users, Exists(u)
    PROVE  user'[u].version \in Nat /\ user'[u].version >= user[u].version
<1>1. user \in [Users -> UserRows \cup {NoUser}] /\ user[u] \in UserRows
  BY UserRow DEF AuthInv, AuthTypeOK
<1>2. user[u].version \in Nat
  BY <1>1 DEF UserRows
<1>3. ASSUME NEW v \in Users, NEW password \in Passwords, Signup(v, password)
      PROVE  user'[u] = user[u]
  BY <1>1, <1>3 DEF Signup
<1>4. ASSUME NEW l \in DOMAIN links, NEW password \in Passwords, ResetPassword(l, password)
      PROVE  user'[u].version \in {user[u].version, user[u].version + 1}
  <2>1. links[l].user \in Users
    BY RowUsers DEF AuthInv
  <2> DEFINE v == links[l].user
  <2>2. user' = [user EXCEPT ![v].password = password, ![v].version = @ + 1]
    BY <1>4 DEF ResetPassword
  <2> HIDE DEF v
  <2>3. user' = [user EXCEPT ![v] = [user[v] EXCEPT !.password = password, !.version = @ + 1]]
    BY <1>1, <2>2
  <2>4. ASSUME v = u
        PROVE  [user[u] EXCEPT !.password = password, !.version = @ + 1].version
                 = user[u].version + 1
    BY <1>1 DEF UserRows
  <2> QED BY <1>1, <2>3, <2>4
<1>5. ASSUME NEW l \in DOMAIN links, VerifyEmail(l) \/ ExpireLink(l)
      PROVE  user'[u].version = user[u].version
  <2>1. CASE VerifyEmail(l)
    <3> DEFINE v == links[l].user
    <3>1. user' = [user EXCEPT ![v].verified = TRUE]
      BY <2>1 DEF VerifyEmail
    <3> HIDE DEF v
    <3>2. [user[u] EXCEPT !.verified = TRUE].version = user[u].version
      BY <1>1 DEF UserRows
    <3> QED BY <1>1, <3>1, <3>2
  <2>2. CASE ExpireLink(l)
    BY <2>2 DEF ExpireLink
  <2> QED BY <1>5, <2>1, <2>2
<1>6. ASSUME NEW r \in Requests, CreateBusiness(r)
      PROVE  user'[u].version = user[u].version
  <2> DEFINE v == pending[r].user
  <2>1. user' = user \/ user' = [user EXCEPT ![v].business = Len(owners) + 1]
    BY <1>6, Zenon DEF CreateBusiness, Assign
  <2> HIDE DEF v
  <2>2. [user[u] EXCEPT !.business = Len(owners) + 1].version = user[u].version
    BY <1>1 DEF UserRows
  <2> QED BY <1>1, <2>1, <2>2
<1>7. ASSUME \/ \E v \in Users : RequestReset(v)
             \/ \E t \in DOMAIN tokens : Refresh(t)
             \/ \E s \in DOMAIN sessions : Logout(s) \/ ExpireSession(s)
      PROVE  user' = user
  BY <1>7 DEF RequestReset, Refresh, Logout, ExpireSession
<1>8. ASSUME NEW r \in Requests,
             \/ \E v \in Users, password \in Passwords : ReadForLogin(r, v, password)
             \/ \E v \in Users : ReadForVerification(r, v)
             \/ \E s \in DOMAIN sessions : Admit(r, s)
             \/ Login(r) \/ RequestVerification(r) \/ Die(r)
      PROVE  user' = user
  BY <1>8 DEF ReadForLogin, ReadForVerification, Admit, Login, RequestVerification, Die
<1>9. ASSUME UNCHANGED authVars
      PROVE  user' = user
  BY <1>9 DEF authVars
<1>10. user'[u].version \in {user[u].version, user[u].version + 1}
  BY <1>3, <1>4, <1>5, <1>6, <1>7, <1>8, <1>9 DEF AuthNext
<1> QED BY <1>2, <1>10

(* No step makes the guard accept a session it did not accept before. *)
LEMMA NoSessionReturns ==
    ASSUME AuthInv, [AuthNext]_authVars, NEW s \in DOMAIN sessions, Accepted(s)'
    PROVE  Accepted(s)
<1> DEFINE u == sessions[s].user
<1>1. u \in Users /\ Exists(u) /\ sessions[s].version \in Nat
  BY RowUsers DEF AuthInv, RefsOK
<1>2. user[u].version \in Nat
  BY <1>1, UserRow DEF AuthInv, UserRows
<1>3. user'[u].version \in Nat /\ user'[u].version >= user[u].version
  BY <1>1, VersionsOnlyRise
<1>4. sessions[s].version <= user[u].version
  BY DEF AuthInv, CredentialsOK, Credential
<1>5. /\ sessions'[s].user = u
      /\ sessions'[s].version = sessions[s].version
      /\ sessions'[s].revoked = "no" => sessions[s].revoked = "no"
      /\ ~sessions'[s].expired => ~sessions[s].expired
  BY SessionsOnlyEnd
<1>6. /\ sessions'[s].revoked = "no" /\ ~sessions'[s].expired
      /\ sessions'[s].version = user'[u].version
  BY <1>5 DEF Accepted
<1> HIDE DEF u
<1>7. sessions[s].version = user[u].version
  BY <1>1, <1>2, <1>3, <1>4, <1>5, <1>6
<1> QED BY <1>5, <1>6, <1>7 DEF Accepted, u

(* What ended a session - logout, replay, expiry or a reset - ended it for *)
(* good: no step makes the guard accept it again.                          *)
THEOREM EndedSessionsAreOver == AuthSpec => EndedSessionsStayEnded
<1>1. AuthInv /\ [AuthNext]_authVars
        => [\A s \in DOMAIN sessions : Accepted(s)' => Accepted(s)]_authVars
  BY NoSessionReturns
<1> QED BY <1>1, InvAlways, PTL DEF AuthSpec, EndedSessionsStayEnded

=============================================================================
