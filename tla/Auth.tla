-------------------------------- MODULE Auth --------------------------------
(***************************************************************************)
(* The accounts of the API: users, their sessions with rotating refresh    *)
(* tokens, the one-time links that reset a password or verify an address,  *)
(* and the business a user onboards with (auth.service.ts, auth.guard.ts,  *)
(* businesses.service.ts).  The clients are arbitrary: they may present    *)
(* any token ever issued, in any order, as often as they like.             *)
(*                                                                         *)
(* A handler whose work is one Serializable transaction, or one            *)
(* transaction that only inserts, is one action.  A handler that reads     *)
(* before its transaction is two: the request waits in `pending` with what *)
(* it read, and it may die there when the process does.                    *)
(*                                                                         *)
(* Rows are never deleted, so an id is a position in its table and 0 is    *)
(* no id.  Left out: User.status, which nothing ever changes from ACTIVE;  *)
(* the BUSINESS_MEMBER role, always OWNER; profile and business details.   *)
(***************************************************************************)
EXTENDS Integers, Sequences, FiniteSets

CONSTANTS Users,      \* email addresses an account may be opened for
          Passwords,
          Requests,   \* handlers that may be running at once
          MaxSessions, MaxTokens, MaxLinks  \* bounds on the tables

ASSUME AuthAssumption ==
    /\ MaxSessions \in Nat
    /\ MaxTokens \in Nat
    /\ MaxLinks \in Nat

VARIABLES user,       \* User rows
          sessions,   \* AuthSession rows
          tokens,     \* RefreshToken rows
          links,      \* PasswordResetToken and EmailVerificationToken rows
          owners,     \* Business rows, each with its OWNER membership
          pending     \* handlers between their read and their transaction

authVars == <<user, sessions, tokens, links, owners, pending>>

NoUser == [password |-> "none"]
Idle == [op |-> "idle"]
Purposes == {"reset", "verify"}

UserRows == [password : Passwords, version : Nat, verified : BOOLEAN, business : Nat]
(* `openedWith` is the password that opened the session and the value of   *)
(* `revoked` names what revoked it: the code keeps neither, properties do. *)
SessionRows == [user : Users, version : Nat, expired : BOOLEAN, openedWith : Passwords,
                revoked : {"no", "logout", "reset", "replay"}]
TokenRows == [session : Nat, used : BOOLEAN]
LinkRows == [user : Users, purpose : Purposes, state : {"live", "used", "expired"}]
Handlers ==
    [op : {"login"}, user : Users, version : Nat, password : Passwords]
    \cup [op : {"link"}, user : Users]
    \cup [op : {"create"}, user : Users, business : Nat]

AuthTypeOK ==
    /\ user \in [Users -> UserRows \cup {NoUser}]
    /\ sessions \in Seq(SessionRows)
    /\ tokens \in Seq(TokenRows)
    /\ links \in Seq(LinkRows)
    /\ owners \in Seq(Users)
    /\ pending \in [Requests -> Handlers \cup {Idle}]

AuthInit ==
    /\ user = [u \in Users |-> NoUser]
    /\ sessions = << >>
    /\ tokens = << >>
    /\ links = << >>
    /\ owners = << >>
    /\ pending = [r \in Requests |-> Idle]

Exists(u) == user[u] # NoUser

Start(r, handler) ==
    /\ pending[r] = Idle
    /\ pending' = [pending EXCEPT ![r] = handler]

Finish(r) == pending' = [pending EXCEPT ![r] = Idle]

-----------------------------------------------------------------------------
(* Sessions.                                                               *)

(* What AuthGuard, and refresh, accept. *)
Accepted(s) ==
    /\ sessions[s].revoked = "no"
    /\ ~sessions[s].expired
    /\ sessions[s].version = user[sessions[s].user].version

(* Mutant of Session: the version is read when the row is written. *)
SessionAtWrite(u, version, password) ==
    /\ Len(sessions) < MaxSessions
    /\ Len(tokens) < MaxTokens
    /\ sessions' = Append(sessions,
          [user |-> u, version |-> IF Exists(u) THEN user[u].version ELSE version,
           expired |-> FALSE, openedWith |-> password, revoked |-> "no"])
    /\ tokens' = Append(tokens, [session |-> Len(sessions) + 1, used |-> FALSE])

(* session: a row with the authVersion the caller read, and its first token. *)
Session(u, version, password) ==
    /\ Len(sessions) < MaxSessions
    /\ Len(tokens) < MaxTokens
    /\ sessions' = Append(sessions, [user |-> u, version |-> version, expired |-> FALSE,
                                     openedWith |-> password, revoked |-> "no"])
    /\ tokens' = Append(tokens, [session |-> Len(sessions) + 1, used |-> FALSE])

Revoke(ended, cause) ==
    sessions' = [s \in DOMAIN sessions |->
                   IF s \in ended /\ sessions[s].revoked = "no"
                   THEN [sessions[s] EXCEPT !.revoked = cause] ELSE sessions[s]]

Signup(u, password) ==
    /\ ~Exists(u)
    /\ Len(links) < MaxLinks
    /\ user' = [user EXCEPT ![u] = [password |-> password, version |-> 0,
                                    verified |-> FALSE, business |-> 0]]
    /\ Session(u, 0, password)
    /\ links' = Append(links, [user |-> u, purpose |-> "verify", state |-> "live"])
    /\ UNCHANGED <<owners, pending>>

(* login: the user is read and the password verified outside any transaction. *)
ReadForLogin(r, u, password) ==
    /\ Exists(u)
    /\ user[u].password = password
    /\ Start(r, [op |-> "login", user |-> u, version |-> user[u].version,
                 password |-> password])
    /\ UNCHANGED <<user, sessions, tokens, links, owners>>

Login(r) ==
    /\ pending[r].op = "login"
    /\ Session(pending[r].user, pending[r].version, pending[r].password)
    /\ Finish(r)
    /\ UNCHANGED <<user, links, owners>>

(* Mutant of Rotate: the presented token is not consumed. *)
RotateKeep(t) ==
    tokens' = Append(tokens, [session |-> tokens[t].session, used |-> FALSE])

(* The presented token is consumed and a new one takes its place. *)
Rotate(t) ==
    tokens' = Append([tokens EXCEPT ![t].used = TRUE],
                     [session |-> tokens[t].session, used |-> FALSE])

(* Mutant of Refresh: a refresh renews the session before it looks at it. *)
RefreshSliding(t) ==
    /\ sessions[tokens[t].session].revoked = "no"
    /\ ~tokens[t].used
    /\ Len(tokens) < MaxTokens
    /\ Rotate(t)
    /\ sessions' = [sessions EXCEPT ![tokens[t].session].expired = FALSE]
    /\ UNCHANGED <<user, links, owners, pending>>

(* refresh: a used token of a session that is still accepted revokes it. *)
Refresh(t) ==
    /\ Accepted(tokens[t].session)
    /\ \/ /\ ~tokens[t].used
          /\ Len(tokens) < MaxTokens
          /\ Rotate(t)
          /\ UNCHANGED sessions
       \/ /\ tokens[t].used
          /\ Revoke({tokens[t].session}, "replay")
          /\ UNCHANGED tokens
    /\ UNCHANGED <<user, links, owners, pending>>

(* logout finds the session by any refresh token of it, or by the access JWT. *)
Logout(s) ==
    /\ Revoke({s}, "logout")
    /\ UNCHANGED <<user, tokens, links, owners, pending>>

(* Thirty days pass. *)
ExpireSession(s) ==
    /\ ~sessions[s].expired
    /\ sessions' = [sessions EXCEPT ![s].expired = TRUE]
    /\ UNCHANGED <<user, tokens, links, owners, pending>>

-----------------------------------------------------------------------------
(* One-time links.                                                         *)

(* The table with every unused link of the user and purpose marked used, *)
(* `but` among them: 0, or the link being opened.                         *)
Burnt(table, u, purpose, but) ==
    [l \in DOMAIN table |->
        IF l = but \/ (table[l].user = u /\ table[l].purpose = purpose /\ table[l].state = "live")
        THEN [table[l] EXCEPT !.state = "used"] ELSE table[l]]

(* Mutant of Issue: earlier links keep working. *)
IssueUnburnt(u, purpose) ==
    /\ Len(links) < MaxLinks
    /\ links' = Append(links, [user |-> u, purpose |-> purpose, state |-> "live"])

(* issueOneTimeToken burns the links of this purpose and adds one. *)
Issue(u, purpose) ==
    /\ Len(links) < MaxLinks
    /\ links' = Append(Burnt(links, u, purpose, 0),
                       [user |-> u, purpose |-> purpose, state |-> "live"])

RequestReset(u) ==
    /\ Exists(u)
    /\ Issue(u, "reset")
    /\ UNCHANGED <<user, sessions, tokens, owners, pending>>

(* That the address is unverified is read outside the transaction. *)
ReadForVerification(r, u) ==
    /\ Exists(u)
    /\ ~user[u].verified
    /\ Start(r, [op |-> "link", user |-> u])
    /\ UNCHANGED <<user, sessions, tokens, links, owners>>

RequestVerification(r) ==
    /\ pending[r].op = "link"
    /\ Issue(pending[r].user, "verify")
    /\ Finish(r)
    /\ UNCHANGED <<user, sessions, tokens, owners>>

ResetPassword(l, password) ==
    LET u == links[l].user
    IN  /\ links[l].purpose = "reset"
        /\ links[l].state = "live"
        /\ user' = [user EXCEPT ![u].password = password, ![u].version = @ + 1]
        /\ Revoke({s \in DOMAIN sessions : sessions[s].user = u}, "reset")
        /\ links' = Burnt(links, u, "reset", l)
        /\ UNCHANGED <<tokens, owners, pending>>

VerifyEmail(l) ==
    LET u == links[l].user
    IN  /\ links[l].purpose = "verify"
        /\ links[l].state = "live"
        /\ user' = [user EXCEPT ![u].verified = TRUE]
        /\ links' = Burnt(links, u, "verify", l)
        /\ UNCHANGED <<sessions, tokens, owners, pending>>

(* Thirty minutes, or a day, pass. *)
ExpireLink(l) ==
    /\ links[l].state = "live"
    /\ links' = [links EXCEPT ![l].state = "expired"]
    /\ UNCHANGED <<user, sessions, tokens, owners, pending>>

-----------------------------------------------------------------------------
(* Onboarding.                                                             *)

(* AuthGuard reads session and user in one query; the handler goes on with *)
(* that copy of the user.                                                  *)
Admit(r, s) ==
    /\ Accepted(s)
    /\ Start(r, [op |-> "create", user |-> sessions[s].user,
                 business |-> user[sessions[s].user].business])
    /\ UNCHANGED <<user, sessions, tokens, links, owners>>

(* Mutant of Assign: the user is assigned by id alone. *)
AssignAlways(u) ==
    /\ owners' = Append(owners, u)
    /\ user' = [user EXCEPT ![u].business = Len(owners) + 1]

(* The row, its OWNER membership and the assignment, conditional on the    *)
(* user having no business yet; otherwise everything is rolled back.       *)
Assign(u) ==
    IF user[u].business = 0
    THEN /\ owners' = Append(owners, u)
         /\ user' = [user EXCEPT ![u].business = Len(owners) + 1]
    ELSE UNCHANGED <<owners, user>>

CreateBusiness(r) ==
    /\ pending[r].op = "create"
    /\ IF pending[r].business = 0 THEN Assign(pending[r].user)
                                  ELSE UNCHANGED <<owners, user>>
    /\ Finish(r)
    /\ UNCHANGED <<sessions, tokens, links>>

(* The process dies with the request. *)
Die(r) ==
    /\ pending[r] # Idle
    /\ Finish(r)
    /\ UNCHANGED <<user, sessions, tokens, links, owners>>

-----------------------------------------------------------------------------
AuthNext ==
    \/ \E u \in Users, password \in Passwords : Signup(u, password)
    \/ \E u \in Users : RequestReset(u)
    \/ \E t \in DOMAIN tokens : Refresh(t)
    \/ \E s \in DOMAIN sessions : Logout(s) \/ ExpireSession(s)
    \/ \E l \in DOMAIN links :
          \/ \E password \in Passwords : ResetPassword(l, password)
          \/ VerifyEmail(l)
          \/ ExpireLink(l)
    \/ \E r \in Requests :
          \/ \E u \in Users, password \in Passwords : ReadForLogin(r, u, password)
          \/ \E u \in Users : ReadForVerification(r, u)
          \/ \E s \in DOMAIN sessions : Admit(r, s)
          \/ Login(r) \/ RequestVerification(r) \/ CreateBusiness(r) \/ Die(r)

AuthSpec == AuthInit /\ [][AuthNext]_authVars

-----------------------------------------------------------------------------
(* Properties.                                                             *)

(* A session the guard accepts was opened with the password the user has   *)
(* now, also when the login had read the user before a reset and wrote its *)
(* session after it.                                                       *)
SessionsHonourPassword ==
    \A s \in DOMAIN sessions :
        Accepted(s) => sessions[s].openedWith = user[sessions[s].user].password

(* Rotation: whatever was refreshed, replayed, revoked or lost, a session  *)
(* has exactly one refresh token that was never used.                      *)
OneLiveToken ==
    \A s \in DOMAIN sessions :
        /\ \E t \in DOMAIN tokens : tokens[t].session = s /\ ~tokens[t].used
        /\ \A t1, t2 \in DOMAIN tokens :
              /\ tokens[t1].session = s /\ ~tokens[t1].used
              /\ tokens[t2].session = s /\ ~tokens[t2].used
              => t1 = t2

(* Of all the links of one purpose a user was ever sent, one at most works. *)
OneUsableLink ==
    \A l1, l2 \in DOMAIN links :
        /\ links[l1].state = "live" /\ links[l2].state = "live"
        /\ links[l1].user = links[l2].user
        /\ links[l1].purpose = links[l2].purpose
        => l1 = l2

(* Two onboarding requests that both read a user without a business leave  *)
(* one business: each business is the current one of its owner.            *)
OneBusinessPerUser ==
    \A b \in DOMAIN owners : user[owners[b]].business = b

(* A session that has ended - revoked, expired or left behind by a reset - *)
(* is never accepted again, whatever is refreshed or reset afterwards.     *)
EndedSessionsStayEnded ==
    [][\A s \in DOMAIN sessions : Accepted(s)' => Accepted(s)]_authVars

=============================================================================
