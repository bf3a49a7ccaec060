------------------------------ MODULE Sessions ------------------------------
(***************************************************************************)
(* Login sessions: auth/auth.service.ts from loginLocal on, with           *)
(* auth/strategies/jwt.strategy.ts.  Accounts composes these actions with  *)
(* those that create, verify and delete the accounts.                      *)
(*                                                                         *)
(* A session is a short-lived access token (a JWT that carries the user's  *)
(* tokenVersion) and a refresh token (a document; the client holds the     *)
(* secret).  Refreshing spends the refresh token and creates the next one. *)
(* A password reset bumps tokenVersion and revokes the user's refresh      *)
(* tokens, in two writes.                                                  *)
(*                                                                         *)
(* Requests stop at each await, as in Payments.  A refresh token, a code,  *)
(* a new password and the account that a registration creates bear the     *)
(* name of the request that made them, so a deleted user's id is not used  *)
(* again.  An access token or a code that expires is one that is no longer *)
(* used, so neither needs a clock; X_Y is a mutation of X.                 *)
(***************************************************************************)
EXTENDS Naturals, FiniteSets

CONSTANTS First,      \* accounts that may exist, with a password, from the beginning
          Social,     \* users of Google, Facebook or Apple
          Requests,   \* API requests, and the accounts they register
          Addresses,  \* email addresses of accounts with a password
          Budget,     \* how many requests are served, for each set of faults
          None        \* no document, no code, no parent

Local == First \cup Requests
Users == Local \cup Social
Passwords == Requests \cup {"first"}
UserDoc == [address: Addresses \cup {None}, version: Nat, password: Passwords, verified: BOOLEAN,
            code: Requests \cup {None}, recovery: Requests \cup {None}]

\* `session` is the password under which the session was opened by a login; the
\* code does not store it.
Token == [user: Users, parent: Requests \cup {None}, session: Passwords,
          revoked: BOOLEAN, expired: BOOLEAN]
AccessToken == [user: Users, version: Nat, password: Passwords]

\* Requests overlap; an awaited call throws, or the process dies.
Faults == {"overlap", "failure"}

ASSUME SessionsAssumption ==
  /\ \E S \in SUBSET SUBSET Faults : Budget \in [S -> Nat]
  /\ Local \cap Social = {} /\ First \cap Requests = {}
  /\ None \notin Addresses \cup Users
  /\ "first" \notin Requests \cup {None}
  /\ None \notin UserDoc /\ None \notin Token

VARIABLES faults,   \* what may go wrong, chosen once
          user,     \* MongoDB: users, None before registration and after deletion
          gone,     \* ids of deleted users
          token,    \* MongoDB: refresh tokens, None when absent or deleted
          mailed,   \* codes that reached their address
          access,   \* access tokens in the hands of clients
          pc,       \* where each request is
          who,      \* the user each request works for
          doc,      \* the user document each request loaded
          spent,    \* the refresh token each request presented, None for a login
          session   \* history: the password that opened the session each request extends

sessionVars == <<faults, user, gone, token, mailed, access, pc, who, doc, spent, session>>
context == <<who, spent, session>>
other == <<gone, mailed>>
database == <<user, gone, token, mailed>>

Live(t) == token[t] # None /\ ~token[t].revoked
LiveOf(u) == {t \in Requests : Live(t) /\ token[t].user = u}

\* JwtStrategy.validate: the user exists and has the version of the token.
Accepted(a) == user[a.user] # None /\ a.version = user[a.user].version
Authenticated(u) == \E a \in access : a.user = u /\ Accepted(a)

Idle(r) ==
  /\ pc[r] = "idle"
  /\ Cardinality({q \in Requests : pc[q] # "idle"}) < Budget[faults]
  /\ "overlap" \in faults \/ \A q \in Requests : pc[q] \in {"idle", "done"}

Goto(r, label) == pc' = [pc EXCEPT ![r] = label] /\ UNCHANGED faults

Begin(r, u, d, t, opened, label) ==
  /\ Idle(r)
  /\ session' = [session EXCEPT ![r] = opened]
  /\ who' = [who EXCEPT ![r] = u]
  /\ doc' = [doc EXCEPT ![r] = d]
  /\ spent' = [spent EXCEPT ![r] = t]
  /\ Goto(r, label)
  /\ UNCHANGED <<database, access>>

-----------------------------------------------------------------------------
BeginLogin_Unverified(r, u, password) ==
  /\ u \in Local
  /\ user[u] # None
  /\ user[u].password = password
  /\ Begin(r, u, user[u], None, password, "issue")

\* loginLocal: the password is compared with the loaded document's.
BeginLogin(r, u, password) ==
  /\ u \in Local
  /\ user[u] # None
  /\ user[u].password = password
  /\ user[u].verified
  /\ Begin(r, u, user[u], None, password, "issue")

\* findOrCreateAndSign: load the user of the social identity, if there is one.
BeginSocialLogin(r, u) ==
  /\ u \in Social
  /\ u \notin gone
  /\ Begin(r, u, user[u], None, "first", "social_write")

NewUser == [address |-> None, version |-> 0, password |-> "first", verified |-> TRUE,
            code |-> None, recovery |-> None]

\* ... then create it (the unique index refuses a second one, and the request
\* fails) or update its profile; the session is issued even if the update found
\* the user deleted.
SocialWrite(r) ==
  LET u == who[r] IN
  /\ pc[r] = "social_write"
  /\ IF doc[r] = None
     THEN /\ user' = IF user[u] = None /\ u \notin gone THEN [user EXCEPT ![u] = NewUser] ELSE user
          /\ doc' = [doc EXCEPT ![r] = NewUser]
          /\ Goto(r, IF user[u] = None /\ u \notin gone THEN "issue" ELSE "done")
     ELSE /\ doc' = IF user[u] # None THEN [doc EXCEPT ![r] = user[u]] ELSE doc
          /\ Goto(r, "issue")
          /\ UNCHANGED user
  /\ UNCHANGED <<other, token, access, context>>

-----------------------------------------------------------------------------
\* refreshAccess: what is done with a refresh token depends on its document alone.
RefreshCheck(t) ==
  IF token[t].revoked THEN "revoke_family"
  ELSE IF token[t].expired THEN "expire"
  ELSE "read_user"

\* refreshAccess: load the refresh token; an unknown one is refused.
BeginRefresh(r, t) ==
  /\ token[t] # None
  /\ Begin(r, token[t].user, None, t, token[t].session, RefreshCheck(t))

\* refreshAccess: load the user; the request ends if there is none.
ReadUser(r) ==
  /\ pc[r] = "read_user"
  /\ doc' = [doc EXCEPT ![r] = user[who[r]]]
  /\ Goto(r, IF user[who[r]] = None THEN "done" ELSE "rotate")
  /\ UNCHANGED <<database, access, context>>

\* stored.revoked = true; save(), which throws when the document is gone.
Spend(t) == token' = IF token[t] = None THEN token ELSE [token EXCEPT ![t].revoked = TRUE]

Rotate_KeepsOld(r) ==
  /\ pc[r] = "rotate"
  /\ Goto(r, IF token[spent[r]] = None THEN "done" ELSE "issue")
  /\ UNCHANGED <<user, other, token, access, doc, context>>

\* refreshAccess: the presented token is spent before the next one exists.
Rotate(r) ==
  /\ pc[r] = "rotate"
  /\ Spend(spent[r])
  /\ Goto(r, IF token[spent[r]] = None THEN "done" ELSE "issue")
  /\ UNCHANGED <<user, other, access, doc, context>>

ExpireToken(r) ==
  /\ pc[r] = "expire"
  /\ Spend(spent[r])
  /\ Goto(r, "done")
  /\ UNCHANGED <<user, other, access, doc, context>>

RevokeAll(u) == token' = [t \in Requests |-> IF t \in LiveOf(u) THEN [token[t] EXCEPT !.revoked = TRUE] ELSE token[t]]

\* refreshAccess: a spent token came back; updateMany revokes the user's tokens.
RevokeFamily(r) ==
  /\ pc[r] = "revoke_family"
  /\ RevokeAll(who[r])
  /\ Goto(r, "done")
  /\ UNCHANGED <<user, other, access, doc, context>>

\* issueSession, and the end of refreshAccess: sign an access token from the
\* loaded document, create a refresh token, answer with both.
Issue(r) ==
  /\ pc[r] = "issue"
  /\ access' = access \cup {[user |-> who[r], version |-> doc[r].version, password |-> doc[r].password]}
  /\ token' = [token EXCEPT ![r] =
       [user |-> who[r], parent |-> spent[r], session |-> session[r], revoked |-> FALSE, expired |-> FALSE]]
  /\ Goto(r, "done")
  /\ UNCHANGED <<user, other, doc, context>>

\* logout: one conditional update of the caller's own token.
Logout(u, t) ==
  /\ Authenticated(u)
  /\ t \in LiveOf(u)
  /\ token' = [token EXCEPT ![t].revoked = TRUE]
  /\ UNCHANGED <<faults, user, other, access, pc, doc, context>>

\* Time passes: a refresh token expires, and MongoDB's TTL index removes it.
Expire(t) ==
  /\ token[t] # None
  /\ token' = [token EXCEPT ![t] = IF token[t].expired THEN None ELSE [token[t] EXCEPT !.expired = TRUE]]
  /\ UNCHANGED <<faults, user, other, access, pc, doc, context>>

-----------------------------------------------------------------------------
\* findByIdAndUpdate of the loaded user; a deleted one is left alone.
Target_ByAddress(r) ==
  IF \E u \in Local : user[u] # None /\ user[u].address = doc[r].address
  THEN CHOOSE u \in Local : user[u] # None /\ user[u].address = doc[r].address
  ELSE who[r]
Target(r) == who[r]

Write(r, d) == user' = IF user[Target(r)] = None THEN user ELSE [user EXCEPT ![Target(r)] = d]

\* requestPasswordRecovery: load the user, store a new code, mail it.
BeginRecovery(r, u) ==
  /\ u \in Local
  /\ user[u] # None
  /\ Begin(r, u, user[u], None, None, "store_code")

StoreCode(r) ==
  /\ pc[r] = "store_code"
  /\ Write(r, [user[Target(r)] EXCEPT !.recovery = r])
  /\ Goto(r, "mail_recovery")
  /\ UNCHANGED <<other, token, access, doc, context>>

MailRecovery(r) ==
  /\ pc[r] = "mail_recovery"
  /\ mailed' = mailed \cup {r}
  /\ Goto(r, "done")
  /\ UNCHANGED <<user, gone, token, access, doc, context>>

\* setNewPassword: the caller presents the code that the document holds.
BeginReset(r, u) ==
  /\ u \in Local
  /\ user[u] # None
  /\ user[u].recovery \in mailed
  /\ Begin(r, u, user[u], None, None, "change_password")

NewPassword_SameVersion(d, r) == [d EXCEPT !.password = r, !.recovery = None]
NewPassword(d, r) == [d EXCEPT !.password = r, !.recovery = None, !.version = @ + 1]

\* ... findByIdAndUpdate: $set, $unset and $inc in one write
ChangePassword(r) ==
  /\ pc[r] = "change_password"
  /\ Write(r, NewPassword(user[Target(r)], r))
  /\ Goto(r, "revoke_sessions")
  /\ UNCHANGED <<other, token, access, doc, context>>

RevokeSessions_Skipped(r) ==
  /\ pc[r] = "revoke_sessions"
  /\ Goto(r, "done")
  /\ UNCHANGED <<user, other, token, access, doc, context>>

\* ... then updateMany revokes the refresh tokens that exist by now
RevokeSessions(r) ==
  /\ pc[r] = "revoke_sessions"
  /\ RevokeAll(who[r])
  /\ Goto(r, "done")
  /\ UNCHANGED <<user, other, access, doc, context>>

\* An awaited call throws or the process dies; what was written stays written.
RequestFails(r) ==
  /\ "failure" \in faults
  /\ pc[r] \notin {"idle", "done"}
  /\ Goto(r, "done")
  /\ UNCHANGED <<database, access, doc, context>>

-----------------------------------------------------------------------------
SessionStep(r) ==
  \/ SocialWrite(r) \/ Issue(r)
  \/ ReadUser(r) \/ Rotate(r) \/ ExpireToken(r) \/ RevokeFamily(r)
  \/ StoreCode(r) \/ MailRecovery(r) \/ ChangePassword(r) \/ RevokeSessions(r)

SessionNext ==
  \/ \E r \in Requests : SessionStep(r) \/ RequestFails(r)
  \/ \E r \in Requests, u \in Users, password \in Passwords : BeginLogin(r, u, password)
  \/ \E r \in Requests, u \in Users :
       BeginSocialLogin(r, u) \/ BeginRecovery(r, u) \/ BeginReset(r, u)
  \/ \E r, t \in Requests : BeginRefresh(r, t)
  \/ \E u \in Users, t \in Requests : Logout(u, t)
  \/ \E t \in Requests : Expire(t)

-----------------------------------------------------------------------------
\* A refresh token that was exchanged is spent: whenever a successor exists it is
\* revoked or deleted, at any interleaving and after any failure, so who presents
\* it from then on is refused.  Unless requests overlap it has one successor, even
\* if they fail between the two writes.  (Two overlapping exchanges that have both
\* loaded it before either spends it both get one.)
ExchangedTokensAreDead ==
  \A t \in Requests : token[t] # None /\ token[t].parent # None =>
    /\ ~Live(token[t].parent)
    /\ "overlap" \notin faults =>
         \A s \in Requests : token[s] # None /\ token[s].parent = token[t].parent => s = t

\* "para que el cambio de contrasena cierre sesion de inmediato": no access token
\* signed for a user document with another password is accepted, however long
\* ago the signing request had loaded it.
ResetEndsAccess ==
  \A a \in access : Accepted(a) => a.password = user[a.user].password

\* "Invalidar sesiones existentes": once a reset has finished, every refresh
\* token that can still be exchanged belongs to a session opened with the
\* current password.
ResetEndsSessions ==
  \A u \in Local :
    user[u] # None /\ (\A r \in Requests : ~(pc[r] = "revoke_sessions" /\ who[r] = u))
      => \A t \in LiveOf(u) : token[t].session = user[u].password

\* ... which the code keeps when requests neither overlap nor fail.
CalmResetEndsSessions == faults = {} => ResetEndsSessions
=============================================================================
