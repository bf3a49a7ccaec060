------------------------------ MODULE Accounts ------------------------------
(***************************************************************************)
(* Accounts with a password, from registration to deletion:                *)
(* auth/auth.service.ts, createAccount to resendEmailCode and              *)
(* deleteAccount, composed with the sessions of Sessions and the creation  *)
(* of a store (provider/store/store.service.ts), whose documents name      *)
(* their user.                                                             *)
(*                                                                         *)
(* MongoDB knows nothing of these references: what of a user is deleted    *)
(* with it, and what an overlapping request leaves to the next user of the *)
(* same address, is up to the order of the writes.                         *)
(***************************************************************************)
EXTENDS Sessions

VARIABLE owners   \* MongoDB: users that the store documents name

vars == <<sessionVars, owners>>

PC == {"idle", "insert_user", "store_email_code", "mail_email_code", "write_verified",
       "social_write", "issue", "read_user", "rotate", "expire", "revoke_family",
       "store_code", "mail_recovery", "change_password", "revoke_sessions",
       "insert_store", "delete_tokens", "delete_stores", "delete_user", "done"}

Registered(address) == \E u \in Local : user[u] # None /\ user[u].address = address

-----------------------------------------------------------------------------
Draft(r, address) ==
  [address |-> address, version |-> 0, password |-> r, verified |-> FALSE, code |-> r, recovery |-> None]

\* createAccount: an address that has an account is refused.
BeginRegister(r, address) ==
  /\ ~Registered(address)
  /\ Begin(r, r, Draft(r, address), None, None, "insert_user")

Insertable_Checked(address) == TRUE
\* The unique index on provider and providerId, which is the address.
Insertable(address) == ~Registered(address)

\* ... hash the password and insert; a duplicate throws.
InsertUser(r) ==
  /\ pc[r] = "insert_user"
  /\ user' = IF Insertable(doc[r].address) THEN [user EXCEPT ![r] = doc[r]] ELSE user
  /\ Goto(r, IF Insertable(doc[r].address) THEN "mail_email_code" ELSE "done")
  /\ UNCHANGED <<other, token, access, doc, context>>

\* createAccount and resendEmailCode end with the mail.
MailEmailCode(r) ==
  /\ pc[r] = "mail_email_code"
  /\ mailed' = mailed \cup {r}
  /\ Goto(r, "done")
  /\ UNCHANGED <<user, gone, token, access, doc, context>>

\* resendEmailCode: nothing to do for a verified account.
BeginResend(r, u) ==
  /\ u \in Local
  /\ user[u] # None
  /\ ~user[u].verified
  /\ Begin(r, u, user[u], None, None, "store_email_code")

StoreEmailCode(r) ==
  /\ pc[r] = "store_email_code"
  /\ Write(r, [user[Target(r)] EXCEPT !.code = r])
  /\ Goto(r, "mail_email_code")
  /\ UNCHANGED <<other, token, access, doc, context>>

\* verifyEmail: the caller presents the code that the document holds.
BeginVerify(r, u) ==
  /\ u \in Local
  /\ user[u] # None
  /\ ~user[u].verified
  /\ user[u].code \in mailed
  /\ Begin(r, u, user[u], None, None, "write_verified")

WriteVerified(r) ==
  /\ pc[r] = "write_verified"
  /\ Write(r, [user[Target(r)] EXCEPT !.verified = TRUE, !.code = None])
  /\ Goto(r, "done")
  /\ UNCHANGED <<other, token, access, doc, context>>

-----------------------------------------------------------------------------
\* StoreService.createProfile: a user has one store at most.
BeginStore(r, u) ==
  /\ Authenticated(u)
  /\ u \notin owners
  /\ Begin(r, u, None, None, None, "insert_store")

InsertStore(r) ==
  /\ pc[r] = "insert_store"
  /\ owners' = owners \cup {who[r]}
  /\ Goto(r, "done")
  /\ UNCHANGED <<database, access, doc, context>>

\* deleteAccount and purgeUser: what names the user first, the user last.
BeginPurge(r, u) ==
  /\ Authenticated(u)
  /\ Begin(r, u, user[u], None, None, "delete_tokens")

DeleteTokens_Revoked(r) ==
  /\ pc[r] = "delete_tokens"
  /\ token' = [t \in Requests |-> IF token[t] # None /\ token[t].user = who[r] /\ token[t].revoked THEN None ELSE token[t]]
  /\ Goto(r, "delete_stores")
  /\ UNCHANGED <<user, other, access, doc, context>>

DeleteTokens(r) ==
  /\ pc[r] = "delete_tokens"
  /\ token' = [t \in Requests |-> IF token[t] # None /\ token[t].user = who[r] THEN None ELSE token[t]]
  /\ Goto(r, "delete_stores")
  /\ UNCHANGED <<user, other, access, doc, context>>

DeleteStores(r) ==
  /\ pc[r] = "delete_stores"
  /\ owners' = owners \ {who[r]}
  /\ Goto(r, "delete_user")
  /\ UNCHANGED <<database, access, doc, context>>

DeleteUser(r) ==
  /\ pc[r] = "delete_user"
  /\ user' = [user EXCEPT ![who[r]] = None]
  /\ gone' = gone \cup {who[r]}
  /\ Goto(r, "done")
  /\ UNCHANGED <<token, mailed, access, doc, context>>

-----------------------------------------------------------------------------
\* The accounts that exist at the beginning have verified their address.
Init ==
  /\ faults \in DOMAIN Budget
  /\ \E existing \in SUBSET First, home \in [First -> Addresses] :
       /\ \A u, w \in existing : home[u] = home[w] => u = w
       /\ user = [u \in Users |-> IF u \in existing THEN [NewUser EXCEPT !.address = home[u]] ELSE None]
       /\ gone = First \ existing
  /\ token = [t \in Requests |-> None]
  /\ mailed = {}
  /\ owners = {}
  /\ access = {}
  /\ pc = [r \in Requests |-> "idle"]
  /\ who = [r \in Requests |-> None]
  /\ doc = [r \in Requests |-> None]
  /\ spent = [r \in Requests |-> None]
  /\ session = [r \in Requests |-> None]

AccountStep(r) ==
  \/ InsertUser(r) \/ MailEmailCode(r) \/ StoreEmailCode(r) \/ WriteVerified(r)
  \/ DeleteTokens(r) \/ DeleteUser(r)

Next ==
  \/ SessionNext /\ UNCHANGED owners
  \/ \E r \in Requests : AccountStep(r) /\ UNCHANGED owners
  \/ \E r \in Requests : InsertStore(r) \/ DeleteStores(r)
  \/ \E r \in Requests, address \in Addresses : BeginRegister(r, address) /\ UNCHANGED owners
  \/ \E r \in Requests, u \in Users :
       (BeginResend(r, u) \/ BeginVerify(r, u) \/ BeginStore(r, u) \/ BeginPurge(r, u)) /\ UNCHANGED owners

Spec == Init /\ [][Next]_vars

-----------------------------------------------------------------------------
\* The variables have the types of the schemas.
TypeOK ==
  /\ user \in [Users -> UserDoc \cup {None}]
  /\ gone \subseteq Users /\ owners \subseteq Users
  /\ token \in [Requests -> Token \cup {None}]
  /\ mailed \subseteq Requests
  /\ access \subseteq AccessToken
  /\ pc \in [Requests -> PC]
  /\ who \in [Requests -> Users \cup {None}]
  /\ doc \in [Requests -> UserDoc \cup {None}]
  /\ spent \in [Requests -> Requests \cup {None}]
  /\ session \in [Requests -> Passwords \cup {None}]

\* email_already_registered: two registrations of an address that overlap do not
\* both succeed.
OneAccountPerAddress ==
  \A u, w \in Local :
    user[u] # None /\ user[w] # None /\ user[u].address = user[w].address => u = w

\* Nobody gets a session, nor an account a verified address, before a code made
\* for this very account has reached that address.
SessionsNeedAReachedAddress ==
  \A u \in Requests :
    user[u] # None /\ (user[u].verified \/ Authenticated(u) \/ LiveOf(u) # {})
      => \E r \in mailed : who[r] = u

\* A request in flight for an account that is deleted never touches the account
\* that is registered after it at the same address: the password and the codes of
\* an account come from requests for this account.
AccountsKeepApart ==
  \A u \in Local : user[u] # None =>
    \A r \in Requests : r \in {user[u].password, user[u].code, user[u].recovery} => who[r] = u

\* deleteAccount, "Elimina la cuenta autenticada + refresh tokens + stores del
\* usuario": unless requests overlap, and wherever the deletion dies, nothing is
\* left of a user who is deleted.
PurgeIsComplete ==
  "overlap" \notin faults =>
    /\ \A t \in Requests : token[t] # None => token[t].user \notin gone
    /\ owners \cap gone = {}
=============================================================================
